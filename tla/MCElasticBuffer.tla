-------------------------- MODULE MCElasticBuffer --------------------------
(***************************************************************************)
(* Small instances of ElasticBuffer.                                       *)
(***************************************************************************)
EXTENDS ElasticBuffer

\* As in FM, half the buffer in several blocks; as in AM, as many packets in a
\* PDU as a block plays; and PDUs whose number leaves two places open.
FmAndAm == {[avg |-> 2, frames |-> 1], [avg |-> 2, frames |-> 2], [avg |-> 1, frames |-> 1]}
=============================================================================
