----------------------------- MODULE MCServices -----------------------------
EXTENDS Services

\* A station with images and some without, with messages that interact.
Stations == {
    {"images"},
    {"long_name", "slogan"},
    {"short_name", "universal_short_name"},
    {"message", "alert"},
    {"alert", "station_id"},
    {"location", "data"},
    {"audio", "parameter"}}

\* Weather, and a tile of traffic that does not exist.
TwoTiles == <<0, 2>>
=============================================================================
