------------------------------ MODULE MCMonitor ------------------------------
\* An instance of Monitor: two scenarios, and one other who may switch the VPN
\* on with a table size so small that the next sample may or may not be valid.
EXTENDS Monitor

MCScenarios == <<"baseline", "link_down">>
MCBodies == {[profile |-> "baseline", vpn_state |-> "up", nat_table_size |-> 5]}
=============================================================================
