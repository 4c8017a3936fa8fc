----------------------------- MODULE MCDiscovery -----------------------------
(* Discovery with two speakers on one port, a group on another, a service   *)
(* that is no Chromecast, one whose text is damaged, and chans of two.       *)
EXTENDS Discovery

CONSTANTS kitchen, bedroom, group, printer, damaged

MCInfo ==
    [e \in Entries |->
        CASE e = kitchen -> [md |-> "speaker", port |-> 8009, fn |-> "Kitchen"]
          [] e = bedroom -> [md |-> "hub", port |-> 8009, fn |-> "Bedroom"]
          [] e = group -> [md |-> "group", port |-> 32187, fn |-> "Home"]
          [] OTHER -> [md |-> "other", port |-> 631, fn |-> "Other"]]

\* By name with the usual port, by name and model without a port, by a name
\* nobody has.
MCFinds ==
    {[md |-> "", port |-> 32187, fn |-> "Bedroom"],
     [md |-> "speaker", port |-> NoPort, fn |-> "Kitchen"],
     [md |-> "", port |-> 1, fn |-> "Attic"]}
=============================================================================
