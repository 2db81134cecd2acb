------------------------------- MODULE MCStore -------------------------------
(***************************************************************************)
(* A small instance of Store: two networks, two users, files of each       *)
(* version, and an interface with a name that wirelessIface passes over.   *)
(***************************************************************************)
EXTENDS Store

Line(name, dash, real) == [colon |-> TRUE, name |-> name, dash |-> dash, real |-> real]
Header == [colon |-> FALSE, name |-> "face", dash |-> TRUE, real |-> FALSE]

MCWireless ==
    {<<Header, Line("wlp1s0", FALSE, TRUE)>>, <<Header, Line("wl-an", TRUE, TRUE)>>, <<>>}

Slot(u, password) == [user |-> u, password |-> password, remember |-> TRUE]

MCTexts ==
    {Missing, Text("1", "A", Slot("u2", <<"aes", "u2">>), <<>>),
     Text("none", "", Slot("u2", <<"u2">>), <<>>)}
==============================================================================
