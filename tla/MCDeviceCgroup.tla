--------------------------- MODULE MCDeviceCgroup ---------------------------
(***************************************************************************)
(* Instances of DeviceCgroup for the model checker. Two cards share a      *)
(* major number; the runtime allows the null device. One runtime attached  *)
(* two filters, one has a filter we may not read, one has none.            *)
(***************************************************************************)
EXTENDS DeviceCgroup

Card0   == <<226, 0>>
Card1   == <<226, 1>>
Null    == <<1, 3>>

MCDevices == {Card0, Card1, Null}
MCWanted  == {Card0, Card1}

Base(devs) == {q \in [type : {"c", "b"}, access : {{"r"}, {"w"}, {"r", "w"}, {"m"}}, dev : MCDevices] :
                 q.access = {"m"} \/ (q.type = "c" /\ q.dev \in devs)}

F(n, devs, hid) == [id |-> n, added |-> {}, base |-> Base(devs), hidden |-> hid]

TwoFilters   == <<F(1, {Null}, FALSE), F(2, {Null}, FALSE)>>
HiddenFilter == <<F(1, {Null}, FALSE), F(2, MCDevices, TRUE)>>
NoFilter     == <<>>

AllFilters == {TwoFilters, HiddenFilter, NoFilter}
=============================================================================
