------------------------- MODULE DeviceCgroupProofs -------------------------
(***************************************************************************)
(* Properties of the device cgroup for any filters, any number of requests *)
(* and of filters replaced by the manager of the cgroup.                   *)
(***************************************************************************)
EXTENDS DeviceCgroup, SequenceTheorems, TLAPS

Ops == {"version", "path", "setup"}
Rewriting == {"find", "load", "detach", "attach"}
Steps == {"idle", "raise", "drop"} \cup Ops \cup Rewriting

(* Filters with the instructions of one of the runtime's. *)
Known == {f \in Filter : \E i \in 1 .. Len(runtime) : f.base = runtime[i].base}

(* The device of a request, if it has one. *)
Targets == Devices \cup {<<>>}

SvcType ==
  [pc : Steps, op : Ops \cup {"none"}, dev : Targets, caps : {"none", "mount", "container"},
   rv : Int, ids : Seq(Known), old : Seq(Known), new : Seq(Known), version : 0 .. 2]

TypeInv ==
  /\ runtime \in Seq(Filter) /\ filters \in Seq(Known) /\ svc \in SvcType
  /\ lastid \in Nat /\ nrep \in Nat
  /\ cnt \in [stage : {"none", "versioned", "ready", "failed"}, version : -1 .. 2]
  /\ client \in [op : Ops \cup {"none"}, ret : Int]

(* Where a request is, in the service and in the library. *)
StageInv ==
  /\ svc.pc # "idle" => svc.op # "none"
  /\ svc.pc \in {"version", "path"} => svc.op = svc.pc
  /\ svc.pc \in Rewriting \cup {"setup"} => svc.op = "setup"
  /\ svc.pc \in Rewriting => cnt.version = 2
  /\ client.op # "none" => client.op = svc.op
  /\ svc.op = "setup" => svc.dev \in Devices
  /\ svc.op = "setup" \/ granted # {} => cnt.stage = "ready"
  /\ cnt.stage = "ready" => cnt.version \in {1, 2} /\ svc.op \in {"none", "setup"}
  /\ client.op = "path" /\ svc.pc = "drop" /\ svc.rv >= 0 => cnt.version \in {1, 2}

(* Version 1: what was granted is in the list. *)
ListInv ==
  cnt.version # 2 =>
    /\ granted \subseteq list
    /\ svc.op = "setup" /\ svc.pc = "drop" /\ svc.rv >= 0 => svc.dev \in list

(* No two attached programs have the same number. *)
NumbersInv ==
  /\ \A i \in 1 .. Len(filters) : filters[i].id <= lastid
  /\ \A i, j \in 1 .. Len(filters) : filters[i].id = filters[j].id => i = j

Accept(fs, D) == \A i \in 1 .. Len(fs) : ~fs[i].hidden => D \subseteq fs[i].added

(* Version 2: attached or in the hands of the service, filters accept what *)
(* was granted.                                                            *)
GrantInv ==
  nrep = 0 /\ cnt.version = 2 =>
    Accept(filters, granted) /\ Accept(svc.ids, granted) /\ Accept(svc.old, granted) /\ Accept(svc.new, granted)

(* The filters attached before the request are found and detached, all     *)
(* that may be read; so that in the end those left accept its device.      *)
RequestInv ==
  /\ svc.pc \in {"raise", "setup", "find"} => svc.new = <<>>
  /\ svc.pc \in Rewriting => Accept(svc.new, {svc.dev})
  /\ nrep = 0 /\ svc.pc = "find" =>
       \A i \in 1 .. Len(filters) : ~filters[i].hidden =>
         \/ \E k \in 1 .. Len(svc.ids) : svc.ids[k] = filters[i]
         \/ \E k \in 1 .. Len(svc.old) : svc.old[k].id = filters[i].id
  /\ nrep = 0 /\ svc.pc \in {"load", "detach"} =>
       \A i \in 1 .. Len(filters) : ~filters[i].hidden =>
         \E k \in 1 .. Len(svc.old) : svc.old[k].id = filters[i].id
  /\ nrep = 0 /\ svc.op = "setup" /\ cnt.version = 2 /\ (svc.pc = "attach" \/ (svc.pc = "drop" /\ svc.rv >= 0)) =>
       Accept(filters, {svc.dev})

Members(fs) == {fs[i] : i \in 1 .. Len(fs)}

(* Blocks are put before a filter only for devices that were asked for. *)
Within(fs, D) == \A f \in Members(fs) : f.added \subseteq D

AddedInv ==
  /\ Within(filters, requested) /\ Within(svc.ids, requested)
  /\ Within(svc.old, requested) /\ Within(svc.new, requested)
  /\ svc.op = "setup" => svc.dev \in requested

(* A number stands for the filter it was read from. *)
Agrees(fs, gs) == \A f \in Members(fs), g \in Members(gs) : f.id = g.id => f = g

Covers(fs, base) == \E f \in Members(fs) : f.base = base

(* As long as nothing failed: no filter is lost. What the service detaches *)
(* is what it has a copy of, and what it may not read is not touched.      *)
CleanFacts ==
  /\ svc.pc \notin Rewriting => svc.old = <<>> /\ svc.new = <<>>
  /\ svc.pc = "attach" => svc.old = <<>>
  /\ svc.pc \in {"detach", "attach"} => Len(filters) + Len(svc.new) = Len(runtime) + Len(svc.old)
  /\ svc.pc \notin {"detach", "attach"} => Len(filters) = Len(runtime)
  /\ \A f \in Members(runtime) :
       /\ f.hidden => f \in Members(filters)
       /\ Covers(filters, f.base) \/ (svc.pc \in {"detach", "attach"} /\ Covers(svc.new, f.base))
  /\ svc.pc \in {"find", "load", "detach"} =>
       Agrees(filters, svc.old) /\ \A f \in Members(svc.old) : ~f.hidden
  /\ svc.pc = "find" => Agrees(filters, svc.ids)
  /\ svc.pc = "load" => \A k \in 1 .. Len(svc.new) : k <= Len(svc.old) /\ svc.new[k].base = svc.old[k].base
  /\ svc.pc = "detach" => \A f \in Members(svc.old) : Covers(svc.new, f.base)

CleanInv == clean => CleanFacts

CgroupInv == TypeInv /\ StageInv /\ ListInv /\ NumbersInv /\ GrantInv /\ RequestInv /\ CapsDroppedOrReported
-----------------------------------------------------------------------------
(* Sequences of filters. *)
Without(s, i) == SubSeq(s, 1, i - 1) \o SubSeq(s, i + 1, Len(s))

(* Taking one filter out of the list leaves the others, and no new one. *)
LEMMA WithoutProperties ==
  ASSUME NEW S, NEW s \in Seq(S), NEW i \in 1 .. Len(s)
  PROVE  /\ Without(s, i) \in Seq(S) /\ Len(Without(s, i)) = Len(s) - 1
         /\ \A j \in 1 .. Len(s) - 1 : Without(s, i)[j] = IF j < i THEN s[j] ELSE s[j + 1]
<1> DEFINE a == SubSeq(s, 1, i - 1)
           b == SubSeq(s, i + 1, Len(s))
<1>1. Len(s) \in Nat /\ \A j \in 1 .. Len(s) : s[j] \in S
  BY Zenon, LenProperties, ElementOfSeq
<1>2. a \in Seq(S) /\ Len(a) = i - 1 /\ \A j \in 1 .. i - 1 : a[j] = s[j]
  <2>1. \A j \in 1 .. i - 1 : s[j] \in S
    BY <1>1
  <2>2. 1 \in Int /\ i - 1 \in Int
    BY <1>1
  <2>3. a \in Seq(S) /\ Len(a) = (IF 1 <= i - 1 THEN i - 1 - 1 + 1 ELSE 0)
        /\ \A j \in 1 .. i - 1 - 1 + 1 : a[j] = s[1 + j - 1]
    BY <2>1, <2>2, SubSeqProperties
  <2> HIDE DEF a
  <2> QED
    BY <1>1, <2>3
<1>3. b \in Seq(S) /\ Len(b) = Len(s) - i /\ \A j \in 1 .. Len(s) - i : b[j] = s[i + j]
  <2>1. \A j \in i + 1 .. Len(s) : s[j] \in S
    BY <1>1
  <2>2. i + 1 \in Int /\ Len(s) \in Int
    BY <1>1
  <2>3. b \in Seq(S) /\ Len(b) = (IF i + 1 <= Len(s) THEN Len(s) - (i + 1) + 1 ELSE 0)
        /\ \A j \in 1 .. Len(s) - (i + 1) + 1 : b[j] = s[i + 1 + j - 1]
    BY <2>1, <2>2, SubSeqProperties
  <2> HIDE DEF b
  <2> QED
    BY <1>1, <2>3
<1>4. Without(s, i) = a \o b
  BY Zenon DEF Without
<1> HIDE DEF a, b
<1>5. a \o b \in Seq(S) /\ Len(a \o b) = Len(a) + Len(b)
      /\ \A j \in 1 .. Len(a) + Len(b) : (a \o b)[j] = IF j <= Len(a) THEN a[j] ELSE b[j - Len(a)]
  BY Zenon, <1>2, <1>3, ConcatProperties
<1> HIDE DEF Without
<1>6. ASSUME NEW j \in 1 .. Len(s) - 1
      PROVE  Without(s, i)[j] = IF j < i THEN s[j] ELSE s[j + 1]
  <2>1. CASE j < i
    BY SMTT(30), <1>1, <1>2, <1>3, <1>4, <1>5, <2>1
  <2>2. CASE ~(j < i)
    <3>1. j - Len(a) \in 1 .. Len(s) - i /\ i + (j - Len(a)) = j + 1
      BY <1>1, <1>2, <2>2
    <3>2. b[j - Len(a)] = s[j + 1]
      BY Zenon, <1>3, <3>1
    <3> QED
      BY <1>1, <1>2, <1>3, <1>4, <1>5, <2>2, <3>2
  <2> QED
    BY Zenon, <2>1, <2>2
<1> QED
  BY <1>1, <1>2, <1>3, <1>4, <1>5, <1>6

(* A filter with the block for the devices may be appended. *)
LEMMA AcceptAppend ==
  ASSUME NEW S, NEW fs \in Seq(S), NEW f \in S, NEW D, Accept(fs, D), ~f.hidden => D \subseteq f.added
  PROVE  Accept(Append(fs, f), D)
<1>1. /\ Len(Append(fs, f)) = Len(fs) + 1 /\ Append(fs, f)[Len(fs) + 1] = f
      /\ \A i \in 1 .. Len(fs) : Append(fs, f)[i] = fs[i]
  BY AppendProperties
<1>2. Len(fs) \in Nat
  BY Zenon, LenProperties
<1> QED
  BY <1>1, <1>2 DEF Accept

(* The filters after the first accept what all of them accept. *)
LEMMA AcceptTail ==
  ASSUME NEW S, NEW fs \in Seq(S), fs # <<>>, NEW D, Accept(fs, D)
  PROVE  Accept(Tail(fs), D)
<1>1. Len(Tail(fs)) = Len(fs) - 1 /\ \A i \in 1 .. Len(Tail(fs)) : Tail(fs)[i] = fs[i + 1]
  BY Zenon, HeadTailProperties
<1>2. Len(fs) \in Nat
  BY Zenon, LenProperties
<1> QED
  BY <1>1, <1>2 DEF Accept

(* So do the filters that are left when one is detached. *)
LEMMA AcceptRemoved ==
  ASSUME NEW S, NEW fs \in Seq(S), NEW i \in 1 .. Len(fs), NEW D, Accept(fs, D)
  PROVE  Accept(Without(fs, i), D)
<1>1. Len(fs) \in Nat
  BY Zenon, LenProperties
<1>2. Len(Without(fs, i)) = Len(fs) - 1
      /\ \A j \in 1 .. Len(fs) - 1 : Without(fs, i)[j] = IF j < i THEN fs[j] ELSE fs[j + 1]
  BY Zenon, WithoutProperties
<1> QED
  BY <1>1, <1>2 DEF Accept

(* The first filter has the block, if it may be read. *)
LEMMA AcceptHead ==
  ASSUME NEW S, NEW fs \in Seq(S), fs # <<>>, NEW D, Accept(fs, D)
  PROVE  ~Head(fs).hidden => D \subseteq Head(fs).added
<1>1. Len(fs) \in Nat \ {0} /\ Head(fs) = fs[1]
  BY EmptySeq, LenProperties
<1> QED
  BY <1>1 DEF Accept
-----------------------------------------------------------------------------
(* What each step does to the request in the service. *)
SameFilters == svc'.ids = svc.ids /\ svc'.old = svc.old /\ svc'.new = svc.new
SameRequest == svc'.op = svc.op /\ svc'.dev = svc.dev
Frame == UNCHANGED <<runtime, filters, lastid, list, cnt, client, nrep, granted>>
Refused ==
  /\ svc' \in SvcType /\ svc'.pc = "drop" /\ (svc'.rv < 0 \/ svc.op = "version")
  /\ SameFilters /\ SameRequest
Failed ==
  /\ svc' \in SvcType /\ svc'.pc = "drop" /\ (svc'.rv < 0 \/ svc.op = "version")
  /\ SameFilters /\ SameRequest /\ clean' = FALSE
Ended == svc' \in SvcType /\ svc'.pc = "drop" /\ SameFilters /\ SameRequest

(* A request that fails goes on to drop the capabilities, unclean. *)
LEMMA FailEffect ==
  ASSUME TypeInv, NEW r \in Int, Fail(r), r < 0 \/ svc.op = "version"
  PROVE  Failed
  BY Zenon DEF TypeInv, SvcType, Fail, Failed, SameFilters, SameRequest, Steps

Ends(r) == svc' = [svc EXCEPT !.pc = "drop", !.rv = r]
EndsWith(r, v) == svc' = [svc EXCEPT !.pc = "drop", !.rv = r, !.version = v]

(* A request that ends well goes on to drop the capabilities. *)
LEMMA EndEffect ==
  ASSUME TypeInv, NEW r \in Int, NEW v \in 0 .. 2, Ends(r) \/ EndsWith(r, v)
  PROVE  Ended
  BY Zenon DEF Ends, EndsWith, TypeInv, SvcType, Ended, SameFilters, SameRequest, Steps

(* The capabilities of the request are raised, or it fails. *)
LEMMA RaiseCapsEffect ==
  ASSUME TypeInv, StageInv, RaiseCaps
  PROVE  /\ svc.pc = "raise" /\ Frame
         /\ \/ Failed
            \/ svc' \in SvcType /\ svc'.pc = svc.op /\ SameFilters /\ SameRequest
<1>1. CASE Fail(-1)
  BY <1>1, FailEffect DEF RaiseCaps, At, Frame
<1>2. CASE ~Fail(-1)
  BY ZenonT(30), <1>2 DEF TypeInv, StageInv, SvcType, RaiseCaps, At, Frame, SameFilters, SameRequest, Steps, Ops
<1> QED
  BY Zenon, <1>1, <1>2

(* GetDeviceCGroupVersion changes nothing but its answer. *)
LEMMA GetVersionEffect ==
  ASSUME TypeInv, StageInv, GetVersion
  PROVE  svc.pc = "version" /\ Frame /\ Ended
<1>1. svc.op = "version"
  BY Zenon DEF GetVersion, At, StageInv
<1>2. CASE Fail(1)
  <2>1. Failed
    BY <1>1, <1>2, FailEffect
  <2> QED
    BY Zenon, <2>1 DEF GetVersion, At, Frame, Failed, Ended
<1>3. CASE ~Fail(1)
  <2>1. PICK v \in 0 .. 2 : EndsWith(0, v)
    <3>1. (IF "devices" \in entries THEN 1 ELSE 2) \in 0 .. 2
      OBVIOUS
    <3> QED
      BY Zenon, <1>3, <3>1 DEF GetVersion, EndsWith
  <2>2. Ended
    BY <2>1, EndEffect
  <2> QED
    BY Zenon, <2>2 DEF GetVersion, At, Frame
<1> QED
  BY Zenon, <1>2, <1>3

(* FindPath answers only for a version that New knows. *)
LEMMA FindPathEffect ==
  ASSUME TypeInv, FindPath
  PROVE  svc.pc = "path" /\ Frame /\ (Failed \/ (Ended /\ cnt.version \in {1, 2}))
<1>1. CASE Fail(-1)
  BY <1>1, FailEffect DEF FindPath, At, Frame
<1>2. CASE ~Fail(-1)
  <2>1. Ends(0) /\ cnt.version \in {1, 2}
    BY Zenon, <1>2 DEF FindPath, New, Ends
  <2>2. Ended
    BY <2>1, EndEffect
  <2> QED
    BY Zenon, <2>1, <2>2 DEF FindPath, At, Frame
<1> QED
  BY Zenon, <1>1, <1>2

(* In version 1 the device is in the list if the request ends well. *)
LEMMA RulesV1Effect ==
  ASSUME TypeInv, AddDeviceRulesV1
  PROVE  /\ svc.pc = "setup" /\ cnt.version # 2 /\ UNCHANGED <<runtime, filters, lastid, cnt, client, nrep, granted>>
         /\ \/ Failed /\ list' = list
            \/ Ended /\ list' = list \cup {svc.dev}
<1>1. CASE Fail(-1) /\ list' = list
  BY <1>1, FailEffect DEF AddDeviceRulesV1, At
<1>2. CASE ~(Fail(-1) /\ list' = list)
  <2>1. Ends(0) /\ list' = list \cup {svc.dev}
    BY Zenon, <1>2 DEF AddDeviceRulesV1, Ends
  <2>2. Ended
    BY <2>1, EndEffect
  <2> QED
    BY Zenon, <2>1, <2>2 DEF AddDeviceRulesV1, At
<1> QED
  BY Zenon, <1>1, <1>2

(* FindAttachedCgroupDeviceFilters takes down the numbers attached. *)
LEMMA FindEffect ==
  ASSUME TypeInv, FindAttachedCgroupDeviceFilters
  PROVE  /\ svc.pc = "setup" /\ cnt.version = 2 /\ Frame
         /\ \/ Failed
            \/ /\ svc' \in SvcType /\ svc'.pc = "find" /\ SameRequest
               /\ svc'.ids = filters /\ svc'.old = svc.old /\ svc'.new = svc.new
<1>1. CASE Fail(-1)
  BY <1>1, FailEffect DEF FindAttachedCgroupDeviceFilters, At, Frame
<1>2. CASE ~Fail(-1)
  BY Zenon, <1>2 DEF TypeInv, SvcType, FindAttachedCgroupDeviceFilters, At, Frame, SameRequest, Steps, Rewriting
<1> QED
  BY Zenon, <1>1, <1>2

(* A number becomes a filter that is still attached, or is hidden. *)
LEMMA ProgramEffect ==
  ASSUME TypeInv, NewProgramFromID
  PROVE  /\ svc.pc = "find" /\ Frame
         /\ \/ Failed
            \/ svc.ids = <<>> /\ svc' \in SvcType /\ svc'.pc = "load" /\ SameRequest /\ SameFilters
            \/ /\ svc.ids # <<>> /\ svc' \in SvcType /\ svc'.pc = "find" /\ SameRequest
               /\ svc'.ids = Tail(svc.ids) /\ svc'.new = svc.new
               /\ svc'.old = IF Head(svc.ids).hidden THEN svc.old ELSE Append(svc.old, Head(svc.ids))
<1>1. CASE Fail(-1)
  BY <1>1, FailEffect DEF NewProgramFromID, At, Frame
<1>2. CASE svc.ids = <<>> /\ Goto("load")
  BY Zenon, <1>2 DEF TypeInv, SvcType, NewProgramFromID, At, Goto, Frame, SameFilters, SameRequest, Steps, Rewriting
<1>3. CASE svc.ids # <<>> /\ ~Fail(-1)
  <2>1. svc.ids \in Seq(Known) /\ svc.old \in Seq(Known)
    BY Zenon DEF TypeInv, SvcType
  <2>2. Head(svc.ids) \in Known /\ Tail(svc.ids) \in Seq(Known)
    BY Zenon, <1>3, <2>1, HeadTailProperties
  <2>3. Append(svc.old, Head(svc.ids)) \in Seq(Known)
    BY Zenon, <2>1, <2>2, AppendProperties
  <2> DEFINE old == IF Head(svc.ids).hidden THEN svc.old ELSE Append(svc.old, Head(svc.ids))
  <2>4. old \in Seq(Known)
    BY Zenon, <2>1, <2>3
  <2>5. svc' = [svc EXCEPT !.ids = Tail(svc.ids), !.old = old]
    BY Zenon, <1>3 DEF NewProgramFromID
  <2> HIDE DEF old
  <2>6. svc' \in SvcType /\ svc'.pc = svc.pc /\ SameRequest /\ svc'.ids = Tail(svc.ids) /\ svc'.new = svc.new /\ svc'.old = old
    BY Zenon, <2>2, <2>4, <2>5 DEF TypeInv, SvcType, SameRequest
  <2> QED
    BY Zenon, <1>3, <2>6 DEF NewProgramFromID, At, Frame, old
<1>4. Fail(-1) \/ (svc.ids = <<>> /\ Goto("load")) \/ (svc.ids # <<>> /\ ~Fail(-1))
  BY Zenon DEF NewProgramFromID
<1> QED
  BY Zenon, <1>1, <1>2, <1>3, <1>4

(* A new filter is the old one at its place with the devices added. *)
LEMMA GenerateEffect ==
  ASSUME TypeInv, StageInv, generateNewProgram
  PROVE  /\ svc.pc = "load" /\ Frame
         /\ \/ Failed
            \/ /\ Len(svc.new) < Len(svc.old) /\ svc' \in SvcType /\ svc'.pc = "load" /\ SameRequest
               /\ svc'.ids = svc.ids /\ svc'.old = svc.old
               /\ \E f \in Known, i \in 1 .. Len(svc.old) :
                    /\ i = Len(svc.new) + 1 /\ f.base = svc.old[i].base
                    /\ svc'.new = Append(svc.new, f) /\ f.hidden = svc.old[i].hidden
                    /\ f.added = svc.old[i].added \cup {svc.dev}
<1>1. CASE Fail(-1)
  <2>1. Failed
    BY <1>1, FailEffect
  <2> QED
    BY <2>1, Zenon DEF generateNewProgram, At, Frame
<1>2. CASE ~Fail(-1)
  <2> DEFINE i == Len(svc.new) + 1
             f == [svc.old[i] EXCEPT !.added = @ \cup {svc.dev}]
  <2>1. svc.new \in Seq(Known) /\ svc.old \in Seq(Known)
    BY Zenon DEF TypeInv, SvcType
  <2>2. Len(svc.new) \in Nat /\ Len(svc.old) \in Nat /\ Len(svc.new) < Len(svc.old)
    <3>1. Len(svc.new) \in Nat /\ Len(svc.old) \in Nat
      BY Zenon, <2>1, LenProperties
    <3> QED
      BY <1>2, <3>1, Zenon DEF generateNewProgram
  <2>3. i \in 1 .. Len(svc.old)
    BY <2>2
  <2>4. svc.old[i] \in Known
    BY Zenon, <2>1, <2>3, ElementOfSeq
  <2>5. svc.dev \in Devices
    BY Zenon DEF generateNewProgram, At, StageInv, Rewriting
  <2>6. svc' = [svc EXCEPT !.new = Append(svc.new, f)]
    BY Zenon, <1>2 DEF generateNewProgram
  <2>7. /\ f \in Known /\ f.hidden = svc.old[i].hidden /\ f.added = svc.old[i].added \cup {svc.dev}
        /\ f.base = svc.old[i].base /\ i = Len(svc.new) + 1
    BY Zenon, <2>4, <2>5 DEF Known, Filter
  <2> HIDE DEF f, i
  <2>8. Append(svc.new, f) \in Seq(Known)
    BY Zenon, <2>1, <2>7, AppendProperties
  <2>9. svc' \in SvcType /\ svc'.pc = svc.pc /\ SameRequest /\ svc'.ids = svc.ids /\ svc'.old = svc.old
        /\ svc'.new = Append(svc.new, f)
    BY Zenon, <2>6, <2>8 DEF TypeInv, SvcType, SameRequest
  <2> QED
    BY Zenon, <2>2, <2>3, <2>7, <2>9 DEF generateNewProgram, At, Frame
<1> QED
  BY Zenon, <1>1, <1>2

(* Once the limit is raised, detaching may begin. *)
LEMMA MemlockEffect ==
  ASSUME TypeInv, RaiseMemlock
  PROVE  svc.pc = "load" /\ Frame /\ svc' \in SvcType /\ svc'.pc = "detach" /\ SameFilters /\ SameRequest
<1>1. svc' \in SvcType /\ svc'.pc = "detach" /\ SameFilters /\ SameRequest
  BY Zenon DEF TypeInv, SvcType, RaiseMemlock, Goto, SameFilters, SameRequest, Steps, Rewriting
<1>2. svc.pc = "load" /\ Frame
  BY Zenon DEF RaiseMemlock, At, Frame
<1> QED
  BY Zenon, <1>1, <1>2

(* One old filter is detached, by its number. *)
LEMMA DetachEffect ==
  ASSUME TypeInv, DetachCgroupDeviceFilter
  PROVE  /\ svc.pc = "detach" /\ UNCHANGED <<runtime, lastid, list, cnt, client, nrep, granted>>
         /\ \/ Failed /\ filters' = filters
            \/ /\ svc.old = <<>> /\ svc' \in SvcType /\ svc'.pc = "attach" /\ SameRequest /\ SameFilters
               /\ filters' = filters
            \/ /\ svc.old # <<>> /\ svc' \in SvcType /\ svc'.pc = "detach" /\ SameRequest
               /\ svc'.ids = svc.ids /\ svc'.old = Tail(svc.old) /\ svc'.new = svc.new
               /\ \E i \in 1 .. Len(filters) :
                    filters[i].id = Head(svc.old).id /\ filters' = Without(filters, i)
<1>0. svc.pc = "detach" /\ UNCHANGED <<runtime, lastid, list, cnt, client, nrep, granted>>
  BY Zenon DEF DetachCgroupDeviceFilter, At
<1>1. CASE Fail(-1) /\ filters' = filters
  BY <1>0, <1>1, FailEffect
<1>2. CASE svc.old = <<>> /\ Goto("attach") /\ filters' = filters
  <2>1. svc' \in SvcType /\ svc'.pc = "attach" /\ SameRequest /\ SameFilters
    BY Zenon, <1>2 DEF TypeInv, SvcType, Goto, SameFilters, SameRequest, Steps, Rewriting
  <2> QED
    BY Zenon, <1>0, <1>2, <2>1
<1>3. CASE /\ svc.old # <<>> /\ svc' = [svc EXCEPT !.old = Tail(svc.old)]
           /\ \E i \in 1 .. Len(filters) :
                filters[i].id = Head(svc.old).id /\ filters' = Without(filters, i)
  <2>1. svc.old \in Seq(Known)
    BY Zenon DEF TypeInv, SvcType
  <2>2. Tail(svc.old) \in Seq(Known)
    BY Zenon, <1>3, <2>1, HeadTailProperties
  <2>3. svc' \in SvcType /\ svc'.pc = svc.pc /\ SameRequest
        /\ svc'.ids = svc.ids /\ svc'.old = Tail(svc.old) /\ svc'.new = svc.new
    BY Zenon, <1>3, <2>2 DEF TypeInv, SvcType, SameRequest
  <2> QED
    BY Zenon, <1>0, <1>3, <2>3
<1> QED
  BY <1>1, <1>2, <1>3, Zenon DEF DetachCgroupDeviceFilter, Without

(* One new filter is attached, under a number of its own. *)
LEMMA AttachEffect ==
  ASSUME TypeInv, AttachCgroupDeviceFilter
  PROVE  /\ svc.pc = "attach" /\ UNCHANGED <<runtime, list, cnt, client, nrep, granted>>
         /\ \/ Failed /\ UNCHANGED <<filters, lastid>>
            \/ svc.new = <<>> /\ Ended /\ UNCHANGED <<filters, lastid>>
            \/ /\ svc.new # <<>> /\ svc' \in SvcType /\ svc'.pc = "attach" /\ SameRequest
               /\ svc'.ids = svc.ids /\ svc'.old = svc.old /\ svc'.new = Tail(svc.new)
               /\ filters' = Append(filters, [Head(svc.new) EXCEPT !.id = NewId]) /\ lastid' = NewId
<1>0. svc.pc = "attach" /\ UNCHANGED <<runtime, list, cnt, client, nrep, granted>>
  BY Zenon DEF AttachCgroupDeviceFilter, At
<1>1. CASE Fail(-1) /\ UNCHANGED <<filters, lastid>>
  BY <1>0, <1>1, FailEffect
<1>2. CASE svc.new = <<>> /\ Ends(0) /\ UNCHANGED <<filters, lastid>>
  BY <1>0, <1>2, EndEffect
<1>3. CASE /\ svc.new # <<>> /\ svc' = [svc EXCEPT !.new = Tail(svc.new)]
           /\ filters' = Append(filters, [Head(svc.new) EXCEPT !.id = NewId]) /\ lastid' = NewId
  <2>1. svc.new \in Seq(Known)
    BY Zenon DEF TypeInv, SvcType
  <2>2. Tail(svc.new) \in Seq(Known)
    BY Zenon, <1>3, <2>1, HeadTailProperties
  <2>3. svc' \in SvcType /\ svc'.pc = svc.pc /\ SameRequest
        /\ svc'.ids = svc.ids /\ svc'.old = svc.old /\ svc'.new = Tail(svc.new)
    BY Zenon, <1>3, <2>2 DEF TypeInv, SvcType, SameRequest
  <2> QED
    BY Zenon, <1>0, <1>3, <2>3
<1> QED
  BY <1>1, <1>2, <1>3, Zenon DEF AttachCgroupDeviceFilter, Ends

(* The library got an answer, or none was awaited. *)
Answered ==
  /\ client' \in [op : {"none"}, ret : Int]
  /\ cnt' \in [stage : {"none", "versioned", "ready", "failed"}, version : -1 .. 2]
  /\ \/ client.op = "version" /\ cnt'.stage \in {"versioned", "failed"} /\ granted' = granted
     \/ /\ client.op = "path" /\ cnt'.version = cnt.version /\ granted' = granted
        /\ cnt'.stage \in {"ready", "failed"}
        /\ cnt'.stage = "ready" => svc.rv >= 0 /\ svc.pc = "drop"
     \/ client.op = "setup" /\ cnt' = cnt /\ granted' = granted
     \/ client.op = "setup" /\ cnt' = cnt /\ granted' = granted \cup {svc.dev} /\ svc.rv >= 0 /\ svc.pc = "drop"

(* The client takes the answer of a request that ended. *)
LEMMA ReceivesEffect ==
  ASSUME TypeInv, NEW r \in -1 .. 2, Receives(r), client.op # "none",
         r >= 0 => svc.rv >= 0 /\ svc.pc = "drop"
  PROVE  Answered
<1>0. client.op \in Ops /\ client' \in [op : {"none"}, ret : Int]
  BY DEF TypeInv, Receives
<1>1. CASE client.op = "version"
  BY Zenon, <1>0, <1>1 DEF TypeInv, Receives, Answered
<1>2. CASE client.op = "path"
  BY <1>0, <1>2 DEF TypeInv, Receives, Answered
<1>3. CASE client.op = "setup"
  BY <1>0, <1>3 DEF TypeInv, Receives, Answered
<1> QED
  BY Zenon, <1>0, <1>1, <1>2, <1>3 DEF Ops

Emptied ==
  /\ svc' \in SvcType /\ svc'.pc = "idle" /\ svc'.op = "none"
  /\ svc'.ids = <<>> /\ svc'.old = <<>> /\ svc'.new = <<>>

(* A reply ends the request; a library that gave up takes none. *)
LEMMA ReplyEffect ==
  ASSUME TypeInv, svc.pc = "drop", NEW rv \in Int, NEW caps \in {"none", "mount", "container"}, Reply(rv, caps),
         rv = svc.rv \/ rv = -1
  PROVE  /\ Emptied /\ svc'.caps = caps /\ svc'.rv = rv
         /\ \/ client.op = "none" /\ UNCHANGED <<client, cnt, granted>>
            \/ client.op # "none" /\ Answered
<1>1. <<>> \in Seq(Known)
  BY Zenon, EmptySeq
<1>2. Emptied /\ svc'.caps = caps /\ svc'.rv = rv
  <2> DEFINE e == <<>>
  <2>1. e \in Seq(Known) /\ e \in Targets
    BY Zenon, <1>1 DEF Targets
  <2>2. svc' = [pc |-> "idle", op |-> "none", dev |-> e, caps |-> caps, rv |-> rv,
                ids |-> e, old |-> e, new |-> e, version |-> 0]
    BY Zenon DEF Reply, Free
  <2>3. "idle" \in Steps
    BY Zenon DEF Steps
  <2> HIDE DEF e
  <2>4. svc' \in SvcType /\ svc'.pc = "idle" /\ svc'.op = "none" /\ svc'.caps = caps /\ svc'.rv = rv
        /\ svc'.ids = e /\ svc'.old = e /\ svc'.new = e
    BY <2>1, <2>2, <2>3 DEF SvcType
  <2> QED
    BY Zenon, <2>4 DEF e, Emptied
<1>3. CASE client.op = "none"
  BY <1>2, <1>3, Zenon DEF Reply
<1>4. CASE client.op # "none"
  <2> DEFINE r == IF rv < 0 THEN -1 ELSE IF svc.op = "version" THEN svc.version ELSE 0
  <2>1. svc.version \in 0 .. 2 /\ svc.rv \in Int
    BY Zenon DEF TypeInv, SvcType
  <2>2. r \in -1 .. 2 /\ (r >= 0 => svc.rv >= 0)
    BY <2>1
  <2>3. Receives(r)
    BY <1>4, Zenon DEF Reply
  <2> HIDE DEF r
  <2> QED
    BY Zenon, <1>2, <1>4, <2>2, <2>3, ReceivesEffect
<1> QED
  BY Zenon, <1>3, <1>4

(* The capabilities are dropped and the request is over. *)
LEMMA DropEffect ==
  ASSUME TypeInv, DropCaps
  PROVE  /\ svc.pc = "drop" /\ UNCHANGED <<runtime, filters, lastid, list, nrep>>
         /\ Emptied /\ (svc'.caps = "none" \/ svc'.rv < 0)
         /\ \/ client.op = "none" /\ UNCHANGED <<client, cnt, granted>>
            \/ client.op # "none" /\ Answered
<1>1. svc.pc = "drop" /\ UNCHANGED <<runtime, filters, lastid, list, nrep>>
  BY Zenon DEF DropCaps, At
<1>2. svc.rv \in Int /\ svc.caps \in {"none", "mount", "container"}
  BY Zenon DEF TypeInv, SvcType
<1>3. CASE Reply(svc.rv, "none")
  BY Zenon, <1>1, <1>2, <1>3, ReplyEffect
<1>4. CASE Reply(-1, svc.caps)
  BY <1>1, <1>2, <1>4, ReplyEffect
<1> QED
  BY <1>3, <1>4, Zenon DEF DropCaps

(* A call of the client starts a request with nothing collected. *)
LEMMA CallEffect ==
  ASSUME TypeInv, NEW op \in Ops, NEW d \in Targets, Call(op, d)
  PROVE  /\ client.op = "none" /\ svc.pc = "idle" /\ UNCHANGED <<runtime, filters, lastid, list, cnt, nrep, granted>>
         /\ client' \in [op : {op}, ret : Int]
         /\ svc' \in SvcType /\ svc'.pc = "raise" /\ svc'.op = op /\ svc'.dev = d
         /\ svc'.ids = <<>> /\ svc'.old = <<>> /\ svc'.new = <<>>
<1>1. client.op = "none" /\ svc.pc = "idle" /\ UNCHANGED <<runtime, filters, lastid, list, cnt, nrep, granted>>
  BY Zenon DEF Call, At
<1>2. <<>> \in Seq(Known)
  BY Zenon, EmptySeq
<1>3. svc.caps \in {"none", "mount", "container"}
  BY Zenon DEF TypeInv, SvcType
<1>4. /\ svc' \in SvcType /\ svc'.pc = "raise" /\ svc'.op = op /\ svc'.dev = d
      /\ svc'.ids = <<>> /\ svc'.old = <<>> /\ svc'.new = <<>>
  <2> DEFINE e == <<>>
  <2>1. e \in Seq(Known)
    BY Zenon, <1>2
  <2>2. svc' = [pc |-> "raise", op |-> op, dev |-> d, caps |-> svc.caps, rv |-> -1,
                ids |-> e, old |-> e, new |-> e, version |-> 0]
    BY Zenon DEF Call, Free
  <2>3. "raise" \in Steps
    BY Zenon DEF Steps
  <2> HIDE DEF e
  <2>4. svc' \in SvcType /\ svc'.pc = "raise" /\ svc'.op = op /\ svc'.dev = d
        /\ svc'.ids = e /\ svc'.old = e /\ svc'.new = e
    BY <1>3, <2>1, <2>2, <2>3 DEF SvcType
  <2> QED
    BY Zenon, <2>4 DEF e
<1>5. client' \in [op : {op}, ret : Int]
  BY DEF Call
<1> QED
  BY Zenon, <1>1, <1>4, <1>5
-----------------------------------------------------------------------------
(* The invariant. *)
LEMMA TypeStep ==
  ASSUME TypeInv, runtime' = runtime, filters' \in Seq(Known), svc' \in SvcType, lastid' \in Nat, nrep' \in Nat,
         cnt' \in [stage : {"none", "versioned", "ready", "failed"}, version : -1 .. 2],
         client' \in [op : Ops \cup {"none"}, ret : Int]
  PROVE  TypeInv'
<1>1. Known' = Known
  BY Zenon DEF Known
<1>2. SvcType' = SvcType
  BY Zenon, <1>1 DEF SvcType, Targets
<1> QED
  BY Zenon, <1>1, <1>2 DEF TypeInv

(* A step of the service alone keeps the types. *)
LEMMA SvcTypeStep ==
  ASSUME TypeInv, Frame, svc' \in SvcType
  PROVE  TypeInv'
  BY Zenon, TypeStep DEF TypeInv, Frame

(* A request that failed, or one for the version. *)
LEMMA RefusedStep ==
  ASSUME CgroupInv, svc.pc # "idle", Refused,
         UNCHANGED <<runtime, filters, lastid, cnt, client, nrep, granted>>, list' = list
  PROVE  CgroupInv'
<1> USE DEF CgroupInv
<1>1. TypeInv'
  <2>1. Frame
    BY Zenon DEF Frame
  <2> QED
    BY Zenon, <2>1, SvcTypeStep DEF Refused
<1>2. StageInv'
  BY SMTT(30) DEF StageInv, Refused, SameRequest, TypeInv, SvcType, Rewriting
<1>3. ListInv'
  BY DEF ListInv, Refused, SameRequest, TypeInv, SvcType
<1>4. NumbersInv'
  BY Zenon DEF NumbersInv
<1>5. GrantInv'
  BY Zenon DEF GrantInv, Refused, SameFilters
<1>6. RequestInv'
  BY DEF RequestInv, Refused, SameRequest, TypeInv, SvcType, Rewriting
<1>7. CapsDroppedOrReported'
  BY Zenon DEF CapsDroppedOrReported, Refused, At
<1> QED
  BY Zenon, <1>1, <1>2, <1>3, <1>4, <1>5, <1>6, <1>7

(* A request that failed. *)
LEMMA FailedStep ==
  ASSUME CgroupInv, svc.pc # "idle", Failed,
         UNCHANGED <<runtime, filters, lastid, cnt, client, nrep, granted>>, list' = list
  PROVE  CgroupInv'
  BY Zenon, RefusedStep DEF Failed, Refused

(* RaiseCaps keeps the invariant. *)
LEMMA RaiseCapsStep ==
  ASSUME CgroupInv, RaiseCaps
  PROVE  CgroupInv'
<1> USE DEF CgroupInv
<1>0. /\ svc.pc = "raise" /\ Frame
      /\ Failed \/ (svc' \in SvcType /\ svc'.pc = svc.op /\ SameFilters /\ SameRequest)
  BY Zenon, RaiseCapsEffect
<1>a. CASE Failed
  BY Zenon, <1>0, <1>a, FailedStep DEF Frame
<1>b. CASE svc' \in SvcType /\ svc'.pc = svc.op /\ SameFilters /\ SameRequest
  <2>0. svc.op \in Ops
    BY Zenon, <1>0 DEF TypeInv, SvcType, StageInv
  <2>1. TypeInv'
    BY Zenon, <1>0, <1>b, SvcTypeStep
  <2>2. StageInv'
    BY Zenon, <1>0, <1>b, <2>0 DEF StageInv, Frame, SameRequest, Rewriting, Ops
  <2>3. ListInv'
    BY Zenon, <1>0, <1>b, <2>0 DEF ListInv, Frame, Ops
  <2>4. NumbersInv'
    BY Zenon, <1>0 DEF NumbersInv, Frame
  <2>5. GrantInv'
    BY Zenon, <1>0, <1>b DEF GrantInv, SameFilters, Frame
  <2>6. RequestInv'
    BY Zenon, <1>0, <1>b, <2>0 DEF RequestInv, SameFilters, Frame, Rewriting, Ops
  <2>7. CapsDroppedOrReported'
    BY Zenon, <1>b, <2>0 DEF CapsDroppedOrReported, At, Ops
  <2> QED
    BY Zenon, <2>1, <2>2, <2>3, <2>4, <2>5, <2>6, <2>7
<1> QED
  BY Zenon, <1>0, <1>a, <1>b

(* GetVersion keeps the invariant. *)
LEMMA GetVersionStep ==
  ASSUME CgroupInv, GetVersion
  PROVE  CgroupInv'
<1>1. svc.pc = "version" /\ Frame /\ Ended
  BY Zenon, GetVersionEffect DEF CgroupInv
<1>2. Refused
  BY Zenon, <1>1 DEF CgroupInv, StageInv, Refused, Ended
<1> QED
  BY Zenon, <1>1, <1>2, RefusedStep DEF Frame

(* FindPath keeps the invariant. *)
LEMMA FindPathStep ==
  ASSUME CgroupInv, FindPath
  PROVE  CgroupInv'
<1> USE DEF CgroupInv
<1>0. svc.pc = "path" /\ Frame /\ (Failed \/ (Ended /\ cnt.version \in {1, 2}))
  BY Zenon, FindPathEffect
<1>a. CASE Failed
  BY Zenon, <1>0, <1>a, FailedStep DEF Frame
<1>b. CASE Ended /\ cnt.version \in {1, 2}
  <2>0. svc.op = "path"
    BY Zenon, <1>0 DEF StageInv
  <2>1. TypeInv'
    BY Zenon, <1>0, <1>b, SvcTypeStep DEF Ended
  <2>2. StageInv'
    BY Zenon, <1>0, <1>b, <2>0 DEF StageInv, Frame, Ended, SameRequest, Rewriting
  <2>3. ListInv'
    BY Zenon, <1>0, <1>b, <2>0 DEF ListInv, Frame, Ended, SameRequest
  <2>4. NumbersInv'
    BY Zenon, <1>0 DEF NumbersInv, Frame
  <2>5. GrantInv'
    BY Zenon, <1>0, <1>b DEF GrantInv, SameFilters, Frame, Ended
  <2>6. RequestInv'
    BY Zenon, <1>0, <1>b, <2>0 DEF RequestInv, Frame, Ended, SameRequest, Rewriting
  <2>7. CapsDroppedOrReported'
    BY Zenon, <1>b DEF CapsDroppedOrReported, At, Ended
  <2> QED
    BY <2>1, <2>2, <2>3, <2>4, <2>5, <2>6, <2>7
<1> QED
  BY Zenon, <1>0, <1>a, <1>b

(* AddDeviceRulesV1 keeps the invariant. *)
LEMMA RulesV1Step ==
  ASSUME CgroupInv, AddDeviceRulesV1
  PROVE  CgroupInv'
<1> USE DEF CgroupInv
<1>0. /\ svc.pc = "setup" /\ cnt.version # 2 /\ UNCHANGED <<runtime, filters, lastid, cnt, client, nrep, granted>>
      /\ (Failed /\ list' = list) \/ (Ended /\ list' = list \cup {svc.dev})
  BY Zenon, RulesV1Effect
<1>a. CASE Failed /\ list' = list
  BY Zenon, <1>0, <1>a, FailedStep
<1>b. CASE Ended /\ list' = list \cup {svc.dev}
  <2>0. svc.op = "setup"
    BY Zenon, <1>0 DEF StageInv
  <2>1. TypeInv'
    BY Zenon, <1>0, <1>b, TypeStep DEF Ended, TypeInv
  <2>2. StageInv'
    BY Zenon, <1>0, <1>b, <2>0 DEF StageInv, Ended, SameRequest, Rewriting
  <2>3. ListInv'
    BY Zenon, <1>0, <1>b, <2>0 DEF ListInv, Ended, SameRequest
  <2>4. NumbersInv'
    BY Zenon, <1>0 DEF NumbersInv
  <2>5. GrantInv'
    BY Zenon, <1>0, <1>b DEF GrantInv
  <2>6. RequestInv'
    BY Zenon, <1>0, <1>b, <2>0 DEF RequestInv, Ended, SameRequest, Rewriting
  <2>7. CapsDroppedOrReported'
    BY Zenon, <1>b DEF CapsDroppedOrReported, At, Ended
  <2> QED
    BY <2>1, <2>2, <2>3, <2>4, <2>5, <2>6, <2>7
<1> QED
  BY Zenon, <1>0, <1>a, <1>b

(* FindAttachedCgroupDeviceFilters keeps the invariant. *)
LEMMA FindStep ==
  ASSUME CgroupInv, FindAttachedCgroupDeviceFilters
  PROVE  CgroupInv'
<1> USE DEF CgroupInv
<1>0. /\ svc.pc = "setup" /\ cnt.version = 2 /\ Frame
      /\ \/ Failed
         \/ /\ svc' \in SvcType /\ svc'.pc = "find" /\ SameRequest
            /\ svc'.ids = filters /\ svc'.old = svc.old /\ svc'.new = svc.new
  BY Zenon, FindEffect
<1>a. CASE Failed
  BY Zenon, <1>0, <1>a, FailedStep DEF Frame
<1>b. CASE /\ svc' \in SvcType /\ svc'.pc = "find" /\ SameRequest
           /\ svc'.ids = filters /\ svc'.old = svc.old /\ svc'.new = svc.new
  <2>0. svc.op = "setup" /\ svc.new = <<>>
    BY Zenon, <1>0 DEF StageInv, RequestInv
  <2>1. TypeInv'
    BY Zenon, <1>0, <1>b, SvcTypeStep
  <2>2. StageInv'
    BY Zenon, <1>0, <1>b, <2>0 DEF StageInv, Frame, SameRequest, Rewriting
  <2>3. ListInv'
    BY Zenon, <1>0, <1>b DEF ListInv, Frame
  <2>4. NumbersInv'
    BY Zenon, <1>0 DEF NumbersInv, Frame
  <2>5. GrantInv'
    BY Zenon, <1>0, <1>b DEF GrantInv, Frame
  <2>6. RequestInv'
    <3>1. Accept(<<>>, {svc.dev})
      BY EmptySeq DEF Accept
    <3> QED
      BY Zenon, <1>0, <1>b, <2>0, <3>1 DEF RequestInv, Frame, SameRequest, Rewriting
  <2>7. CapsDroppedOrReported'
    BY Zenon, <1>b DEF CapsDroppedOrReported, At
  <2> QED
    BY <2>1, <2>2, <2>3, <2>4, <2>5, <2>6, <2>7
<1> QED
  BY Zenon, <1>0, <1>a, <1>b

(* Loading the program of a number keeps the invariant. *)
LEMMA ProgramStep ==
  ASSUME CgroupInv, NewProgramFromID
  PROVE  CgroupInv'
<1> USE DEF CgroupInv
<1> DEFINE Found == svc.ids = <<>> /\ svc' \in SvcType /\ svc'.pc = "load" /\ SameRequest /\ SameFilters
           Next1 == /\ svc.ids # <<>> /\ svc' \in SvcType /\ svc'.pc = "find" /\ SameRequest
                    /\ svc'.ids = Tail(svc.ids) /\ svc'.new = svc.new
                    /\ svc'.old = IF Head(svc.ids).hidden THEN svc.old ELSE Append(svc.old, Head(svc.ids))
<1>0. svc.pc = "find" /\ Frame /\ (Failed \/ Found \/ Next1)
  BY Zenon, ProgramEffect
<1>1. svc.op = "setup" /\ cnt.version = 2
  BY Zenon, <1>0 DEF StageInv, Rewriting
<1>2. svc.ids \in Seq(Known) /\ svc.old \in Seq(Known) /\ filters \in Seq(Known)
  BY Zenon DEF TypeInv, SvcType
<1>3. Len(svc.ids) \in Nat /\ Len(svc.old) \in Nat /\ Len(filters) \in Nat
  BY Zenon, <1>2, LenProperties
<1>a. CASE Failed
  BY Zenon, <1>0, <1>a, FailedStep DEF Frame
<1>b. CASE Found
  <2>1. TypeInv'
    BY Zenon, <1>0, <1>b, SvcTypeStep
  <2>2. StageInv'
    BY Zenon, <1>0, <1>1, <1>b DEF StageInv, Frame, SameRequest, Rewriting
  <2>3. ListInv'
    BY Zenon, <1>0, <1>1, <1>b DEF ListInv, Frame
  <2>4. NumbersInv'
    BY Zenon, <1>0 DEF NumbersInv, Frame
  <2>5. GrantInv'
    BY Zenon, <1>0, <1>b DEF GrantInv, Frame, SameFilters
  <2>6. RequestInv'
    <3>1. Len(svc.ids) = 0
      BY Zenon, <1>2, <1>b, EmptySeq
    <3> QED
      BY <1>0, <1>b, <3>1 DEF RequestInv, Frame, SameRequest, SameFilters, Rewriting
  <2>7. CapsDroppedOrReported'
    BY Zenon, <1>b DEF CapsDroppedOrReported, At
  <2> QED
    BY <2>1, <2>2, <2>3, <2>4, <2>5, <2>6, <2>7
<1>c. CASE Next1
  <2> DEFINE h == Head(svc.ids)
             t == Tail(svc.ids)
             old == svc'.old
  <2>0. /\ h \in Known /\ h = svc.ids[1] /\ t \in Seq(Known) /\ Len(t) = Len(svc.ids) - 1
        /\ \A i \in 1 .. Len(t) : t[i] = svc.ids[i + 1]
    BY <1>2, <1>c, HeadTailProperties, EmptySeq
  <2>a. /\ Append(svc.old, h) \in Seq(Known) /\ Len(Append(svc.old, h)) = Len(svc.old) + 1
        /\ \A i \in 1 .. Len(svc.old) : Append(svc.old, h)[i] = svc.old[i]
        /\ Append(svc.old, h)[Len(svc.old) + 1] = h
    BY <1>2, <2>0, AppendProperties
  <2>1. TypeInv'
    BY Zenon, <1>0, <1>c, SvcTypeStep
  <2>2. StageInv'
    BY Zenon, <1>0, <1>1, <1>c DEF StageInv, Frame, SameRequest, Rewriting
  <2>3. ListInv'
    BY Zenon, <1>0, <1>1, <1>c DEF ListInv, Frame
  <2>4. NumbersInv'
    BY <1>0 DEF NumbersInv, Frame
  <2>5. GrantInv'
    <3>1. SUFFICES ASSUME nrep = 0, cnt.version = 2
                   PROVE  Accept(filters, granted) /\ Accept(t, granted) /\ Accept(old, granted) /\ Accept(svc.new, granted)
      BY Zenon, <1>0, <1>c DEF GrantInv, Frame
    <3>2. Accept(filters, granted) /\ Accept(svc.ids, granted) /\ Accept(svc.old, granted) /\ Accept(svc.new, granted)
      BY Zenon, <3>1 DEF GrantInv
    <3>3. Accept(t, granted)
      BY Zenon, <1>2, <1>c, <3>2, AcceptTail
    <3>4. ~h.hidden => Accept(Append(svc.old, h), granted)
      <4>1. ~h.hidden => granted \subseteq h.added
        BY Zenon, <1>2, <1>c, <3>2, AcceptHead
      <4> HIDE DEF h
      <4> QED
        BY Zenon, <1>2, <2>0, <3>2, <4>1, AcceptAppend
    <3> QED
      BY Zenon, <1>c, <3>2, <3>3, <3>4
  <2>6. RequestInv'
    <3>1. ASSUME nrep = 0, NEW i \in 1 .. Len(filters), ~filters[i].hidden
          PROVE  \/ \E k \in 1 .. Len(t) : t[k] = filters[i]
                 \/ \E k \in 1 .. Len(old) : old[k].id = filters[i].id
      <4>1. CASE \E k \in 1 .. Len(svc.old) : svc.old[k].id = filters[i].id
        <5>1. PICK k \in 1 .. Len(svc.old) : svc.old[k].id = filters[i].id
          BY Zenon, <4>1
        <5>2. k \in 1 .. Len(old) /\ old[k] = svc.old[k]
          <6> HIDE DEF h
          <6> QED
            BY <1>3, <1>c, <2>a DEF h
        <5> QED
          BY Zenon, <5>1, <5>2
      <4>2. CASE \E k \in 1 .. Len(svc.ids) : svc.ids[k] = filters[i]
        <5>1. PICK k \in 1 .. Len(svc.ids) : svc.ids[k] = filters[i]
          BY Zenon, <4>2
        <5>2. CASE k = 1
          <6>1. ~h.hidden /\ h = filters[i]
            BY Zenon, <2>0, <3>1, <5>1, <5>2
          <6>2. old = Append(svc.old, h)
            BY Zenon, <1>c, <6>1
          <6>3. Len(svc.old) + 1 \in 1 .. Len(old) /\ old[Len(svc.old) + 1] = h
            BY <1>3, <2>a, <6>2
          <6> QED
            BY Zenon, <6>1, <6>3
        <5>3. CASE k # 1
          <6>1. k - 1 \in 1 .. Len(t) /\ t[k - 1] = svc.ids[(k - 1) + 1] /\ (k - 1) + 1 = k
            BY <1>3, <2>0, <5>3
          <6> QED
            BY Zenon, <5>1, <6>1
        <5> QED
          BY Zenon, <5>2, <5>3
      <4> QED
        BY Zenon, <1>0, <3>1, <4>1, <4>2 DEF RequestInv
    <3> QED
      BY <1>0, <1>c, <3>1 DEF RequestInv, Frame, SameRequest, Rewriting
  <2>7. CapsDroppedOrReported'
    BY Zenon, <1>c DEF CapsDroppedOrReported, At
  <2> QED
    BY <2>1, <2>2, <2>3, <2>4, <2>5, <2>6, <2>7
<1> QED
  BY Zenon, <1>0, <1>a, <1>b, <1>c

(* Generating a filter keeps the invariant. *)
LEMMA GenerateStep ==
  ASSUME CgroupInv, generateNewProgram
  PROVE  CgroupInv'
<1> USE DEF CgroupInv
<1> DEFINE Loaded == /\ svc' \in SvcType /\ svc'.pc = "load" /\ SameRequest
                     /\ svc'.ids = svc.ids /\ svc'.old = svc.old
                     /\ \E f \in Known, i \in 1 .. Len(svc.old) :
                          /\ svc'.new = Append(svc.new, f) /\ f.hidden = svc.old[i].hidden
                          /\ f.added = svc.old[i].added \cup {svc.dev}
<1>0. svc.pc = "load" /\ Frame /\ (Failed \/ Loaded)
  BY Zenon, GenerateEffect
<1>1. svc.op = "setup" /\ cnt.version = 2
  BY Zenon, <1>0 DEF StageInv, Rewriting
<1>2. svc.new \in Seq(Known)
  BY Zenon DEF TypeInv, SvcType
<1>a. CASE Failed
  BY Zenon, <1>0, <1>a, FailedStep DEF Frame
<1>b. CASE Loaded
  <2>0. PICK f \in Known, i \in 1 .. Len(svc.old) :
             /\ svc'.new = Append(svc.new, f) /\ f.hidden = svc.old[i].hidden
             /\ f.added = svc.old[i].added \cup {svc.dev}
    BY Zenon, <1>b
  <2>1. TypeInv'
    BY Zenon, <1>0, <1>b, SvcTypeStep
  <2>2. StageInv'
    BY Zenon, <1>0, <1>1, <1>b DEF StageInv, Frame, SameRequest, Rewriting
  <2>3. ListInv'
    BY Zenon, <1>0, <1>1, <1>b DEF ListInv, Frame
  <2>4. NumbersInv'
    BY Zenon, <1>0 DEF NumbersInv, Frame
  <2>5. GrantInv'
    <3>1. SUFFICES ASSUME nrep = 0, cnt.version = 2
                   PROVE  Accept(filters, granted) /\ Accept(svc.ids, granted) /\ Accept(svc.old, granted)
                          /\ Accept(Append(svc.new, f), granted)
      BY Zenon, <1>0, <1>b, <2>0 DEF GrantInv, Frame
    <3>2. Accept(filters, granted) /\ Accept(svc.ids, granted) /\ Accept(svc.old, granted) /\ Accept(svc.new, granted)
      BY Zenon, <3>1 DEF GrantInv
    <3>3. ~f.hidden => granted \subseteq f.added
      BY Zenon, <2>0, <3>2 DEF Accept
    <3> QED
      BY Zenon, <1>2, <3>2, <3>3, AcceptAppend
  <2>6. RequestInv'
    <3>1. Accept(svc.new, {svc.dev})
      BY Zenon, <1>0 DEF RequestInv, Rewriting
    <3>2. ~f.hidden => {svc.dev} \subseteq f.added
      BY Zenon, <2>0
    <3>3. Accept(Append(svc.new, f), {svc.dev})
      BY Zenon, <1>2, <3>1, <3>2, AcceptAppend
    <3> QED
      BY <1>0, <1>b, <2>0, <3>3 DEF RequestInv, Frame, SameRequest, Rewriting
  <2>7. CapsDroppedOrReported'
    BY Zenon, <1>b DEF CapsDroppedOrReported, At
  <2> QED
    BY Zenon, <2>1, <2>2, <2>3, <2>4, <2>5, <2>6, <2>7
<1> QED
  BY Zenon, <1>0, <1>a, <1>b

(* Raising the limit keeps the invariant. *)
LEMMA MemlockStep ==
  ASSUME CgroupInv, RaiseMemlock
  PROVE  CgroupInv'
<1> USE DEF CgroupInv
<1>0. svc.pc = "load" /\ Frame /\ svc' \in SvcType /\ svc'.pc = "detach" /\ SameFilters /\ SameRequest
  BY Zenon, MemlockEffect
<1>1. TypeInv'
  BY Zenon, <1>0, SvcTypeStep
<1>2. StageInv'
  BY Zenon, <1>0 DEF StageInv, Frame, SameRequest, Rewriting
<1>3. ListInv'
  BY Zenon, <1>0 DEF ListInv, Frame
<1>4. NumbersInv'
  BY Zenon, <1>0 DEF NumbersInv, Frame
<1>5. GrantInv'
  BY Zenon, <1>0 DEF GrantInv, Frame, SameFilters
<1>6. RequestInv'
  BY <1>0 DEF RequestInv, Frame, SameRequest, SameFilters, Rewriting
<1>7. CapsDroppedOrReported'
  BY Zenon, <1>0 DEF CapsDroppedOrReported, At
<1> QED
  BY <1>1, <1>2, <1>3, <1>4, <1>5, <1>6, <1>7

(* Detaching removes the filter whose number the program at the head of    *)
(* the list has, and no other: the numbers are distinct.                   *)
LEMMA DetachStep ==
  ASSUME CgroupInv, DetachCgroupDeviceFilter
  PROVE  CgroupInv'
<1> USE DEF CgroupInv
<1> DEFINE Same == UNCHANGED <<runtime, lastid, list, cnt, client, nrep, granted>>
           Done == /\ svc.old = <<>> /\ svc' \in SvcType /\ svc'.pc = "attach" /\ SameRequest /\ SameFilters
                   /\ filters' = filters
           One == /\ svc.old # <<>> /\ svc' \in SvcType /\ svc'.pc = "detach" /\ SameRequest
                  /\ svc'.ids = svc.ids /\ svc'.old = Tail(svc.old) /\ svc'.new = svc.new
                  /\ \E i \in 1 .. Len(filters) :
                       filters[i].id = Head(svc.old).id /\ filters' = Without(filters, i)
<1>0. svc.pc = "detach" /\ Same /\ ((Failed /\ filters' = filters) \/ Done \/ One)
  BY Zenon, DetachEffect
<1>1. svc.op = "setup" /\ cnt.version = 2
  BY Zenon, <1>0 DEF StageInv, Rewriting
<1>2. svc.old \in Seq(Known) /\ filters \in Seq(Known)
  BY Zenon DEF TypeInv, SvcType
<1>3. Len(svc.old) \in Nat /\ Len(filters) \in Nat
  BY Zenon, <1>2, LenProperties
<1>a. CASE Failed /\ filters' = filters
  BY Zenon, <1>0, <1>a, FailedStep
<1>b. CASE Done
  <2>1. TypeInv'
    BY Zenon, <1>0, <1>b, TypeStep DEF TypeInv
  <2>2. StageInv'
    BY Zenon, <1>0, <1>1, <1>b DEF StageInv, SameRequest, Rewriting
  <2>3. ListInv'
    BY Zenon, <1>0, <1>1, <1>b DEF ListInv
  <2>4. NumbersInv'
    BY Zenon, <1>0, <1>b DEF NumbersInv
  <2>5. GrantInv'
    BY Zenon, <1>0, <1>b DEF GrantInv, SameFilters
  <2>6. RequestInv'
    <3>1. Len(svc.old) = 0
      BY Zenon, <1>2, <1>b, EmptySeq
    <3>2. nrep = 0 => Accept(filters, {svc.dev})
      BY <1>0, <3>1 DEF RequestInv, Accept
    <3> QED
      BY Zenon, <1>0, <1>b, <3>2 DEF RequestInv, SameRequest, SameFilters, Rewriting
  <2>7. CapsDroppedOrReported'
    BY Zenon, <1>b DEF CapsDroppedOrReported, At
  <2> QED
    BY <2>1, <2>2, <2>3, <2>4, <2>5, <2>6, <2>7
<1>c. CASE One
  <2>0. PICK i \in 1 .. Len(filters) : filters[i].id = Head(svc.old).id /\ filters' = Without(filters, i)
    BY Zenon, <1>c
  <2>a. /\ filters' \in Seq(Known) /\ Len(filters') = Len(filters) - 1
        /\ \A j \in 1 .. Len(filters) - 1 : filters'[j] = IF j < i THEN filters[j] ELSE filters[j + 1]
    BY Zenon, <1>2, <2>0, WithoutProperties
  <2>b. \A j \in 1 .. Len(filters') : \E k \in 1 .. Len(filters) : k # i /\ filters'[j] = filters[k]
        /\ k = IF j < i THEN j ELSE j + 1
    BY <1>3, <2>a
  <2>c. Head(svc.old) = svc.old[1] /\ Len(Tail(svc.old)) = Len(svc.old) - 1
        /\ \A k \in 1 .. Len(Tail(svc.old)) : Tail(svc.old)[k] = svc.old[k + 1]
    BY <1>2, <1>c, HeadTailProperties
  <2>1. TypeInv'
    BY Zenon, <1>0, <1>c, <2>a, TypeStep DEF TypeInv
  <2>2. StageInv'
    BY Zenon, <1>0, <1>1, <1>c DEF StageInv, SameRequest, Rewriting
  <2>3. ListInv'
    BY Zenon, <1>0, <1>1, <1>c DEF ListInv
  <2>4. NumbersInv'
    <3>1. \A j \in 1 .. Len(filters') : filters'[j].id <= lastid'
      BY Zenon, <1>0, <2>b DEF NumbersInv
    <3>2. ASSUME NEW j \in 1 .. Len(filters'), NEW k \in 1 .. Len(filters'), filters'[j].id = filters'[k].id
          PROVE  j = k
      <4>1. PICK m \in 1 .. Len(filters) : filters'[j] = filters[m] /\ m = IF j < i THEN j ELSE j + 1
        BY Zenon, <2>b
      <4>2. PICK n \in 1 .. Len(filters) : filters'[k] = filters[n] /\ n = IF k < i THEN k ELSE k + 1
        BY Zenon, <2>b
      <4>3. m = n
        BY Zenon, <3>2, <4>1, <4>2 DEF NumbersInv
      <4>4. j \in Int /\ k \in Int /\ i \in Int
        BY <1>3, <2>a
      <4> QED
        BY <4>1, <4>2, <4>3, <4>4
    <3> QED
      BY Zenon, <3>1, <3>2 DEF NumbersInv
  <2>5. GrantInv'
    <3>1. SUFFICES ASSUME nrep = 0, cnt.version = 2
                   PROVE  Accept(filters', granted) /\ Accept(svc.ids, granted) /\ Accept(Tail(svc.old), granted)
                          /\ Accept(svc.new, granted)
      BY Zenon, <1>0, <1>c DEF GrantInv
    <3>2. Accept(filters, granted) /\ Accept(svc.ids, granted) /\ Accept(svc.old, granted) /\ Accept(svc.new, granted)
      BY Zenon, <3>1 DEF GrantInv
    <3>3. Accept(filters', granted)
      BY Zenon, <1>2, <2>0, <3>2, AcceptRemoved
    <3>4. Accept(Tail(svc.old), granted)
      BY Zenon, <1>2, <1>c, <3>2, AcceptTail
    <3> QED
      BY Zenon, <3>2, <3>3, <3>4
  <2>6. RequestInv'
    <3>1. ASSUME nrep = 0, NEW j \in 1 .. Len(filters'), ~filters'[j].hidden
          PROVE  \E k \in 1 .. Len(Tail(svc.old)) : Tail(svc.old)[k].id = filters'[j].id
      <4>1. PICK m \in 1 .. Len(filters) : m # i /\ filters'[j] = filters[m]
        BY Zenon, <2>b
      <4>2. PICK k \in 1 .. Len(svc.old) : svc.old[k].id = filters[m].id
        BY Zenon, <1>0, <3>1, <4>1 DEF RequestInv
      <4>3. k # 1
        BY <2>0, <2>c, <4>1, <4>2 DEF NumbersInv
      <4>4. k - 1 \in 1 .. Len(Tail(svc.old)) /\ Tail(svc.old)[k - 1] = svc.old[(k - 1) + 1] /\ (k - 1) + 1 = k
        BY <1>3, <2>c, <4>3
      <4> QED
        BY Zenon, <4>1, <4>2, <4>4
    <3> QED
      BY <1>0, <1>c, <3>1 DEF RequestInv, SameRequest, Rewriting
  <2>7. CapsDroppedOrReported'
    BY Zenon, <1>c DEF CapsDroppedOrReported, At
  <2> QED
    BY Zenon, <2>1, <2>2, <2>3, <2>4, <2>5, <2>6, <2>7
<1> QED
  BY Zenon, <1>0, <1>a, <1>b, <1>c

(* Attaching a new filter keeps the invariant. *)
LEMMA AttachStep ==
  ASSUME CgroupInv, AttachCgroupDeviceFilter
  PROVE  CgroupInv'
<1> USE DEF CgroupInv
<1> DEFINE Same == UNCHANGED <<runtime, list, cnt, client, nrep, granted>>
           g == [Head(svc.new) EXCEPT !.id = NewId]
           One == /\ svc.new # <<>> /\ svc' \in SvcType /\ svc'.pc = "attach" /\ SameRequest
                  /\ svc'.ids = svc.ids /\ svc'.old = svc.old /\ svc'.new = Tail(svc.new)
                  /\ filters' = Append(filters, g) /\ lastid' = NewId
<1>0. svc.pc = "attach" /\ Same
      /\ ((Failed /\ UNCHANGED <<filters, lastid>>) \/ (Ended /\ UNCHANGED <<filters, lastid>>) \/ One)
  BY Zenon, AttachEffect
<1>1. svc.op = "setup" /\ cnt.version = 2
  BY Zenon, <1>0 DEF StageInv, Rewriting
<1>2. svc.new \in Seq(Known) /\ filters \in Seq(Known) /\ lastid \in Nat
  BY Zenon DEF TypeInv, SvcType
<1>3. Len(filters) \in Nat
  BY Zenon, <1>2, LenProperties
<1>a. CASE Failed /\ UNCHANGED <<filters, lastid>>
  BY Zenon, <1>0, <1>a, FailedStep
<1>b. CASE Ended /\ UNCHANGED <<filters, lastid>>
  <2>1. TypeInv'
    BY Zenon, <1>0, <1>b, TypeStep DEF TypeInv, Ended
  <2>2. StageInv'
    BY Zenon, <1>0, <1>1, <1>b DEF StageInv, SameRequest, Rewriting, Ended
  <2>3. ListInv'
    BY Zenon, <1>0, <1>1, <1>b DEF ListInv
  <2>4. NumbersInv'
    BY Zenon, <1>b DEF NumbersInv
  <2>5. GrantInv'
    BY Zenon, <1>0, <1>b DEF GrantInv, SameFilters, Ended
  <2>6. RequestInv'
    BY Zenon, <1>0, <1>1, <1>b DEF RequestInv, SameRequest, Rewriting, Ended
  <2>7. CapsDroppedOrReported'
    BY Zenon, <1>b DEF CapsDroppedOrReported, At, Ended
  <2> QED
    BY <2>1, <2>2, <2>3, <2>4, <2>5, <2>6, <2>7
<1>c. CASE One
  <2>0. Head(svc.new) \in Known
    BY Zenon, <1>2, <1>c, HeadTailProperties
  <2>a. g \in Known /\ g.id = lastid + 1 /\ g.hidden = Head(svc.new).hidden /\ g.added = Head(svc.new).added
    <3>1. NewId \in Nat /\ NewId = lastid + 1
      BY <1>2 DEF NewId
    <3>2. Head(svc.new) \in Filter /\ \E i \in 1 .. Len(runtime) : Head(svc.new).base = runtime[i].base
      BY Zenon, <2>0 DEF Known
    <3>3. /\ g \in Filter /\ g.base = Head(svc.new).base
          /\ g.id = NewId /\ g.hidden = Head(svc.new).hidden /\ g.added = Head(svc.new).added
      BY Zenon, <3>1, <3>2 DEF Filter
    <3> HIDE DEF g
    <3> QED
      BY Zenon, <3>1, <3>2, <3>3 DEF Known
  <2> HIDE DEF g
  <2>b. /\ filters' \in Seq(Known) /\ Len(filters') = Len(filters) + 1
        /\ \A i \in 1 .. Len(filters) : filters'[i] = filters[i]
        /\ filters'[Len(filters) + 1] = g
    BY <1>2, <1>c, <2>a, AppendProperties
  <2>1. TypeInv'
    <3>1. lastid' \in Nat
      BY <1>2, <1>c DEF NewId
    <3> QED
      BY Zenon, <1>0, <1>c, <2>b, <3>1, TypeStep DEF TypeInv
  <2>2. StageInv'
    BY Zenon, <1>0, <1>1, <1>c DEF StageInv, SameRequest, Rewriting
  <2>3. ListInv'
    BY Zenon, <1>0, <1>1, <1>c DEF ListInv
  <2>4. NumbersInv'
    <3>0. \A i \in 1 .. Len(filters) : filters[i].id \in Nat
      BY <1>2, ElementOfSeq DEF Known, Filter
    <3>1. \A i \in 1 .. Len(filters') : filters'[i].id <= lastid + 1
      BY <1>2, <1>3, <2>a, <2>b, <3>0 DEF NumbersInv
    <3>2. \A i \in 1 .. Len(filters) : filters'[i].id # lastid + 1
      <4>1. \A i \in 1 .. Len(filters) : filters[i].id # lastid + 1
        BY <1>2, <3>0 DEF NumbersInv
      <4> QED
        BY Zenon, <2>b, <4>1
    <3>3. ASSUME NEW i \in 1 .. Len(filters'), NEW j \in 1 .. Len(filters'), filters'[i].id = filters'[j].id
          PROVE  i = j
      <4>1. CASE i \in 1 .. Len(filters) /\ j \in 1 .. Len(filters)
        BY Zenon, <2>b, <3>3, <4>1 DEF NumbersInv
      <4>2. CASE i = Len(filters) + 1
        BY <1>3, <2>a, <2>b, <3>2, <3>3, <4>2
      <4>3. CASE j = Len(filters) + 1
        BY <1>3, <2>a, <2>b, <3>2, <3>3, <4>3
      <4>4. i \in 1 .. Len(filters) \/ i = Len(filters) + 1
        BY <1>3, <2>b
      <4>5. j \in 1 .. Len(filters) \/ j = Len(filters) + 1
        BY <1>3, <2>b
      <4> QED
        BY Zenon, <4>1, <4>2, <4>3, <4>4, <4>5
    <3> QED
      BY Zenon, <1>c, <3>1, <3>3 DEF NumbersInv, NewId
  <2>5. GrantInv'
    <3>1. SUFFICES ASSUME nrep = 0, cnt.version = 2
                   PROVE  Accept(Append(filters, g), granted) /\ Accept(svc.ids, granted) /\ Accept(svc.old, granted)
                          /\ Accept(Tail(svc.new), granted)
      BY Zenon, <1>0, <1>c DEF GrantInv
    <3>2. Accept(filters, granted) /\ Accept(svc.ids, granted) /\ Accept(svc.old, granted) /\ Accept(svc.new, granted)
      BY <3>1 DEF GrantInv
    <3>3. ~Head(svc.new).hidden => granted \subseteq Head(svc.new).added
      BY Zenon, <1>2, <1>c, <3>2, AcceptHead
    <3>4. Accept(Append(filters, g), granted)
      BY Zenon, <1>2, <2>a, <3>2, <3>3, AcceptAppend
    <3>5. Accept(Tail(svc.new), granted)
      BY Zenon, <1>2, <1>c, <3>2, AcceptTail
    <3> QED
      BY Zenon, <3>2, <3>4, <3>5
  <2>6. RequestInv'
    <3>1. Accept(svc.new, {svc.dev}) /\ (nrep = 0 => Accept(filters, {svc.dev}))
      BY Zenon, <1>0, <1>1 DEF RequestInv, Rewriting
    <3>2. ~Head(svc.new).hidden => {svc.dev} \subseteq Head(svc.new).added
      BY Zenon, <1>2, <1>c, <3>1, AcceptHead
    <3>3. nrep = 0 => Accept(Append(filters, g), {svc.dev})
      BY Zenon, <1>2, <2>a, <3>1, <3>2, AcceptAppend
    <3>4. Accept(Tail(svc.new), {svc.dev})
      BY Zenon, <1>2, <1>c, <3>1, AcceptTail
    <3> QED
      BY Zenon, <1>0, <1>c, <3>3, <3>4 DEF RequestInv, SameRequest, Rewriting
  <2>7. CapsDroppedOrReported'
    BY Zenon, <1>c DEF CapsDroppedOrReported, At
  <2> QED
    BY <2>1, <2>2, <2>3, <2>4, <2>5, <2>6, <2>7
<1> QED
  BY Zenon, <1>0, <1>a, <1>b, <1>c

(* What the library makes of an answer: it is the answer to the request    *)
(* the service has, and versions and paths are asked for before anything   *)
(* is granted.                                                             *)
LEMMA AnsweredFacts ==
  ASSUME CgroupInv, client.op # "none", Answered
  PROVE  /\ client'.op = "none" /\ client.op = svc.op
         /\ granted' # {} => cnt'.stage = "ready"
         /\ cnt'.stage = "ready" => cnt'.version \in {1, 2} /\ svc.op \in {"path", "setup"}
         /\ svc.op = "setup" => cnt' = cnt
         /\ svc.op # "setup" => granted' = {}
         /\ cnt'.version # 2 => svc.op = "setup" \/ granted' = {}
<1>1. client.op = svc.op /\ client'.op = "none"
  BY Zenon DEF CgroupInv, StageInv, Answered
<1>2. svc.op # "setup" => granted = {}
  BY Zenon, <1>1 DEF CgroupInv, StageInv
<1> QED
  BY Zenon, <1>1, <1>2 DEF CgroupInv, StageInv, Answered

(* The list answers for what was granted with version 1. *)
LEMMA AnsweredList ==
  ASSUME CgroupInv, client.op # "none", Answered, list' = list
  PROVE  cnt'.version # 2 => granted' \subseteq list'
<1>1. client.op = svc.op /\ (svc.op # "setup" => granted' = {}) /\ (svc.op = "setup" => cnt' = cnt)
  BY Zenon, AnsweredFacts
<1> QED
  BY Zenon, <1>1 DEF CgroupInv, ListInv, Answered

(* The filters answer for what was granted with version 2. *)
LEMMA AnsweredGrant ==
  ASSUME CgroupInv, client.op # "none", Answered, nrep = 0, cnt'.version = 2
  PROVE  Accept(filters, granted')
<1>1. client.op = svc.op /\ (svc.op # "setup" => granted' = {}) /\ (svc.op = "setup" => cnt' = cnt)
  BY Zenon, AnsweredFacts
<1>2. CASE svc.op # "setup"
  BY Zenon, <1>1, <1>2 DEF Accept
<1>3. CASE svc.op = "setup" /\ granted' = granted
  BY Zenon, <1>1, <1>3 DEF CgroupInv, GrantInv
<1>4. CASE svc.op = "setup" /\ granted' = granted \cup {svc.dev} /\ svc.rv >= 0 /\ svc.pc = "drop"
  <2>1. Accept(filters, granted) /\ Accept(filters, {svc.dev})
    BY Zenon, <1>1, <1>4 DEF CgroupInv, GrantInv, RequestInv
  <2> QED
    BY Zenon, <1>4, <2>1 DEF Accept
<1> QED
  BY Zenon, <1>1, <1>2, <1>3, <1>4 DEF Answered

(* DropCaps keeps the invariant: what is granted has just been done. *)
LEMMA DropStep ==
  ASSUME CgroupInv, DropCaps
  PROVE  CgroupInv'
<1> USE DEF CgroupInv
<1>0. /\ svc.pc = "drop" /\ UNCHANGED <<runtime, filters, lastid, list, nrep>>
      /\ Emptied /\ (svc'.caps = "none" \/ svc'.rv < 0)
      /\ \/ client.op = "none" /\ UNCHANGED <<client, cnt, granted>>
         \/ client.op # "none" /\ Answered
  BY Zenon, DropEffect
<1>e. \A D : Accept(<<>>, D)
  BY EmptySeq DEF Accept
<1>4. NumbersInv'
  BY Zenon, <1>0 DEF NumbersInv
<1>6. RequestInv'
  BY Zenon, <1>0 DEF RequestInv, Emptied, Rewriting
<1>7. CapsDroppedOrReported'
  BY Zenon, <1>0 DEF CapsDroppedOrReported
<1>a. CASE client.op = "none" /\ UNCHANGED <<client, cnt, granted>>
  <2>1. TypeInv'
    BY Zenon, <1>0, <1>a, TypeStep DEF TypeInv, Emptied
  <2>2. StageInv'
    BY Zenon, <1>0, <1>a DEF StageInv, Emptied, Rewriting
  <2>3. ListInv'
    BY Zenon, <1>0, <1>a DEF ListInv, Emptied
  <2>5. GrantInv'
    BY Zenon, <1>0, <1>a, <1>e DEF GrantInv, Emptied
  <2> QED
    BY Zenon, <1>4, <1>6, <1>7, <2>1, <2>2, <2>3, <2>5
<1>b. CASE client.op # "none" /\ Answered
  <2>0. /\ client'.op = "none" /\ (granted' # {} => cnt'.stage = "ready")
        /\ (cnt'.stage = "ready" => cnt'.version \in {1, 2})
    BY Zenon, <1>b, AnsweredFacts
  <2>1. TypeInv'
    <3>1. /\ client' \in [op : Ops \cup {"none"}, ret : Int]
          /\ cnt' \in [stage : {"none", "versioned", "ready", "failed"}, version : -1 .. 2]
      BY Zenon, <1>b DEF Answered
    <3> QED
      BY Zenon, <1>0, <3>1, TypeStep DEF TypeInv, Emptied
  <2>2. StageInv'
    BY Zenon, <1>0, <2>0 DEF StageInv, Emptied, Rewriting
  <2>3. ListInv'
    BY Zenon, <1>0, <1>b, AnsweredList DEF ListInv, Emptied
  <2>5. GrantInv'
    BY Zenon, <1>0, <1>b, <1>e, AnsweredGrant DEF GrantInv, Emptied
  <2> QED
    BY <1>4, <1>6, <1>7, <2>1, <2>2, <2>3, <2>5
<1> QED
  BY Zenon, <1>0, <1>a, <1>b

(* The request goes on, for nobody. *)
LEMMA GivesUpStep ==
  ASSUME CgroupInv, GivesUp
  PROVE  CgroupInv'
<1> USE DEF CgroupInv
<1>0. client.op # "none" /\ Receives(-1) /\ UNCHANGED <<runtime, filters, lastid, list, svc, nrep>>
  BY Zenon DEF GivesUp
<1>1. Answered
  BY <1>0, ReceivesEffect
<1>2. /\ client.op = svc.op /\ client'.op = "none" /\ granted' = granted
      /\ \/ svc.op = "version" /\ cnt'.stage = "failed" /\ cnt'.version = -1
         \/ svc.op = "path" /\ cnt'.stage = "failed" /\ cnt'.version = cnt.version
         \/ svc.op = "setup" /\ cnt' = cnt
  <2>1. client.op = svc.op /\ svc.op \in Ops
    BY Zenon, <1>0 DEF StageInv, TypeInv, SvcType
  <2>2. CASE svc.op = "version"
    BY <1>0, <2>1, <2>2 DEF Receives
  <2>3. CASE svc.op = "path"
    BY <1>0, <2>1, <2>3 DEF Receives, TypeInv
  <2>4. CASE svc.op = "setup"
    BY <1>0, <2>1, <2>4 DEF Receives
  <2> QED
    BY Zenon, <2>1, <2>2, <2>3, <2>4 DEF Ops
<1>3. svc.op # "setup" => granted = {} /\ svc.pc \notin Rewriting
  BY Zenon, <1>2 DEF StageInv
<1>4. TypeInv'
  <2>1. /\ client' \in [op : Ops \cup {"none"}, ret : Int]
        /\ cnt' \in [stage : {"none", "versioned", "ready", "failed"}, version : -1 .. 2]
    BY Zenon, <1>1 DEF Answered
  <2> QED
    BY Zenon, <1>0, <2>1, TypeStep DEF TypeInv
<1>5. StageInv'
  BY Zenon, <1>0, <1>2, <1>3 DEF StageInv
<1>6. ListInv'
  BY Zenon, <1>0, <1>2, <1>3 DEF ListInv
<1>7. NumbersInv'
  BY Zenon, <1>0 DEF NumbersInv
<1>8. GrantInv'
  BY <1>0, <1>2 DEF GrantInv
<1>9. RequestInv'
  BY Zenon, <1>0, <1>2 DEF RequestInv
<1>10. CapsDroppedOrReported'
  BY Zenon, <1>0 DEF CapsDroppedOrReported, At
<1> QED
  BY <1>4, <1>5, <1>6, <1>7, <1>8, <1>9, <1>10

(* A call keeps the invariant. *)
LEMMA CallStep ==
  ASSUME CgroupInv, NEW op \in Ops, NEW d \in Targets, Call(op, d), op = "setup" => d \in Devices,
         IF op = "setup" THEN cnt.stage = "ready" ELSE cnt.stage # "ready"
  PROVE  CgroupInv'
<1> USE DEF CgroupInv
<1>0. /\ client.op = "none" /\ svc.pc = "idle" /\ UNCHANGED <<runtime, filters, lastid, list, cnt, nrep, granted>>
      /\ client' \in [op : {op}, ret : Int]
      /\ svc' \in SvcType /\ svc'.pc = "raise" /\ svc'.op = op /\ svc'.dev = d
      /\ svc'.ids = <<>> /\ svc'.old = <<>> /\ svc'.new = <<>>
  BY Zenon, CallEffect
<1>e. \A D : Accept(<<>>, D)
  BY EmptySeq DEF Accept
<1>f. client'.op = op /\ client' \in [op : Ops \cup {"none"}, ret : Int]
  BY Zenon, <1>0
<1>1. TypeInv'
  BY <1>0, <1>f, TypeStep, Zenon DEF TypeInv
<1>2. StageInv'
  BY <1>0, <1>f, Zenon DEF StageInv, Rewriting, Ops
<1>3. ListInv'
  BY <1>0, Zenon DEF ListInv
<1>4. NumbersInv'
  BY Zenon, <1>0 DEF NumbersInv
<1>5. GrantInv'
  BY Zenon, <1>0, <1>e DEF GrantInv
<1>6. RequestInv'
  BY Zenon, <1>0 DEF RequestInv, Rewriting
<1>7. CapsDroppedOrReported'
  BY Zenon, <1>0 DEF CapsDroppedOrReported, At
<1> QED
  BY Zenon, <1>1, <1>2, <1>3, <1>4, <1>5, <1>6, <1>7

(* A filter put by the manager of cgroups keeps the invariant. *)
LEMMA ManagerStep ==
  ASSUME CgroupInv, NEW i \in 1 .. Len(filters), ManagerReplaces(i)
  PROVE  CgroupInv'
<1> USE DEF CgroupInv
<1> DEFINE f == filters[i]
           g == [f EXCEPT !.added = {}, !.id = NewId]
<1>0. /\ UNCHANGED <<runtime, list, cnt, client, svc, granted>> /\ nrep' = nrep + 1
      /\ filters' = [filters EXCEPT ![i] = g] /\ lastid' = NewId
  BY Zenon DEF ManagerReplaces
<1>1. filters \in Seq(Known) /\ lastid \in Nat /\ nrep \in Nat
  BY Zenon DEF TypeInv
<1>2. Len(filters) \in Nat /\ f \in Known /\ NewId \in Nat /\ NewId = lastid + 1
  BY <1>1, LenProperties, ElementOfSeq DEF NewId
<1>3. g \in Known /\ g.id = lastid + 1
  <2>1. f \in Filter /\ \E k \in 1 .. Len(runtime) : f.base = runtime[k].base
    BY Zenon, <1>2 DEF Known
  <2> HIDE DEF f
  <2>2. g \in Filter /\ g.base = f.base /\ g.id = NewId
    BY Zenon, <1>2, <2>1 DEF Filter
  <2> HIDE DEF g
  <2> QED
    BY Zenon, <1>2, <2>1, <2>2 DEF Known
<1> HIDE DEF f, g
<1>4. /\ filters' \in Seq(Known) /\ Len(filters') = Len(filters)
      /\ \A j \in 1 .. Len(filters) : filters'[j] = IF j = i THEN g ELSE filters[j]
  BY <1>0, <1>1, <1>3, ExceptSeq
<1>5. nrep' \in Nat /\ nrep' # 0
  BY <1>0, <1>1
<1>6. TypeInv'
  <2>1. lastid' \in Nat /\ svc' \in SvcType
    BY Zenon, <1>0, <1>2 DEF TypeInv
  <2> QED
    BY Zenon, <1>0, <1>4, <1>5, <2>1, TypeStep DEF TypeInv
<1>7. StageInv'
  BY Zenon, <1>0 DEF StageInv
<1>8. ListInv'
  BY Zenon, <1>0 DEF ListInv
<1>9. NumbersInv'
  <2>0. \A j \in 1 .. Len(filters) : filters[j].id \in Nat /\ filters[j].id <= lastid
    BY SMTT(30), <1>1, ElementOfSeq DEF NumbersInv, Known, Filter
  <2>1. \A j \in 1 .. Len(filters) : filters'[j].id <= lastid + 1
    BY <1>1, <1>3, <1>4, <2>0
  <2>2. \A j \in 1 .. Len(filters) : filters'[j].id = lastid + 1 => j = i
    BY <1>1, <1>4, <2>0
  <2>3. \A j, k \in 1 .. Len(filters) : filters'[j].id = filters'[k].id => j = k
    BY Zenon, <1>3, <1>4, <2>2 DEF NumbersInv
  <2> QED
    BY Zenon, <1>0, <1>2, <1>4, <2>1, <2>3 DEF NumbersInv
<1>10. GrantInv'
  BY Zenon, <1>5 DEF GrantInv
<1>11. RequestInv'
  BY Zenon, <1>0, <1>5 DEF RequestInv
<1>12. CapsDroppedOrReported'
  BY Zenon, <1>0 DEF CapsDroppedOrReported, At
<1> QED
  BY Zenon, <1>6, <1>7, <1>8, <1>9, <1>10, <1>11, <1>12
-----------------------------------------------------------------------------
(* The invariant holds at the start. *)
LEMMA InvInit ==
  ASSUME CgroupInit
  PROVE  CgroupInv
<1>1. filters \in Seq(Filter) /\ runtime = filters /\ \A i \in 1 .. Len(filters) : filters[i].id = i
  BY DeviceCgroupAssumption, Zenon DEF CgroupInit
<1>2. Len(filters) \in Nat
  BY Zenon, <1>1, LenProperties
<1>3. filters \in Seq(Known)
  <2>1. \A i \in 1 .. Len(filters) : filters[i] \in Filter
    BY Zenon, <1>1, ElementOfSeq
  <2>2. \A i \in 1 .. Len(filters) : filters[i] \in Known
    BY Zenon, <1>1, <2>1 DEF Known
  <2>3. filters = [i \in 1 .. Len(filters) |-> filters[i]]
    BY <1>1, SeqDef
  <2> QED
    BY <1>2, <2>2, <2>3, IsASeq
<1>4. svc.pc = "idle" /\ svc.op = "none" /\ svc.caps = "none"
      /\ svc.ids = <<>> /\ svc.old = <<>> /\ svc.new = <<>>
  BY Zenon DEF CgroupInit
<1>5. svc \in SvcType
  <2> DEFINE e == <<>>
  <2>1. e \in Seq(Known) /\ e \in Targets /\ "idle" \in Steps
    BY Zenon, EmptySeq DEF Targets, Steps
  <2>2. svc = [pc |-> "idle", op |-> "none", dev |-> e, caps |-> "none", rv |-> 0,
               ids |-> e, old |-> e, new |-> e, version |-> 0]
    BY Zenon DEF CgroupInit
  <2> HIDE DEF e
  <2> QED
    BY <2>1, <2>2 DEF SvcType
<1>6. /\ cnt \in [stage : {"none", "versioned", "ready", "failed"}, version : -1 .. 2] /\ cnt.stage = "none"
      /\ client \in [op : Ops \cup {"none"}, ret : Int] /\ client.op = "none"
      /\ lastid = Len(filters) /\ nrep = 0 /\ granted = {} /\ list = {}
  BY DEF CgroupInit
<1>7. TypeInv
  BY Zenon, <1>1, <1>2, <1>3, <1>5, <1>6 DEF TypeInv
<1>8. StageInv /\ ListInv
  BY Zenon, <1>4, <1>6 DEF StageInv, ListInv, Rewriting
<1>9. NumbersInv
  BY SMTT(30), <1>1, <1>2, <1>6 DEF NumbersInv
<1>10. GrantInv
  <2>1. \A fs : Accept(fs, {})
    BY Zenon DEF Accept
  <2> QED
    BY Zenon, <1>6, <2>1 DEF GrantInv
<1>11. RequestInv /\ CapsDroppedOrReported
  BY Zenon, <1>4 DEF RequestInv, Rewriting, CapsDroppedOrReported, At
<1> QED
  BY Zenon, <1>7, <1>8, <1>9, <1>10, <1>11 DEF CgroupInv

(* Every step keeps the invariant. *)
LEMMA InvNext ==
  ASSUME CgroupInv, [CgroupNext]_vars
  PROVE  CgroupInv'
<1>0. <<>> \in Targets /\ Wanted \subseteq Targets /\ Wanted \subseteq Devices
  BY Zenon, DeviceCgroupAssumption DEF Targets
<1>1. CASE get_device_cgroup_version
  BY Zenon, <1>0, <1>1, CallStep DEF get_device_cgroup_version, Ops
<1>2. CASE find_device_cgroup_path
  BY Zenon, <1>0, <1>2, CallStep DEF find_device_cgroup_path, Ops
<1>3. ASSUME NEW d \in Wanted, setup_device_cgroup(d)
      PROVE  CgroupInv'
  BY Zenon, <1>0, <1>3, CallStep DEF setup_device_cgroup, Ops
<1>4. CASE ServiceStep
  BY Zenon, <1>4, RaiseCapsStep, GetVersionStep, FindPathStep, RulesV1Step, FindStep, ProgramStep, GenerateStep,
     MemlockStep, DetachStep, AttachStep, DropStep DEF ServiceStep
<1>5. ASSUME NEW i \in 1 .. Len(filters), ManagerReplaces(i)
      PROVE  CgroupInv'
  BY Zenon, <1>5, ManagerStep
<1>6. CASE UNCHANGED vars
  <2>1. UNCHANGED <<runtime, filters, lastid, list, cnt, client, svc, nrep, granted>>
    BY <1>6, Zenon DEF vars
  <2>2. TypeInv'
    BY Zenon, <2>1, TypeStep DEF CgroupInv, TypeInv
  <2>3. StageInv' /\ ListInv' /\ NumbersInv'
    BY Zenon, <2>1 DEF CgroupInv, StageInv, ListInv, NumbersInv
  <2>4. GrantInv' /\ RequestInv' /\ CapsDroppedOrReported'
    BY Zenon, <2>1 DEF CgroupInv, GrantInv, RequestInv, CapsDroppedOrReported, At
  <2> QED
    BY Zenon, <2>2, <2>3, <2>4 DEF CgroupInv
<1> QED
  BY Zenon, <1>1, <1>2, <1>3, <1>4, <1>5, <1>6, GivesUpStep DEF CgroupNext

(* The invariant holds throughout. *)
LEMMA InvHolds == CgroupSpec => []CgroupInv
  BY InvInit, InvNext, PTL DEF CgroupSpec

(* Whatever fails between two filters, and whatever the manager replaces,  *)
(* AddDeviceRules never refuses what the filters of the runtime accept.    *)
THEOREM RewritesOnlyAdd == CgroupSpec => []NeverStricter
<1>1. CgroupInv => NeverStricter
  <2> SUFFICES ASSUME CgroupInv, NEW q \in Request, \A i \in 1 .. Len(runtime) : q \in runtime[i].base,
                      NEW i \in 1 .. Len(filters)
               PROVE  Accepts(filters[i], q)
    BY Zenon DEF NeverStricter, Allowed
  <2>1. filters[i] \in Known
    BY Zenon, ElementOfSeq DEF CgroupInv, TypeInv
  <2> QED
    BY Zenon, <2>1 DEF Known, Accepts
<1> QED
  BY <1>1, InvHolds, PTL

(* A device that was granted stays usable through the rewriting, failing   *)
(* and abandoning of later requests, as long as the manager replaces no    *)
(* filter.                                                                 *)
THEOREM GrantsAreKept == CgroupSpec => []GrantedStaysUsable
<1>1. CgroupInv => GrantedStaysUsable
  <2> SUFFICES ASSUME CgroupInv
               PROVE  GrantedStaysUsable
    OBVIOUS
  <2>1. cnt.stage = "ready" \/ svc.op = "setup" => cnt.version \in {1, 2}
    BY Zenon DEF CgroupInv, StageInv
  <2>2. ASSUME nrep = 0, NEW d \in granted, cnt.version # 2
        PROVE  d \in list
    BY Zenon, <2>2 DEF CgroupInv, ListInv
  <2>3. ASSUME nrep = 0, NEW d \in granted, cnt.version = 2, NEW i \in 1 .. Len(filters),
               NEW acc \in {{"r"}, {"w"}, {"r", "w"}}, ~filters[i].hidden
        PROVE  Accepts(filters[i], [type |-> "c", access |-> acc, dev |-> d])
    <3>1. d \in filters[i].added
      BY Zenon, <2>3 DEF CgroupInv, GrantInv, Accept
    <3>2. acc \cap {"r", "w"} # {}
      OBVIOUS
    <3>3. Matches(d, [type |-> "c", access |-> acc, dev |-> d])
      BY Zenon, <3>2 DEF Matches
    <3> QED
      BY Zenon, <3>1, <3>3 DEF Accepts
  <2> QED
    BY Zenon, <2>1, <2>2, <2>3 DEF GrantedStaysUsable
<1> QED
  BY <1>1, InvHolds, PTL

(* Between requests the nvcgo service has no effective capability, unless  *)
(* it answered the last request with an error.                             *)
THEOREM CapabilitiesAreDropped == CgroupSpec => []CapsDroppedOrReported
<1>1. CgroupInv => CapsDroppedOrReported
  BY Zenon DEF CgroupInv
<1> QED
  BY <1>1, InvHolds, PTL
-----------------------------------------------------------------------------
(* Members of sequences. *)
LEMMA MembersEmpty == Members(<<>>) = {}
  BY DEF Members

(* Appending a filter adds it to the set. *)
LEMMA MembersAppend ==
  ASSUME NEW S, NEW s \in Seq(S), NEW x \in S
  PROVE  Members(Append(s, x)) = Members(s) \cup {x}
<1>1. /\ Len(Append(s, x)) = Len(s) + 1 /\ Append(s, x)[Len(s) + 1] = x
      /\ \A i \in 1 .. Len(s) : Append(s, x)[i] = s[i]
  BY AppendProperties
<1>2. Len(s) \in Nat
  BY Zenon, LenProperties
<1> HIDE DEF Members
<1>3. ASSUME NEW y \in Members(s)
      PROVE  y \in Members(Append(s, x))
  <2>1. PICK i \in 1 .. Len(s) : y = s[i]
    BY Zenon DEF Members
  <2>2. i \in 1 .. Len(Append(s, x)) /\ y = Append(s, x)[i]
    BY <1>1, <1>2, <2>1
  <2> QED
    BY Zenon, <2>2 DEF Members
<1>4. x \in Members(Append(s, x))
  <2>1. Len(s) + 1 \in 1 .. Len(Append(s, x))
    BY <1>1, <1>2
  <2> QED
    BY Zenon, <1>1, <2>1 DEF Members
<1>5. ASSUME NEW y \in Members(Append(s, x))
      PROVE  y \in Members(s) \cup {x}
  <2>1. PICK i \in 1 .. Len(Append(s, x)) : y = Append(s, x)[i]
    BY Zenon DEF Members
  <2>2. i \in 1 .. Len(s) \/ i = Len(s) + 1
    BY <1>1, <1>2
  <2> QED
    BY Zenon, <1>1, <2>1, <2>2 DEF Members
<1> QED
  BY Zenon, <1>3, <1>4, <1>5

(* The first filter and those after it are all of them. *)
LEMMA MembersTail ==
  ASSUME NEW S, NEW s \in Seq(S), s # <<>>
  PROVE  /\ Head(s) \in Members(s) /\ Members(s) = Members(Tail(s)) \cup {Head(s)}
         /\ Len(Tail(s)) + 1 = Len(s)
<1>1. /\ Tail(s) \in Seq(S) /\ Len(Tail(s)) = Len(s) - 1 /\ Head(s) = s[1]
      /\ \A i \in 1 .. Len(s) - 1 : Tail(s)[i] = s[i + 1]
  BY HeadTailProperties
<1>2. Len(s) \in Nat /\ Len(s) # 0
  BY Zenon, LenProperties, EmptySeq
<1>3. Head(s) \in Members(s)
  <2>1. 1 \in 1 .. Len(s)
    BY <1>2
  <2> QED
    BY Zenon, <1>1, <2>1 DEF Members
<1>4. ASSUME NEW y \in Members(Tail(s))
      PROVE  y \in Members(s)
  <2>1. PICK i \in 1 .. Len(Tail(s)) : y = Tail(s)[i]
    BY Zenon DEF Members
  <2>2. i + 1 \in 1 .. Len(s) /\ y = s[i + 1]
    BY <1>1, <1>2, <2>1
  <2> QED
    BY Zenon, <2>2 DEF Members
<1>5. ASSUME NEW y \in Members(s)
      PROVE  y \in Members(Tail(s)) \cup {Head(s)}
  <2>1. PICK i \in 1 .. Len(s) : y = s[i]
    BY Zenon DEF Members
  <2>2. CASE i = 1
    BY Zenon, <1>1, <2>1, <2>2
  <2>3. CASE i # 1
    <3>1. i - 1 \in 1 .. Len(Tail(s)) /\ y = Tail(s)[i - 1]
      BY <1>1, <1>2, <2>1, <2>3
    <3> QED
      BY Zenon, <3>1 DEF Members
  <2> QED
    BY Zenon, <2>2, <2>3
<1>6. Len(Tail(s)) + 1 = Len(s)
  BY <1>1, <1>2
<1> QED
  BY Zenon, <1>3, <1>4, <1>5, <1>6

(* The list without one of the filters has all the others. *)
LEMMA MembersWithout ==
  ASSUME NEW S, NEW s \in Seq(S), NEW i \in 1 .. Len(s)
  PROVE  Members(Without(s, i)) \subseteq Members(s) /\ Members(s) \subseteq Members(Without(s, i)) \cup {s[i]}
<1>1. /\ Len(Without(s, i)) = Len(s) - 1
      /\ \A j \in 1 .. Len(s) - 1 : Without(s, i)[j] = IF j < i THEN s[j] ELSE s[j + 1]
  BY Zenon, WithoutProperties
<1>2. Len(s) \in Nat
  BY Zenon, LenProperties
<1> HIDE DEF Without
<1>3. ASSUME NEW y \in Members(Without(s, i))
      PROVE  y \in Members(s)
  <2>1. PICK j \in 1 .. Len(Without(s, i)) : y = Without(s, i)[j]
    BY Zenon DEF Members
  <2>2. \E k \in 1 .. Len(s) : y = s[k]
    <3>1. CASE j < i
      BY <1>1, <1>2, <2>1, <3>1
    <3>2. CASE ~(j < i)
      <4>1. j + 1 \in 1 .. Len(s) /\ y = s[j + 1]
        BY <1>1, <1>2, <2>1, <3>2
      <4> QED
        BY Zenon, <4>1
    <3> QED
      BY Zenon, <3>1, <3>2
  <2> QED
    BY Zenon, <2>2 DEF Members
<1>4. ASSUME NEW y \in Members(s), y # s[i]
      PROVE  y \in Members(Without(s, i))
  <2>1. PICK j \in 1 .. Len(s) : y = s[j]
    BY Zenon DEF Members
  <2>2. CASE j < i
    <3>1. j \in 1 .. Len(Without(s, i)) /\ y = Without(s, i)[j]
      BY <1>1, <1>2, <2>1, <2>2
    <3> QED
      BY Zenon, <3>1 DEF Members
  <2>3. CASE j > i
    <3>1. j - 1 \in 1 .. Len(Without(s, i)) /\ y = Without(s, i)[j - 1]
      BY <1>1, <1>2, <2>1, <2>3
    <3> QED
      BY Zenon, <3>1 DEF Members
  <2>4. j < i \/ j > i
    BY <1>4, <2>1
  <2> QED
    BY Zenon, <2>2, <2>3, <2>4
<1> QED
  BY Zenon, <1>3, <1>4
-----------------------------------------------------------------------------
(* What is never forgotten. *)
LEMMA History ==
  ASSUME CgroupNext
  PROVE  runtime' = runtime /\ requested \subseteq requested' /\ (clean' => clean)
<1>1. CASE \E d \in Wanted : setup_device_cgroup(d)
  BY <1>1 DEF setup_device_cgroup, Call
<1>2. CASE get_device_cgroup_version
  BY <1>2 DEF get_device_cgroup_version, Call
<1>3. CASE find_device_cgroup_path
  BY <1>3 DEF find_device_cgroup_path, Call
<1>4. CASE GivesUp
  BY <1>4 DEF GivesUp
<1>5. CASE \E i \in 1 .. Len(filters) : ManagerReplaces(i)
  BY <1>5 DEF ManagerReplaces
<1>6. CASE RaiseCaps
  BY <1>6 DEF RaiseCaps, Fail
<1>7. CASE GetVersion
  BY <1>7 DEF GetVersion, Fail
<1>8. CASE FindPath
  BY <1>8 DEF FindPath, Fail
<1>9. CASE AddDeviceRulesV1
  BY <1>9 DEF AddDeviceRulesV1, Fail
<1>10. CASE FindAttachedCgroupDeviceFilters
  BY <1>10 DEF FindAttachedCgroupDeviceFilters, Fail
<1>11. CASE NewProgramFromID
  BY <1>11 DEF NewProgramFromID, Fail
<1>12. CASE generateNewProgram
  BY <1>12 DEF generateNewProgram, Fail
<1>13. CASE RaiseMemlock
  BY <1>13 DEF RaiseMemlock
<1>14. CASE DetachCgroupDeviceFilter
  BY <1>14 DEF DetachCgroupDeviceFilter, Fail
<1>15. CASE AttachCgroupDeviceFilter
  BY <1>15 DEF AttachCgroupDeviceFilter, Fail
<1>16. CASE DropCaps
  BY <1>16 DEF DropCaps
<1> QED
  BY ZenonT(30), <1>1, <1>2, <1>3, <1>4, <1>5, <1>6, <1>7, <1>8, <1>9, <1>10, <1>11, <1>12, <1>13, <1>14, <1>15, <1>16
     DEF CgroupNext, ServiceStep

(* A step that puts no block anywhere keeps AddedInv. *)
LEMMA AddedKept ==
  ASSUME AddedInv, requested \subseteq requested', SameRequest, Members(filters') \subseteq Members(filters),
         Members(svc'.ids) \subseteq Members(filters) \cup Members(svc.ids),
         Members(svc'.old) \subseteq Members(svc.old) \cup Members(svc.ids),
         Members(svc'.new) \subseteq Members(svc.new)
  PROVE  AddedInv'
  BY Zenon DEF AddedInv, Within, SameRequest

(* No step puts a block for a device that was not asked for. *)
LEMMA AddedStep ==
  ASSUME CgroupInv, AddedInv, CgroupNext
  PROVE  AddedInv'
<1>0. /\ requested \subseteq requested' /\ TypeInv /\ StageInv /\ svc \in SvcType
      /\ filters \in Seq(Known) /\ svc.ids \in Seq(Known) /\ svc.old \in Seq(Known) /\ svc.new \in Seq(Known)
  BY Zenon, History DEF CgroupInv, TypeInv, SvcType
<1>a. ASSUME SameFilters, SameRequest, filters' = filters
      PROVE  AddedInv'
  <2>1. Members(filters') = Members(filters) /\ Members(svc'.ids) = Members(svc.ids)
        /\ Members(svc'.old) = Members(svc.old) /\ Members(svc'.new) = Members(svc.new)
    BY Zenon, <1>a DEF SameFilters, Members
  <2> QED
    BY Zenon, <1>0, <1>a, <2>1 DEF AddedInv, Within, SameRequest
<1>b. ASSUME NEW op \in Ops, NEW d \in Targets, Call(op, d), op = "setup" => d \in requested'
      PROVE  AddedInv'
  <2>1. filters' = filters /\ svc'.op = op /\ svc'.dev = d
        /\ svc'.ids = <<>> /\ svc'.old = <<>> /\ svc'.new = <<>>
    BY Zenon, <1>0, <1>b, CallEffect
  <2>2. Members(filters') = Members(filters) /\ Members(svc'.ids) = {}
        /\ Members(svc'.old) = {} /\ Members(svc'.new) = {}
    BY Zenon, <2>1, MembersEmpty DEF Members
  <2> QED
    BY Zenon, <1>0, <1>b, <2>1, <2>2 DEF AddedInv, Within
<1>c. <<>> \in Targets /\ Wanted \subseteq Targets
  BY Zenon, DeviceCgroupAssumption DEF Targets
<1>1. CASE get_device_cgroup_version \/ find_device_cgroup_path \/ \E d \in Wanted : setup_device_cgroup(d)
  BY Zenon, <1>1, <1>b, <1>c DEF get_device_cgroup_version, find_device_cgroup_path, setup_device_cgroup, Ops
<1>2. CASE GivesUp
  BY Zenon, <1>2, <1>a DEF GivesUp, SameFilters, SameRequest
<1>3. CASE \E i \in 1 .. Len(filters) : ManagerReplaces(i)
  <2>1. PICK i \in 1 .. Len(filters) : ManagerReplaces(i)
    BY Zenon, <1>3
  <2>2. \A j \in 1 .. Len(filters) : filters[j] \in Filter
    BY Zenon, <1>0, ElementOfSeq DEF Known
  <2>3. Len(filters') = Len(filters) /\ \A j \in 1 .. Len(filters) : filters'[j].added \subseteq filters[j].added
    <3>1. filters' = [filters EXCEPT ![i] = [filters[i] EXCEPT !.added = {}, !.id = NewId]]
      BY Zenon, <2>1 DEF ManagerReplaces
    <3>2. [filters[i] EXCEPT !.added = {}, !.id = NewId].added = {}
      BY <2>2 DEF Filter
    <3> DEFINE g == [filters[i] EXCEPT !.added = {}, !.id = NewId]
    <3>3. filters' = [filters EXCEPT ![i] = g] /\ g.added = {}
      BY Zenon, <3>1, <3>2
    <3> HIDE DEF g
    <3> QED
      BY <1>0, <3>3
  <2>4. Within(filters', requested)
    BY Zenon, <2>3 DEF Within, Members, AddedInv
  <2>5. svc' = svc
    BY Zenon, <2>1 DEF ManagerReplaces
  <2> QED
    BY Zenon, <1>0, <2>4, <2>5 DEF AddedInv, Within
<1>4. CASE RaiseCaps \/ GetVersion \/ FindPath
  BY Zenon, <1>0, <1>4, <1>a, RaiseCapsEffect, GetVersionEffect, FindPathEffect DEF Frame, Failed, Ended
<1>5. CASE AddDeviceRulesV1 \/ RaiseMemlock
  BY Zenon, <1>0, <1>5, <1>a, RulesV1Effect, MemlockEffect DEF Frame, Failed, Ended
<1>6. CASE FindAttachedCgroupDeviceFilters
  <2>1. CASE Failed
    BY Zenon, <1>0, <1>6, <1>a, <2>1, FindEffect DEF Frame, Failed
  <2>2. CASE ~Failed
    <3>1. filters' = filters /\ SameRequest /\ svc'.ids = filters /\ svc'.old = svc.old /\ svc'.new = svc.new
      BY Zenon, <1>0, <1>6, <2>2, FindEffect DEF Frame
    <3> QED
      BY Zenon, <1>0, <3>1 DEF AddedInv, Within, SameRequest
  <2> QED
    BY Zenon, <2>1, <2>2
<1>7. CASE NewProgramFromID
  <2>1. CASE SameFilters
    BY Zenon, <1>0, <1>7, <1>a, <2>1, ProgramEffect DEF Frame, Failed
  <2>2. CASE ~SameFilters
    <3>1. /\ filters' = filters /\ SameRequest /\ svc.ids # <<>> /\ svc'.ids = Tail(svc.ids) /\ svc'.new = svc.new
          /\ svc'.old = IF Head(svc.ids).hidden THEN svc.old ELSE Append(svc.old, Head(svc.ids))
      BY Zenon, <1>0, <1>7, <2>2, ProgramEffect DEF Frame, Failed
    <3>2. /\ Members(svc'.ids) \subseteq Members(svc.ids) /\ Head(svc.ids) \in Members(svc.ids)
      BY Zenon, <1>0, <3>1, MembersTail
    <3>3. Head(svc.ids) \in Known
      BY Zenon, <1>0, <3>1, HeadTailProperties
    <3>4. Members(svc'.old) \subseteq Members(svc.old) \cup Members(svc.ids)
      BY <1>0, <3>1, <3>2, <3>3, MembersAppend
    <3> QED
      BY Zenon, <1>0, <3>1, <3>2, <3>4, AddedKept
  <2> QED
    BY Zenon, <2>1, <2>2
<1>8. CASE generateNewProgram
  <2>1. CASE Failed
    BY Zenon, <1>0, <1>8, <1>a, <2>1, GenerateEffect DEF Frame, Failed
  <2>2. CASE ~Failed
    <3>1. /\ filters' = filters /\ SameRequest /\ svc'.ids = svc.ids /\ svc'.old = svc.old
          /\ svc.pc = "load"
          /\ \E f \in Known, i \in 1 .. Len(svc.old) :
               svc'.new = Append(svc.new, f) /\ f.added = svc.old[i].added \cup {svc.dev}
      BY Zenon, <1>0, <1>8, <2>2, GenerateEffect DEF Frame
    <3>2. svc.dev \in requested
      BY Zenon, <1>0, <3>1 DEF AddedInv, StageInv, Rewriting
    <3>3. PICK f \in Known, i \in 1 .. Len(svc.old) :
            svc'.new = Append(svc.new, f) /\ f.added = svc.old[i].added \cup {svc.dev}
      BY Zenon, <3>1
    <3>4. svc.old[i] \in Members(svc.old)
      BY Zenon DEF Members
    <3>5. f.added \subseteq requested
      BY Zenon, <3>2, <3>3, <3>4 DEF AddedInv, Within
    <3>6. Members(svc'.new) = Members(svc.new) \cup {f}
      BY <1>0, <3>3, MembersAppend
    <3> QED
      BY Zenon, <1>0, <3>1, <3>5, <3>6 DEF AddedInv, Within, SameRequest
  <2> QED
    BY Zenon, <2>1, <2>2
<1>9. CASE DetachCgroupDeviceFilter
  <2>1. CASE SameFilters /\ filters' = filters
    BY Zenon, <1>0, <1>9, <1>a, <2>1, DetachEffect DEF Failed
  <2>2. CASE ~(SameFilters /\ filters' = filters)
    <3>1. /\ SameRequest /\ svc.old # <<>> /\ svc'.ids = svc.ids /\ svc'.old = Tail(svc.old) /\ svc'.new = svc.new
          /\ \E i \in 1 .. Len(filters) : filters' = Without(filters, i)
      BY Zenon, <1>0, <1>9, <2>2, DetachEffect DEF Failed
    <3>2. Members(filters') \subseteq Members(filters)
      BY Zenon, <1>0, <3>1, MembersWithout
    <3>3. Members(svc'.old) \subseteq Members(svc.old)
      BY Zenon, <1>0, <3>1, MembersTail
    <3> QED
      BY Zenon, <1>0, <3>1, <3>2, <3>3, AddedKept
  <2> QED
    BY Zenon, <2>1, <2>2
<1>10. CASE AttachCgroupDeviceFilter
  <2>1. CASE SameFilters /\ filters' = filters
    BY Zenon, <1>0, <1>10, <1>a, <2>1, AttachEffect DEF Failed, Ended
  <2>2. CASE ~(SameFilters /\ filters' = filters)
    <3>1. /\ SameRequest /\ svc.new # <<>> /\ svc'.ids = svc.ids /\ svc'.old = svc.old /\ svc'.new = Tail(svc.new)
          /\ filters' = Append(filters, [Head(svc.new) EXCEPT !.id = NewId])
      BY Zenon, <1>0, <1>10, <2>2, AttachEffect DEF Failed, Ended
    <3>2. Members(svc.new) = Members(svc'.new) \cup {Head(svc.new)}
      BY Zenon, <1>0, <3>1, MembersTail
    <3> DEFINE f == [Head(svc.new) EXCEPT !.id = NewId]
    <3>3. f \in Known /\ f.added = Head(svc.new).added
      <4>1. Head(svc.new) \in Known /\ NewId \in Nat
        <5>1. Head(svc.new) \in Known
          BY Zenon, <1>0, <3>1, HeadTailProperties
        <5>2. NewId \in Nat
          BY <1>0 DEF NewId, TypeInv
        <5> QED
          BY Zenon, <5>1, <5>2
      <4> QED
        BY <4>1 DEF Known, Filter
    <3> HIDE DEF f
    <3>4. filters' = Append(filters, f)
      BY Zenon, <3>1 DEF f
    <3>5. Members(filters') = Members(filters) \cup {f}
      BY <1>0, <3>3, <3>4, MembersAppend
    <3> QED
      BY Zenon, <1>0, <3>1, <3>2, <3>3, <3>5 DEF AddedInv, Within, SameRequest
  <2> QED
    BY Zenon, <2>1, <2>2
<1>11. CASE DropCaps
  <2>1. filters' = filters /\ svc'.op = "none" /\ svc'.ids = <<>> /\ svc'.old = <<>> /\ svc'.new = <<>>
    BY Zenon, <1>0, <1>11, DropEffect DEF Emptied
  <2>2. Members(filters') = Members(filters) /\ Members(svc'.ids) = {}
        /\ Members(svc'.old) = {} /\ Members(svc'.new) = {}
    BY ZenonT(30), <2>1, MembersEmpty DEF Members
  <2> QED
    BY Zenon, <1>0, <2>1, <2>2 DEF AddedInv, Within
<1> QED
  BY Zenon, <1>1, <1>2, <1>3, <1>4, <1>5, <1>6, <1>7, <1>8, <1>9, <1>10, <1>11 DEF CgroupNext, ServiceStep

(* Steps outside of the rewriting. *)
LEMMA CleanKept ==
  ASSUME CleanFacts, runtime' = runtime, filters' = filters, svc'.old = svc.old, svc'.new = svc.new,
         svc.pc \notin Rewriting, svc'.pc \notin Rewriting
  PROVE  CleanFacts'
<1>1. svc.pc \notin {"find", "load", "detach", "attach"} /\ svc'.pc \notin {"find", "load", "detach", "attach"}
  BY Zenon DEF Rewriting
<1>2. svc.pc # "find" /\ svc.pc # "load" /\ svc.pc # "detach" /\ svc.pc # "attach"
      /\ svc'.pc # "find" /\ svc'.pc # "load" /\ svc'.pc # "detach" /\ svc'.pc # "attach"
  BY Zenon, <1>1
<1>3. /\ svc'.old = <<>> /\ svc'.new = <<>> /\ Len(filters') = Len(runtime')
      /\ \A f \in Members(runtime') : (f.hidden => f \in Members(filters')) /\ Covers(filters', f.base)
  BY Zenon, <1>2 DEF CleanFacts
<1> QED
  BY Zenon, <1>2, <1>3 DEF CleanFacts

(* The numbers taken down are those of all filters. *)
LEMMA CleanFind ==
  ASSUME CgroupInv, CleanFacts, clean', FindAttachedCgroupDeviceFilters
  PROVE  CleanFacts'
<1>1. /\ svc.pc = "setup" /\ svc'.pc = "find" /\ runtime' = runtime /\ filters' = filters
      /\ svc'.ids = filters /\ svc'.old = svc.old /\ svc'.new = svc.new
  BY Zenon, FindEffect DEF CgroupInv, Frame, Failed
<1>2. svc.pc \notin Rewriting /\ svc'.pc \notin {"detach", "attach"} /\ svc.pc \notin {"detach", "attach"}
  BY Zenon, <1>1 DEF Rewriting
<1>3. svc'.old = <<>> /\ svc'.new = <<>> /\ Members(svc'.old) = {} /\ Members(svc'.new) = {}
  BY Zenon, <1>1, <1>2, MembersEmpty DEF CleanFacts
<1>4. Agrees(filters', svc'.old) /\ \A f \in Members(svc'.old) : ~f.hidden
  BY Zenon, <1>3 DEF Agrees
<1>5. Agrees(filters', svc'.ids)
  <2> SUFFICES ASSUME NEW f \in Members(filters), NEW g \in Members(filters), f.id = g.id
               PROVE  f = g
    BY Zenon, <1>1 DEF Agrees
  <2>1. PICK i \in 1 .. Len(filters), j \in 1 .. Len(filters) : f = filters[i] /\ g = filters[j]
    BY Zenon DEF Members
  <2> QED
    BY Zenon, <2>1 DEF CgroupInv, NumbersInv
<1>6. Len(filters') = Len(runtime')
  BY Zenon, <1>1, <1>2 DEF CleanFacts
<1>7. \A f \in Members(runtime') : (f.hidden => f \in Members(filters')) /\ Covers(filters', f.base)
  BY Zenon, <1>1, <1>2 DEF CleanFacts
<1>8. svc'.pc # "load" /\ svc'.pc # "detach" /\ svc'.pc # "attach" /\ svc'.pc \in Rewriting
  BY Zenon, <1>1 DEF Rewriting
<1> QED
  BY Zenon, <1>1, <1>2, <1>4, <1>5, <1>6, <1>7, <1>8 DEF CleanFacts

(* A filter that is read is one of those attached. *)
LEMMA CleanProgram ==
  ASSUME CgroupInv, CleanFacts, clean', NewProgramFromID
  PROVE  CleanFacts'
<1>0. svc.pc = "find" /\ runtime' = runtime /\ filters' = filters /\ svc.ids \in Seq(Known) /\ svc.old \in Seq(Known)
  BY Zenon, ProgramEffect DEF CgroupInv, TypeInv, SvcType, Frame
<1>1. svc.pc \notin {"detach", "attach"} /\ svc.pc \in {"find", "load", "detach"} /\ svc.new = <<>>
  BY Zenon, <1>0 DEF CgroupInv, RequestInv
<1>2. /\ Len(filters') = Len(runtime')
      /\ \A f \in Members(runtime') : (f.hidden => f \in Members(filters')) /\ Covers(filters', f.base)
      /\ Agrees(filters, svc.old) /\ Agrees(filters, svc.ids) /\ \A f \in Members(svc.old) : ~f.hidden
  BY Zenon, <1>0, <1>1 DEF CleanFacts
<1>3. CASE svc.ids = <<>> /\ svc'.pc = "load" /\ SameFilters
  <2>1. svc'.pc \notin {"detach", "attach"} /\ svc'.pc # "find" /\ svc'.pc # "detach" /\ svc'.pc # "attach"
        /\ svc'.pc \in Rewriting /\ svc'.new = <<>> /\ svc'.old = svc.old
    BY Zenon, <1>1, <1>3 DEF SameFilters, Rewriting
  <2>2. Agrees(filters', svc'.old) /\ \A f \in Members(svc'.old) : ~f.hidden
    BY Zenon, <1>0, <1>2, <2>1
  <2>3. 1 .. Len(svc'.new) = {}
    BY <2>1
  <2> QED
    BY Zenon, <1>2, <2>1, <2>2, <2>3 DEF CleanFacts
<1>4. CASE /\ svc.ids # <<>> /\ svc'.pc = "find" /\ svc'.ids = Tail(svc.ids) /\ svc'.new = svc.new
           /\ svc'.old = IF Head(svc.ids).hidden THEN svc.old ELSE Append(svc.old, Head(svc.ids))
  <2>1. /\ Members(svc'.ids) \subseteq Members(svc.ids) /\ Head(svc.ids) \in Members(svc.ids)
    BY Zenon, <1>0, <1>4, MembersTail
  <2>2. Head(svc.ids) \in Known
    BY Zenon, <1>0, <1>4, HeadTailProperties
  <2>3. \A f \in Members(svc'.old) : f \in Members(svc.old) \/ (f \in Members(svc.ids) /\ ~f.hidden)
    <3>1. Members(Append(svc.old, Head(svc.ids))) = Members(svc.old) \cup {Head(svc.ids)}
      BY <1>0, <2>2, MembersAppend
    <3> QED
      BY Zenon, <1>4, <2>1, <3>1
  <2>4. Agrees(filters', svc'.old) /\ Agrees(filters', svc'.ids) /\ \A f \in Members(svc'.old) : ~f.hidden
    BY Zenon, <1>0, <1>2, <2>1, <2>3 DEF Agrees
  <2>5. svc'.pc \notin {"detach", "attach"} /\ svc'.pc # "load" /\ svc'.pc # "detach" /\ svc'.pc # "attach"
        /\ svc'.pc \in Rewriting
    BY Zenon, <1>4 DEF Rewriting
  <2> QED
    BY Zenon, <1>2, <2>4, <2>5 DEF CleanFacts
<1> QED
  BY Zenon, <1>3, <1>4, ProgramEffect DEF CgroupInv, Failed

(* The new filters have the bases of the old ones so far. *)
LEMMA CleanGenerate ==
  ASSUME CgroupInv, CleanFacts, clean', generateNewProgram
  PROVE  CleanFacts'
<1>0. /\ svc.pc = "load" /\ runtime' = runtime /\ filters' = filters /\ svc.new \in Seq(Known)
      /\ svc'.pc = "load" /\ svc'.old = svc.old
      /\ \E f \in Known, i \in 1 .. Len(svc.old) :
           i = Len(svc.new) + 1 /\ f.base = svc.old[i].base /\ svc'.new = Append(svc.new, f)
  BY Zenon, GenerateEffect DEF CgroupInv, TypeInv, SvcType, Frame, Failed
<1>1. svc.pc \notin {"detach", "attach"} /\ svc.pc \in {"find", "load", "detach"}
      /\ svc.pc # "find" /\ svc.pc # "detach" /\ svc.pc # "attach" /\ svc.pc \in Rewriting
  BY Zenon, <1>0 DEF Rewriting
<1>2. /\ Len(filters') = Len(runtime')
      /\ \A f \in Members(runtime') : (f.hidden => f \in Members(filters')) /\ Covers(filters', f.base)
      /\ Agrees(filters', svc'.old) /\ \A f \in Members(svc'.old) : ~f.hidden
      /\ \A k \in 1 .. Len(svc.new) : k <= Len(svc.old) /\ svc.new[k].base = svc.old[k].base
  BY Zenon, <1>0, <1>1 DEF CleanFacts
<1>3. \A k \in 1 .. Len(svc'.new) : k <= Len(svc'.old) /\ svc'.new[k].base = svc'.old[k].base
  <2>1. PICK f \in Known, i \in 1 .. Len(svc.old) :
          i = Len(svc.new) + 1 /\ f.base = svc.old[i].base /\ svc'.new = Append(svc.new, f)
    BY Zenon, <1>0
  <2>2. /\ Len(svc'.new) = Len(svc.new) + 1 /\ svc'.new[i] = f
        /\ \A k \in 1 .. Len(svc.new) : svc'.new[k] = svc.new[k]
    BY <1>0, <2>1, AppendProperties
  <2>3. Len(svc.new) \in Nat
    BY Zenon, <1>0, LenProperties
  <2> QED
    BY <1>0, <1>2, <2>1, <2>2, <2>3
<1> QED
  BY Zenon, <1>0, <1>1, <1>2, <1>3 DEF CleanFacts

(* Before anything is detached, every base is to be put back. *)
LEMMA CleanMemlock ==
  ASSUME CgroupInv, CleanFacts, RaiseMemlock
  PROVE  CleanFacts'
<1>0. /\ svc.pc = "load" /\ runtime' = runtime /\ filters' = filters /\ svc'.pc = "detach"
      /\ svc'.old = svc.old /\ svc'.new = svc.new /\ Len(svc.new) = Len(svc.old)
      /\ svc.old \in Seq(Known) /\ svc.new \in Seq(Known) /\ runtime \in Seq(Filter)
  BY Zenon, MemlockEffect DEF RaiseMemlock, CgroupInv, TypeInv, SvcType, Frame, SameFilters
<1>1. svc.pc \notin {"detach", "attach"} /\ svc.pc \in {"find", "load", "detach"}
  BY Zenon, <1>0
<1>2. /\ Len(filters) = Len(runtime)
      /\ \A f \in Members(runtime') : (f.hidden => f \in Members(filters')) /\ Covers(filters', f.base)
      /\ Agrees(filters', svc'.old) /\ \A f \in Members(svc'.old) : ~f.hidden
      /\ \A k \in 1 .. Len(svc.new) : svc.new[k].base = svc.old[k].base
  BY Zenon, <1>0, <1>1 DEF CleanFacts
<1>3. Len(svc.new) \in Nat /\ Len(svc.old) \in Nat /\ Len(runtime) \in Nat
  BY Zenon, <1>0, LenProperties
<1>4. Len(filters') + Len(svc'.new) = Len(runtime') + Len(svc'.old)
  BY Zenon, <1>0, <1>2
<1>5. \A f \in Members(svc'.old) : Covers(svc'.new, f.base)
  <2> SUFFICES ASSUME NEW f \in Members(svc.old)
               PROVE  Covers(svc.new, f.base)
    BY Zenon, <1>0
  <2>1. PICK k \in 1 .. Len(svc.old) : f = svc.old[k]
    BY Zenon DEF Members
  <2>2. k \in 1 .. Len(svc.new) /\ svc.new[k].base = f.base
    BY Zenon, <1>0, <1>2, <2>1
  <2> QED
    BY Zenon, <2>2 DEF Members, Covers
<1>6. svc'.pc # "find" /\ svc'.pc # "load" /\ svc'.pc # "attach" /\ svc'.pc \in {"detach", "attach"}
      /\ svc'.pc \in Rewriting
  BY Zenon, <1>0 DEF Rewriting
<1> QED
  BY Zenon, <1>2, <1>4, <1>5, <1>6 DEF CleanFacts

(* What is detached is covered by a filter still to be attached. *)
LEMMA CleanDetach ==
  ASSUME CgroupInv, CleanFacts, clean', DetachCgroupDeviceFilter
  PROVE  CleanFacts'
<1>0. /\ svc.pc = "detach" /\ runtime' = runtime /\ filters \in Seq(Known)
      /\ svc.old \in Seq(Known) /\ svc.new \in Seq(Known) /\ runtime \in Seq(Filter)
  BY Zenon, DetachEffect DEF CgroupInv, TypeInv, SvcType
<1>1. svc.pc \in {"detach", "attach"} /\ svc.pc \in {"find", "load", "detach"}
  BY Zenon, <1>0
<1>2. /\ Len(filters) + Len(svc.new) = Len(runtime) + Len(svc.old)
      /\ \A f \in Members(runtime) :
           (f.hidden => f \in Members(filters)) /\ (Covers(filters, f.base) \/ Covers(svc.new, f.base))
      /\ Agrees(filters, svc.old) /\ \A f \in Members(svc.old) : ~f.hidden
      /\ \A f \in Members(svc.old) : Covers(svc.new, f.base)
  BY Zenon, <1>0, <1>1 DEF CleanFacts
<1>3. CASE svc.old = <<>> /\ svc'.pc = "attach" /\ SameFilters /\ filters' = filters
  <2>1. svc'.pc # "find" /\ svc'.pc # "load" /\ svc'.pc # "detach" /\ svc'.pc \in {"detach", "attach"}
        /\ svc'.pc \in Rewriting /\ svc'.pc \notin {"find", "load", "detach"}
    BY Zenon, <1>3 DEF Rewriting
  <2>2. svc'.old = <<>> /\ Len(filters') + Len(svc'.new) = Len(runtime') + Len(svc'.old)
    BY Zenon, <1>0, <1>2, <1>3 DEF SameFilters
  <2>3. \A f \in Members(runtime') :
          (f.hidden => f \in Members(filters')) /\ (Covers(filters', f.base) \/ Covers(svc'.new, f.base))
    BY Zenon, <1>0, <1>2, <1>3 DEF SameFilters
  <2> QED
    BY Zenon, <2>1, <2>2, <2>3 DEF CleanFacts
<1>4. CASE /\ svc.old # <<>> /\ svc'.pc = "detach" /\ svc'.old = Tail(svc.old) /\ svc'.new = svc.new
           /\ \E i \in 1 .. Len(filters) : filters[i].id = Head(svc.old).id /\ filters' = Without(filters, i)
  <2>1. PICK i \in 1 .. Len(filters) : filters[i].id = Head(svc.old).id /\ filters' = Without(filters, i)
    BY Zenon, <1>4
  <2>2. /\ Head(svc.old) \in Members(svc.old) /\ Members(svc'.old) \subseteq Members(svc.old)
        /\ Len(svc'.old) + 1 = Len(svc.old)
    BY Zenon, <1>0, <1>4, MembersTail
  <2>3. /\ Members(filters') \subseteq Members(filters) /\ Members(filters) \subseteq Members(filters') \cup {filters[i]}
        /\ Len(filters') = Len(filters) - 1
    BY Zenon, <1>0, <2>1, MembersWithout, WithoutProperties
  <2>4. filters[i] = Head(svc.old)
    <3>1. filters[i] \in Members(filters)
      BY Zenon DEF Members
    <3> QED
      BY Zenon, <1>2, <2>1, <2>2, <3>1 DEF Agrees
  <2>5. ~filters[i].hidden /\ Covers(svc.new, filters[i].base)
    BY Zenon, <1>2, <2>2, <2>4
  <2>6. \A f \in Members(runtime') :
          (f.hidden => f \in Members(filters')) /\ (Covers(filters', f.base) \/ Covers(svc'.new, f.base))
    BY Zenon, <1>0, <1>2, <1>4, <2>3, <2>5 DEF Covers
  <2>7. /\ Agrees(filters', svc'.old) /\ \A f \in Members(svc'.old) : ~f.hidden
        /\ \A f \in Members(svc'.old) : Covers(svc'.new, f.base)
    BY Zenon, <1>2, <1>4, <2>2, <2>3 DEF Agrees
  <2>8. Len(filters') + Len(svc'.new) = Len(runtime') + Len(svc'.old)
    <3>1. Len(filters) \in Nat /\ Len(svc.new) \in Nat /\ Len(runtime) \in Nat /\ Len(svc.old) \in Nat
          /\ Len(svc'.old) \in Nat
      <4>1. svc'.old \in Seq(Known)
        BY Zenon, <1>0, <1>4, HeadTailProperties
      <4> QED
        BY Zenon, <1>0, <4>1, LenProperties
    <3>2. Len(svc'.new) = Len(svc.new) /\ Len(runtime') = Len(runtime)
      BY Zenon, <1>0, <1>4
    <3>3. Len(filters) + Len(svc.new) = Len(runtime) + Len(svc.old) /\ Len(svc'.old) + 1 = Len(svc.old)
          /\ Len(filters') = Len(filters) - 1
      BY Zenon, <1>2, <2>2, <2>3
    <3>4. (Len(filters) - 1) + Len(svc.new) = Len(runtime) + Len(svc'.old)
      <4> DEFINE a == Len(filters)
                 b == Len(svc.new)
                 c == Len(runtime)
                 d == Len(svc.old)
                 e == Len(svc'.old)
      <4>1. a \in Nat /\ b \in Nat /\ c \in Nat /\ d \in Nat /\ e \in Nat /\ a + b = c + d /\ e + 1 = d
        BY Zenon, <3>1, <3>3
      <4> HIDE DEF a, b, c, d, e
      <4>2. (a - 1) + b = c + e
        BY <4>1
      <4> QED
        BY Zenon, <4>2 DEF a, b, c, d, e
    <3> QED
      BY Zenon, <3>2, <3>3, <3>4
  <2>9. svc'.pc # "find" /\ svc'.pc # "load" /\ svc'.pc # "attach" /\ svc'.pc \in {"detach", "attach"}
        /\ svc'.pc \in Rewriting
    BY Zenon, <1>4 DEF Rewriting
  <2> QED
    BY Zenon, <2>6, <2>7, <2>8, <2>9 DEF CleanFacts
<1> QED
  BY Zenon, <1>3, <1>4, DetachEffect DEF CgroupInv, Failed

(* What is attached covers what the filter generated for it did. *)
LEMMA CleanAttach ==
  ASSUME CgroupInv, CleanFacts, clean', AttachCgroupDeviceFilter
  PROVE  CleanFacts'
<1>0. /\ svc.pc = "attach" /\ runtime' = runtime /\ filters \in Seq(Known)
      /\ svc.old \in Seq(Known) /\ svc.new \in Seq(Known) /\ runtime \in Seq(Filter)
  BY Zenon, AttachEffect DEF CgroupInv, TypeInv, SvcType
<1>1. svc.pc \in {"detach", "attach"}
  BY Zenon, <1>0
<1>2. /\ Len(filters) + Len(svc.new) = Len(runtime) + Len(svc.old) /\ svc.old = <<>>
      /\ \A f \in Members(runtime) :
           (f.hidden => f \in Members(filters)) /\ (Covers(filters, f.base) \/ Covers(svc.new, f.base))
  BY Zenon, <1>0, <1>1 DEF CleanFacts
<1>3. Len(filters) \in Nat /\ Len(svc.new) \in Nat /\ Len(runtime) \in Nat /\ Len(svc.old) = 0
  BY Zenon, <1>0, <1>2, LenProperties, EmptySeq
<1>4. CASE svc.new = <<>> /\ Ended /\ filters' = filters
  <2>1. svc'.pc = "drop" /\ svc'.old = <<>> /\ svc'.new = <<>>
    BY Zenon, <1>2, <1>4 DEF Ended, SameFilters
  <2>2. svc'.pc # "find" /\ svc'.pc # "load" /\ svc'.pc # "detach" /\ svc'.pc # "attach"
        /\ svc'.pc \notin {"find", "load", "detach"}
    BY Zenon, <2>1
  <2>3. Len(filters') = Len(runtime')
    <3>1. Len(svc.new) = 0 /\ Len(filters) + Len(svc.new) = Len(runtime) + Len(svc.old)
      BY Zenon, <1>2, <1>4, EmptySeq
    <3>2. Len(filters) = Len(runtime)
      BY <1>3, <3>1
    <3> QED
      BY Zenon, <1>0, <1>4, <3>2
  <2>4. \A f \in Members(runtime') : (f.hidden => f \in Members(filters')) /\ Covers(filters', f.base)
    BY Zenon, <1>0, <1>2, <1>4, MembersEmpty DEF Covers
  <2> QED
    BY Zenon, <2>1, <2>2, <2>3, <2>4 DEF CleanFacts
<1>5. CASE /\ svc.new # <<>> /\ svc'.pc = "attach" /\ svc'.old = svc.old /\ svc'.new = Tail(svc.new)
           /\ filters' = Append(filters, [Head(svc.new) EXCEPT !.id = NewId])
  <2> DEFINE g == [Head(svc.new) EXCEPT !.id = NewId]
  <2>1. g \in Known /\ g.base = Head(svc.new).base
    <3>1. Head(svc.new) \in Known
      BY Zenon, <1>0, <1>5, HeadTailProperties
    <3>2. NewId \in Nat
      BY DEF NewId, CgroupInv, TypeInv
    <3> QED
      BY <3>1, <3>2 DEF Known, Filter
  <2>2. filters' = Append(filters, g)
    BY Zenon, <1>5
  <2> HIDE DEF g
  <2>3. Members(filters') = Members(filters) \cup {g} /\ Len(filters') = Len(filters) + 1
    BY <1>0, <2>1, <2>2, MembersAppend, AppendProperties
  <2>4. Members(svc.new) = Members(svc'.new) \cup {Head(svc.new)} /\ Len(svc'.new) + 1 = Len(svc.new)
    BY Zenon, <1>0, <1>5, MembersTail
  <2>5. \A f \in Members(runtime') :
          (f.hidden => f \in Members(filters')) /\ (Covers(filters', f.base) \/ Covers(svc'.new, f.base))
    BY Zenon, <1>0, <1>2, <2>1, <2>3, <2>4 DEF Covers
  <2>6. Len(filters') + Len(svc'.new) = Len(runtime') + Len(svc'.old)
    <3>1. svc'.new \in Seq(Known)
      BY Zenon, <1>0, <1>5, HeadTailProperties
    <3>2. Len(svc'.new) \in Nat
      BY Zenon, <3>1, LenProperties
    <3>3. Len(filters) + Len(svc.new) = Len(runtime) + Len(svc.old) /\ Len(filters') = Len(filters) + 1
          /\ Len(svc'.new) + 1 = Len(svc.new) /\ Len(runtime') = Len(runtime) /\ Len(svc'.old) = Len(svc.old)
      BY Zenon, <1>0, <1>2, <1>5, <2>3, <2>4
    <3>4. Len(svc.old) \in Nat
      BY <1>3
    <3>5. (Len(filters) + 1) + Len(svc'.new) = Len(runtime) + Len(svc.old)
      <4> DEFINE a == Len(filters)
                 b == Len(svc.new)
                 c == Len(runtime)
                 d == Len(svc.old)
                 e == Len(svc'.new)
      <4>1. a \in Nat /\ b \in Nat /\ c \in Nat /\ d \in Nat /\ e \in Nat /\ a + b = c + d /\ e + 1 = b
        BY Zenon, <1>3, <3>2, <3>3, <3>4
      <4> HIDE DEF a, b, c, d, e
      <4>2. (a + 1) + e = c + d
        BY <4>1
      <4> QED
        BY Zenon, <4>2 DEF a, b, c, d, e
    <3> QED
      BY Zenon, <3>3, <3>5
  <2>7. svc'.pc # "find" /\ svc'.pc # "load" /\ svc'.pc # "detach" /\ svc'.pc \in {"detach", "attach"}
        /\ svc'.pc \in Rewriting /\ svc'.pc \notin {"find", "load", "detach"} /\ svc'.old = <<>>
    BY Zenon, <1>2, <1>5 DEF Rewriting
  <2> QED
    BY Zenon, <2>5, <2>6, <2>7 DEF CleanFacts
<1> QED
  BY Zenon, <1>4, <1>5, AttachEffect DEF CgroupInv, Failed

(* Every step of a request that has not failed keeps the facts. *)
LEMMA CleanStep ==
  ASSUME CgroupInv, CleanInv, CgroupNext
  PROVE  CleanInv'
<1> SUFFICES ASSUME clean'
             PROVE  CleanFacts'
  BY Zenon DEF CleanInv
<1>0. runtime' = runtime /\ CleanFacts /\ TypeInv /\ StageInv
  BY Zenon, History DEF CleanInv, CgroupInv
<1>a. ASSUME filters' = filters, svc'.old = <<>>, svc'.new = <<>>, svc.pc \in {"idle", "drop"},
             svc'.pc \in {"idle", "raise"}
      PROVE  CleanFacts'
  <2>1. svc.pc \notin Rewriting /\ svc'.pc \notin Rewriting
    BY Zenon, <1>a DEF Rewriting
  <2>2. svc'.old = svc.old /\ svc'.new = svc.new
    BY Zenon, <1>0, <1>a, <2>1 DEF CleanFacts
  <2> QED
    BY Zenon, <1>0, <1>a, <2>1, <2>2, CleanKept
<1>b. <<>> \in Targets /\ Wanted \subseteq Targets
  BY Zenon, DeviceCgroupAssumption DEF Targets
<1>c. ASSUME NEW op \in Ops, NEW d \in Targets, Call(op, d)
      PROVE  CleanFacts'
  <2>1. filters' = filters /\ svc'.old = <<>> /\ svc'.new = <<>> /\ svc.pc = "idle" /\ svc'.pc = "raise"
    BY Zenon, <1>0, <1>c, CallEffect
  <2> QED
    BY Zenon, <1>a, <2>1
<1>1. CASE get_device_cgroup_version \/ find_device_cgroup_path \/ \E d \in Wanted : setup_device_cgroup(d)
  BY Zenon, <1>1, <1>b, <1>c DEF get_device_cgroup_version, find_device_cgroup_path, setup_device_cgroup, Ops
<1>2. CASE GivesUp
  <2>1. svc' = svc /\ filters' = filters
    BY Zenon, <1>2 DEF GivesUp
  <2> QED
    BY Zenon, <1>0, <2>1 DEF CleanFacts, Covers, Agrees
<1>3. CASE \E i \in 1 .. Len(filters) : ManagerReplaces(i)
  BY Zenon, <1>3 DEF ManagerReplaces
<1>4. CASE RaiseCaps \/ GetVersion \/ FindPath \/ AddDeviceRulesV1
  <2>1. filters' = filters /\ SameFilters /\ svc.pc \in {"raise", "version", "path", "setup"}
        /\ svc'.pc \in {"drop"} \cup Ops
    <3>1. CASE RaiseCaps
      <4>1. svc.op \in Ops
        BY Zenon, <1>0, <3>1, RaiseCapsEffect DEF TypeInv, SvcType, StageInv
      <4> QED
        BY Zenon, <1>0, <3>1, <4>1, RaiseCapsEffect DEF Frame, Failed
    <3>2. CASE GetVersion \/ FindPath \/ AddDeviceRulesV1
      BY Zenon, <1>0, <3>2, GetVersionEffect, FindPathEffect, RulesV1Effect DEF Frame, Failed, Ended
    <3> QED
      BY Zenon, <1>4, <3>1, <3>2
  <2>2. svc.pc \notin Rewriting /\ svc'.pc \notin Rewriting
    BY Zenon, <2>1 DEF Rewriting, Ops
  <2> QED
    BY Zenon, <1>0, <2>1, <2>2, CleanKept DEF SameFilters
<1>5. CASE DropCaps
  BY Zenon, <1>0, <1>5, <1>a, DropEffect DEF Emptied
<1> QED
  BY Zenon, <1>0, <1>1, <1>2, <1>3, <1>4, <1>5, CleanFind, CleanProgram, CleanGenerate, CleanMemlock, CleanDetach,
     CleanAttach DEF CgroupNext, ServiceStep

(* Both hold of the filters attached when the container was made. *)
LEMMA ExactInit ==
  ASSUME CgroupInit
  PROVE  AddedInv /\ CleanInv
<1>1. /\ svc.pc = "idle" /\ svc.op = "none" /\ svc.ids = <<>> /\ svc.old = <<>> /\ svc.new = <<>>
      /\ runtime = filters
  BY Zenon DEF CgroupInit
<1>2. \A f \in Members(filters) : f.added = {}
  BY ZenonT(30), DeviceCgroupAssumption DEF CgroupInit, Members
<1>3. AddedInv
  BY Zenon, <1>1, <1>2, MembersEmpty DEF AddedInv, Within
<1>4. svc.pc # "find" /\ svc.pc # "load" /\ svc.pc # "detach" /\ svc.pc # "attach"
      /\ svc.pc \notin {"find", "load", "detach"} /\ svc.pc \notin {"detach", "attach"} /\ svc.pc \notin Rewriting
  BY Zenon, <1>1 DEF Rewriting
<1>5. CleanFacts
  BY Zenon, <1>1, <1>4 DEF CleanFacts, Covers
<1> QED
  BY Zenon, <1>3, <1>5 DEF CleanInv

(* While no request failed, rewriting the filters lets through no more     *)
(* than they did at first and the devices asked for; none is lost, and     *)
(* those AddDeviceRules may not read are left as they are.                 *)
THEOREM RewritingIsExact == CgroupSpec => []RewriteIsExact
<1>1. CgroupInit => AddedInv /\ CleanInv
  BY ExactInit
<1>2. CgroupInv /\ AddedInv /\ CleanInv /\ [CgroupNext]_vars => (AddedInv /\ CleanInv)'
  <2>1. CASE UNCHANGED vars
    <3>1. UNCHANGED <<runtime, filters, svc, requested, clean>>
      BY <2>1, Zenon DEF vars
    <3> QED
      BY Zenon, <3>1 DEF AddedInv, CleanInv, CleanFacts, Covers, Agrees
  <2> QED
    BY Zenon, <2>1, AddedStep, CleanStep
<1>3. CgroupInv /\ AddedInv /\ CleanInv => RewriteIsExact
  <2> SUFFICES ASSUME AddedInv, CleanFacts, svc.pc = "idle"
               PROVE  /\ \A q \in Request :
                           Allowed(q) => \/ \A i \in 1..Len(runtime) : q \in runtime[i].base
                                         \/ q.type = "c" /\ "m" \notin q.access /\ q.dev \in requested
                      /\ Len(filters) = Len(runtime)
                      /\ \A i \in 1..Len(runtime) : runtime[i].hidden =>
                           \E j \in 1..Len(filters) : filters[j] = runtime[i]
    BY Zenon DEF CleanInv, RewriteIsExact, At
  <2>1. /\ Len(filters) = Len(runtime)
        /\ \A f \in Members(runtime) : (f.hidden => f \in Members(filters)) /\ Covers(filters, f.base)
    BY Zenon DEF CleanFacts
  <2>2. \A i \in 1..Len(runtime) : runtime[i].hidden => \E j \in 1..Len(filters) : filters[j] = runtime[i]
    BY Zenon, <2>1 DEF Members
  <2>3. ASSUME NEW q \in Request, Allowed(q), NEW i \in 1..Len(runtime), q \notin runtime[i].base
        PROVE  q.type = "c" /\ "m" \notin q.access /\ q.dev \in requested
    <3>1. runtime[i] \in Members(runtime)
      BY Zenon DEF Members
    <3>2. PICK j \in 1..Len(filters) : filters[j].base = runtime[i].base
      BY ZenonT(30), <2>1, <3>1 DEF Covers, Members
    <3>3. PICK d \in filters[j].added : Matches(d, q)
      BY Zenon, <2>3, <3>2 DEF Allowed, Accepts
    <3>4. filters[j] \in Members(filters)
      BY Zenon DEF Members
    <3>5. d \in requested
      BY Zenon, <3>4 DEF AddedInv, Within
    <3>6. q.access \in {{"r"}, {"w"}, {"r", "w"}, {"m"}}
      BY DEF Request
    <3>7. q.access # {"m"}
      BY Zenon, <3>3 DEF Matches
    <3>8. "m" \notin q.access
      BY <3>6, <3>7
    <3> QED
      BY Zenon, <3>3, <3>5, <3>8 DEF Matches
  <2> QED
    BY Zenon, <2>1, <2>2, <2>3
<1> QED
  BY <1>1, <1>2, <1>3, InvHolds, PTL DEF CgroupSpec
=============================================================================
