---------------------------- MODULE NvStoreProofs ----------------------------
(***************************************************************************)
(* For any items, values and room, and any number of power cuts: the two   *)
(* sectors and their indexes implement NvItems.  The invariant says, for   *)
(* each step of the driver, what the sector it works at already holds, and *)
(* which of the two a start would choose.                                  *)
(***************************************************************************)
EXTENDS NvStore, SequenceTheorems, TLAPS

(* A lookup never misses an item that is there.                            *)
Findable(es, i) == (\E j \in 1 .. Len(es) : Holds(es, i, j)) => Kept(es, i)
Absent(es, i) == \A j \in 1 .. Len(es) : ~ Holds(es, i, j)

LEMMA LenType ==
  ASSUME NEW es \in Seq(Entry)
  PROVE  Len(es) \in Nat
  OBVIOUS

LEMMA NewestIsIndex ==
  ASSUME NEW es \in Seq(Entry), NEW i, NEW j, Newest(es, i, j)
  PROVE  /\ Kept(es, i) /\ Index(es, i) = j
         /\ Lookup(es, i) = es[j].value
<1>0. Len(es) \in Nat /\ j \in 1 .. Len(es)
  BY DEF Newest
<1>1. \A k \in 1 .. Len(es) : Newest(es, i, k) => k = j
  BY <1>0 DEF Newest
<1>2. Kept(es, i)
  BY <1>0 DEF Kept
<1>3. Index(es, i) = j
  BY <1>0, <1>1 DEF Index
<1> QED BY <1>2, <1>3 DEF Lookup

LEMMA KeptIsNewest ==
  ASSUME NEW es \in Seq(Entry), NEW i, Kept(es, i)
  PROVE  Newest(es, i, Index(es, i))
  BY DEF Kept, Index

LEMMA AbsentIsNone ==
  ASSUME NEW es \in Seq(Entry), NEW i, Absent(es, i)
  PROVE  ~ Kept(es, i) /\ Lookup(es, i) = None /\ Findable(es, i)
  BY DEF Absent, Kept, Newest, Lookup, Findable

LEMMA FindableIsAbsentOrKept ==
  ASSUME NEW es \in Seq(Entry), NEW i, Findable(es, i), ~ Kept(es, i)
  PROVE  Absent(es, i)
  BY DEF Findable, Absent

(* Two indexes with the same newest entry of an item hold the same of it.  *)
LEMMA SameNewest ==
  ASSUME NEW es \in Seq(Entry), NEW fs \in Seq(Entry), NEW i,
         Findable(es, i), Absent(es, i) => Absent(fs, i),
         \A j : Newest(es, i, j) => Newest(fs, i, j) /\ fs[j].value = es[j].value
  PROVE  Findable(fs, i) /\ Lookup(fs, i) = Lookup(es, i)
<1>1. CASE Kept(es, i)
  BY <1>1, KeptIsNewest, NewestIsIndex DEF Findable
<1>2. CASE ~ Kept(es, i)
  <2>1. Absent(es, i) /\ Absent(fs, i)
    BY <1>2, FindableIsAbsentOrKept
  <2> QED BY <2>1, AbsentIsNone
<1> QED BY <1>1, <1>2

-----------------------------------------------------------------------------
(* An entry is appended.                                                   *)
LEMMA AppendIs ==
  ASSUME NEW es \in Seq(Entry), NEW e \in Entry
  PROVE  /\ Append(es, e) \in Seq(Entry)
         /\ Len(Append(es, e)) = Len(es) + 1
         /\ \A j \in 1 .. Len(es) : Append(es, e)[j] = es[j]
         /\ Append(es, e)[Len(es) + 1] = e
  OBVIOUS

LEMMA AppendOther ==
  ASSUME NEW es \in Seq(Entry), NEW e \in Entry, NEW i, Findable(es, i),
         ~ (e.state = "valid" /\ e.item = i)
  PROVE  /\ Findable(Append(es, e), i)
         /\ Lookup(Append(es, e), i) = Lookup(es, i)
<1> DEFINE fs == Append(es, e)
<1>1. /\ fs \in Seq(Entry) /\ Len(es) \in Nat /\ Len(fs) = Len(es) + 1
      /\ \A j \in 1 .. Len(es) : fs[j] = es[j]
      /\ fs[Len(es) + 1] = e
  BY AppendIs
<1> HIDE DEF fs
<1>2. \A j \in 1 .. Len(es) : Holds(fs, i, j) <=> Holds(es, i, j)
  BY <1>1 DEF Holds
<1>3. ~ Holds(fs, i, Len(es) + 1)
  BY <1>1 DEF Holds
<1>4. \A j \in 1 .. Len(fs) : j \in 1 .. Len(es) \/ j = Len(es) + 1
  BY <1>1
<1>5. Absent(es, i) => Absent(fs, i)
  BY <1>2, <1>3, <1>4 DEF Absent
<1>6. \A j : Newest(es, i, j) => Newest(fs, i, j) /\ fs[j].value = es[j].value
  BY <1>1, <1>2, <1>3, <1>4 DEF Newest
<1>7. Findable(fs, i) /\ Lookup(fs, i) = Lookup(es, i)
  BY <1>1, <1>5, <1>6, SameNewest
<1> QED BY <1>7 DEF fs

LEMMA AppendItem ==
  ASSUME NEW es \in Seq(Entry), NEW e \in Entry, e.state = "valid"
  PROVE  /\ Newest(Append(es, e), e.item, Len(es) + 1)
         /\ Findable(Append(es, e), e.item)
         /\ Lookup(Append(es, e), e.item) = e.value
<1> DEFINE fs == Append(es, e)
<1>1. /\ fs \in Seq(Entry) /\ Len(es) \in Nat /\ Len(fs) = Len(es) + 1
      /\ fs[Len(es) + 1] = e
  BY AppendIs
<1> HIDE DEF fs
<1>2. Newest(fs, e.item, Len(es) + 1)
  BY <1>1 DEF Newest, Holds
<1>3. Findable(fs, e.item) /\ Lookup(fs, e.item) = e.value
  BY <1>1, <1>2, NewestIsIndex DEF Findable
<1> QED BY <1>2, <1>3 DEF fs

-----------------------------------------------------------------------------
(* An entry is changed in its place.                                       *)
LEMMA ChangeIs ==
  ASSUME NEW es \in Seq(Entry), NEW n \in 1 .. Len(es), NEW e \in Entry
  PROVE  /\ [es EXCEPT ![n] = e] \in Seq(Entry)
         /\ Len([es EXCEPT ![n] = e]) = Len(es)
         /\ [es EXCEPT ![n] = e][n] = e
         /\ \A j \in 1 .. Len(es) : j # n => [es EXCEPT ![n] = e][j] = es[j]
  OBVIOUS

(* An entry that no lookup finds gets another state.                       *)
LEMMA ChangeUnseen ==
  ASSUME NEW es \in Seq(Entry), NEW n \in 1 .. Len(es), NEW e \in Entry, NEW i,
         Findable(es, i),
         ~ (e.state = "valid" /\ e.item = i),
         ~ Newest(es, i, n)
  PROVE  /\ Findable([es EXCEPT ![n] = e], i)
         /\ Lookup([es EXCEPT ![n] = e], i) = Lookup(es, i)
<1> DEFINE fs == [es EXCEPT ![n] = e]
<1>1. /\ fs \in Seq(Entry) /\ Len(es) \in Nat /\ Len(fs) = Len(es)
      /\ fs[n] = e /\ \A j \in 1 .. Len(es) : j # n => fs[j] = es[j]
  BY ChangeIs
<1> HIDE DEF fs
<1>2. \A j \in 1 .. Len(es) : j # n => (Holds(fs, i, j) <=> Holds(es, i, j))
  BY <1>1 DEF Holds
<1>3. ~ Holds(fs, i, n)
  BY <1>1 DEF Holds
<1>5. Absent(es, i) => Absent(fs, i)
  BY <1>1, <1>2, <1>3 DEF Absent
<1>6. \A j : Newest(es, i, j) => Newest(fs, i, j) /\ fs[j].value = es[j].value
  BY <1>1, <1>2, <1>3 DEF Newest
<1>7. Findable(fs, i) /\ Lookup(fs, i) = Lookup(es, i)
  BY <1>1, <1>5, <1>6, SameNewest
<1> QED BY <1>7 DEF fs

(* The last entry becomes valid.                                           *)
LEMMA ChangeLast ==
  ASSUME NEW es \in Seq(Entry), Len(es) \in 1 .. Len(es),
         NEW e \in Entry, e.state = "valid"
  PROVE  /\ Newest([es EXCEPT ![Len(es)] = e], e.item, Len(es))
         /\ Findable([es EXCEPT ![Len(es)] = e], e.item)
         /\ Lookup([es EXCEPT ![Len(es)] = e], e.item) = e.value
<1> DEFINE fs == [es EXCEPT ![Len(es)] = e]
<1>1. /\ fs \in Seq(Entry) /\ Len(es) \in Nat /\ Len(fs) = Len(es)
      /\ fs[Len(es)] = e
  BY ChangeIs
<1> HIDE DEF fs
<1>2. Newest(fs, e.item, Len(es))
  BY <1>1 DEF Newest, Holds
<1>3. Findable(fs, e.item) /\ Lookup(fs, e.item) = e.value
  BY <1>1, <1>2, NewestIsIndex DEF Findable
<1> QED BY <1>2, <1>3 DEF fs

-----------------------------------------------------------------------------
Writing ==
  {"dedup", "copy", "open", "close", "delete", "flag", "retire", "confirm"}

(* Which call is at which step.                                            *)
Calls ==
  /\ pc = "idle" => call = Idle
  /\ pc = "find" => call \in Writes \cup {Read}
  /\ pc \in {"erase0", "erase1"} => call = Reset
  /\ pc \in Writing => call \in Writes

AllFindable == \A s \in Sectors : \A i \in Item : Findable(entries[s], i)

(* The flags, for a change of the sector, and for the first write of all.  *)
First == ~ HasSector /\ opSect = 0
FlagsFit ==
  /\ pc \in {"dedup", "copy", "retire", "confirm"} => opSect # oldSect
  /\ pc \in {"dedup", "copy", "open", "close", "delete", "flag"} /\ opSect # oldSect =>
       flag[oldSect] = "valid" /\ flag[opSect] = "idle"
  /\ pc \in {"open", "close", "delete", "flag"} /\ opSect = oldSect =>
       \/ flag[opSect] = "valid" /\ (opSect = 1 => ~ Usable(0))
       \/ First /\ Len(entries[0]) = IF pc = "open" THEN 0 ELSE 1
  /\ pc = "retire" => flag[opSect] = "ready" /\ flag[oldSect] = "valid"
  /\ pc = "confirm" => flag[opSect] = "ready" /\ flag[oldSect] = "invalid"
  /\ pc = "erase1" => flag[0] = "idle"

(* What the copy of the first n - 1 entries of es into fs has brought.     *)
CopiedTo(es, fs, n, i) ==
  \/ /\ \A j \in 1 .. Len(es) : j < n => ~ Holds(es, i, j)
     /\ Absent(fs, i)
  \/ \E j \in 1 .. Len(es) :
       /\ j < n /\ Holds(es, i, j)
       /\ \A k \in 1 .. Len(es) : k < n /\ Holds(es, i, k) => k <= j
       /\ Kept(fs, i) /\ Lookup(fs, i) = es[j].value

CopyFits ==
  /\ pc = "dedup" => entries[opSect] = <<>>
  /\ pc = "copy" =>
       /\ Len(entries[opSect]) < next /\ Len(entries[opSect]) <= Len(entries[oldSect])
       /\ Absent(entries[opSect], call.item)
       /\ \A i \in Item \ {call.item} :
            CopiedTo(entries[oldSect], entries[opSect], next, i)

(* The other items are already where the written one goes.                 *)
OthersFit ==
  /\ pc \in {"open", "close", "delete", "flag", "retire"} /\ opSect # oldSect =>
       \A i \in Item \ {call.item} : Lookup(entries[opSect], i) = Lookup(entries[oldSect], i)
  /\ pc \in {"open", "close", "delete", "flag"} /\ opSect = oldSect /\ First =>
       \A i \in Item \ {call.item} : Lookup(entries[opSect], i) = None

(* The entry that is written, and the one it replaces.                     *)
ItemFits ==
  /\ pc = "open" => Len(entries[opSect]) < Room
  /\ pc \in {"close", "delete"} =>
       /\ next < Len(entries[opSect])
       /\ next # 0 => Holds(entries[opSect], call.item, next)
  /\ pc = "close" => entries[opSect][Len(entries[opSect])].state = "opened"
  /\ pc = "delete" => Newest(entries[opSect], call.item, Len(entries[opSect]))
  /\ pc \in {"delete", "flag", "retire", "confirm"} =>
       Lookup(entries[opSect], call.item) = call.value

NvInv ==
  NvTypeOK /\ Calls /\ AllFindable /\ FlagsFit /\ CopyFits /\ OthersFit /\ ItemFits

-----------------------------------------------------------------------------
(* Types.                                                                  *)
LEMMA LeftIsEntry == \A s \in {"opened", "torn", "invalid"} : Left(s) \in Entry
  BY DEF Entry

LEMMA SavedIsEntry ==
  ASSUME call \in Writes
  PROVE  Saved(call.item, call.value) \in Entry
  BY DEF Writes, Entry, Saved

LEMMA EraseTypes ==
  ASSUME NvTypeOK, NEW s \in Sectors, Erase(s)
  PROVE  /\ flag' \in [Sectors -> Flags]
         /\ entries' \in [Sectors -> Seq(Entry)]
         /\ \A t \in Sectors : Len(entries'[t]) <= Room
         /\ entries'[s] = <<>> /\ flag'[s] = "idle"
         /\ \A t \in Sectors : t # s => entries'[t] = entries[t] /\ flag'[t] = flag[t]
<1>1. entries' = [entries EXCEPT ![s] = <<>>] /\ flag' = [flag EXCEPT ![s] = "idle"]
  BY DEF Erase
<1>2. Room \in Nat /\ Len(<<>>) = 0 /\ <<>> \in Seq(Entry) /\ "idle" \in Flags
  BY StoreAssumption DEF Flags
<1> QED BY <1>1, <1>2 DEF NvTypeOK

LEMMA EntriesTypes ==
  ASSUME NvTypeOK, NEW s \in Sectors, NEW es \in Seq(Entry), Len(es) <= Room,
         entries' = [entries EXCEPT ![s] = es]
  PROVE  /\ entries' \in [Sectors -> Seq(Entry)]
         /\ \A t \in Sectors : Len(entries'[t]) <= Room
         /\ entries'[s] = es
         /\ \A t \in Sectors : t # s => entries'[t] = entries[t]
  BY DEF NvTypeOK

LEMMA FlagTypes ==
  ASSUME NvTypeOK, NEW s \in Sectors, NEW f \in Flags, flag' = [flag EXCEPT ![s] = f]
  PROVE  /\ flag' \in [Sectors -> Flags]
         /\ flag'[s] = f
         /\ \A t \in Sectors : t # s => flag'[t] = flag[t]
  BY DEF NvTypeOK

LEMMA SectorsAre == \A s \in Sectors : s = 0 \/ s = 1
  BY DEF Sectors

LEMMA RestTypes ==
  ASSUME Done
  PROVE  /\ call' \in Writes \cup {Idle, Read, Reset}
         /\ pc' \in Steps
         /\ opSect' \in Sectors /\ oldSect' \in Sectors /\ next' \in Nat
  BY DEF Done, Steps, Sectors

-----------------------------------------------------------------------------
(* After the last step of a call only the types, and what a lookup finds,  *)
(* are left to show.                                                       *)
LEMMA AtEnd ==
  ASSUME Done, NvTypeOK', AllFindable'
  PROVE  NvInv'
<1>0. pc' = "idle" /\ call' = Idle
  BY DEF Done
<1>1. Calls'
  BY <1>0 DEF Calls, Writing
<1>2. FlagsFit' /\ CopyFits' /\ OthersFit' /\ ItemFits'
  BY <1>0 DEF FlagsFit, CopyFits, OthersFit, ItemFits
<1> QED BY <1>1, <1>2 DEF NvInv

LEMMA EndTypes ==
  ASSUME Done,
         flag' \in [Sectors -> Flags], entries' \in [Sectors -> Seq(Entry)],
         \A t \in Sectors : Len(entries'[t]) <= Room
  PROVE  NvTypeOK'
  BY RestTypes DEF NvTypeOK

LEMMA SameFindable ==
  ASSUME AllFindable, entries' = entries
  PROVE  AllFindable'
  BY DEF AllFindable

LEMMA OneFindable ==
  ASSUME AllFindable, NEW s \in Sectors,
         \A t \in Sectors : t # s => entries'[t] = entries[t],
         \A i \in Item : Findable(entries'[s], i)
  PROVE  AllFindable'
<1> SUFFICES ASSUME NEW t \in Sectors, NEW i \in Item
             PROVE  Findable(entries'[t], i)
  BY DEF AllFindable
<1>1. CASE t = s
  BY <1>1
<1>2. CASE t # s
  BY <1>2 DEF AllFindable
<1> QED BY <1>1, <1>2

LEMMA EmptyFinds ==
  \A i : Absent(<<>>, i) /\ Findable(<<>>, i) /\ Lookup(<<>>, i) = None
<1> SUFFICES ASSUME NEW i
             PROVE  Absent(<<>>, i) /\ Findable(<<>>, i) /\ Lookup(<<>>, i) = None
  OBVIOUS
<1>1. <<>> \in Seq(Entry) /\ Absent(<<>>, i)
  BY DEF Absent
<1> QED BY <1>1, AbsentIsNone

LEMMA EraseFindable ==
  ASSUME NvTypeOK, AllFindable, NEW s \in Sectors, Erase(s)
  PROVE  AllFindable'
  BY EraseTypes, OneFindable, EmptyFinds

-----------------------------------------------------------------------------
(* The steps that end a call.                                              *)
LEMMA ReadInv == ASSUME NvInv, nv_flashReadNew PROVE NvInv'
<1>1. Done /\ flag' = flag /\ entries' = entries
  BY DEF nv_flashReadNew, flash
<1>2. NvTypeOK' /\ AllFindable'
  BY <1>1, EndTypes, SameFindable DEF NvInv, NvTypeOK
<1> QED BY <1>1, <1>2, AtEnd

LEMMA SameFlagInv == ASSUME NvInv, SameFlag PROVE NvInv'
<1>1. Done /\ entries' = entries
  BY DEF SameFlag
<1>2. flag' \in [Sectors -> Flags]
  BY FlagTypes DEF NvInv, NvTypeOK, SameFlag, Flags
<1>3. NvTypeOK' /\ AllFindable'
  BY <1>1, <1>2, EndTypes, SameFindable DEF NvInv, NvTypeOK
<1> QED BY <1>1, <1>3, AtEnd

LEMMA ConfirmInv == ASSUME NvInv, ConfirmFlag PROVE NvInv'
<1>1. Done /\ entries' = entries
  BY DEF ConfirmFlag
<1>2. flag' \in [Sectors -> Flags]
  BY FlagTypes DEF NvInv, NvTypeOK, ConfirmFlag, Flags
<1>3. NvTypeOK' /\ AllFindable'
  BY <1>1, <1>2, EndTypes, SameFindable DEF NvInv, NvTypeOK
<1> QED BY <1>1, <1>3, AtEnd

LEMMA EraseSecondInv == ASSUME NvInv, EraseSecond PROVE NvInv'
<1>1. Done /\ Erase(1) /\ 1 \in Sectors
  BY DEF EraseSecond, Sectors
<1>2. NvTypeOK' /\ AllFindable'
  BY <1>1, EraseTypes, EraseFindable, EndTypes DEF NvInv
<1> QED BY <1>1, <1>2, AtEnd

(* Of an entry that is torn no lookup sees anything.                       *)
LEMMA TornEntries ==
  ASSUME NvInv, PowerFails, entries' # entries
  PROVE  /\ NvTypeOK' /\ pc \in {"open", "close"}
         /\ \A t \in Sectors : t # opSect => entries'[t] = entries[t]
         /\ \A i \in Item : /\ Findable(entries'[opSect], i)
                            /\ Lookup(entries'[opSect], i) = Lookup(entries[opSect], i)
<1> DEFINE es == entries[opSect]
           torn == Left("torn")
<1>0. /\ Done /\ flag' = flag /\ opSect \in Sectors /\ NvTypeOK
      /\ es \in Seq(Entry) /\ Len(es) \in Nat /\ Len(es) <= Room
      /\ torn \in Entry /\ torn.state = "torn"
      /\ \A i \in Item : Findable(es, i)
  <2>1. torn \in Entry /\ torn.state = "torn"
    BY LeftIsEntry DEF Left
  <2>2. Done /\ flag' = flag /\ opSect \in Sectors /\ NvTypeOK
    BY DEF PowerFails, NvInv, NvTypeOK
  <2>3. es \in Seq(Entry) /\ Len(es) <= Room /\ \A i \in Item : Findable(es, i)
    BY <2>2 DEF NvInv, NvTypeOK, AllFindable
  <2> QED BY <2>1, <2>2, <2>3, LenType
<1>1. CASE /\ pc = "open"
           /\ entries' = [entries EXCEPT ![opSect] = Append(@, Left("torn"))]
  <2> DEFINE fs == Append(es, torn)
  <2>1. entries' = [entries EXCEPT ![opSect] = fs]
    BY <1>1
  <2>2. Len(es) < Room /\ Room \in Nat
    BY <1>1, StoreAssumption DEF NvInv, ItemFits
  <2>3. fs \in Seq(Entry) /\ Len(fs) <= Room
    BY <1>0, <2>2, AppendIs
  <2>4. \A i \in Item : Findable(fs, i) /\ Lookup(fs, i) = Lookup(es, i)
    BY <1>0, AppendOther
  <2> HIDE DEF fs
  <2>5. /\ entries' \in [Sectors -> Seq(Entry)]
        /\ \A t \in Sectors : Len(entries'[t]) <= Room
        /\ entries'[opSect] = fs
        /\ \A t \in Sectors : t # opSect => entries'[t] = entries[t]
    BY <1>0, <2>1, <2>3, EntriesTypes
  <2>6. NvTypeOK'
    BY <1>0, <2>5, EndTypes DEF NvTypeOK
  <2> QED BY <1>1, <2>4, <2>5, <2>6
<1>2. CASE /\ pc = "close"
           /\ entries' = [entries EXCEPT ![opSect][Len(entries[opSect])] = Left("torn")]
  <2> DEFINE fs == [es EXCEPT ![Len(es)] = torn]
  <2>1. entries' = [entries EXCEPT ![opSect] = fs]
    BY <1>2
  <2>2. next < Len(es) /\ next \in Nat /\ es[Len(es)].state = "opened"
    BY <1>2 DEF NvInv, ItemFits, NvTypeOK
  <2>2a. Len(es) \in 1 .. Len(es)
    BY <1>0, <2>2
  <2>3. fs \in Seq(Entry) /\ Len(fs) <= Room
    BY <1>0, <2>2a, ChangeIs
  <2>4. \A i \in Item : Findable(fs, i) /\ Lookup(fs, i) = Lookup(es, i)
    <3>1. \A i : ~ Newest(es, i, Len(es))
      BY <2>2 DEF Newest, Holds
    <3> QED BY <1>0, <2>2a, <3>1, ChangeUnseen
  <2> HIDE DEF fs
  <2>5. /\ entries' \in [Sectors -> Seq(Entry)]
        /\ \A t \in Sectors : Len(entries'[t]) <= Room
        /\ entries'[opSect] = fs
        /\ \A t \in Sectors : t # opSect => entries'[t] = entries[t]
    BY <1>0, <2>1, <2>3, EntriesTypes
  <2>6. NvTypeOK'
    BY <1>0, <2>5, EndTypes DEF NvTypeOK
  <2> QED BY <1>2, <2>4, <2>5, <2>6
<1> QED BY <1>1, <1>2 DEF PowerFails

LEMMA PowerFailsInv == ASSUME NvInv, PowerFails PROVE NvInv'
<1>0. Done /\ flag' = flag /\ opSect \in Sectors
  BY DEF PowerFails, NvInv, NvTypeOK
<1>1. CASE entries' = entries
  <2>1. NvTypeOK' /\ AllFindable'
    BY <1>0, <1>1, EndTypes, SameFindable DEF NvInv, NvTypeOK
  <2> QED BY <1>0, <2>1, AtEnd
<1>2. CASE entries' # entries
  <2>1. NvTypeOK' /\ AllFindable'
    BY <1>0, <1>2, TornEntries, OneFindable DEF NvInv
  <2> QED BY <1>0, <2>1, AtEnd
<1> QED BY <1>1, <1>2

-----------------------------------------------------------------------------
(* The call, and the choice of the sector.                                 *)
LEMMA CalledInv == ASSUME NvInv, Called PROVE NvInv'
<1>0. /\ pc' \in {"find", "erase0"} /\ UNCHANGED <<flag, entries, opSect, oldSect, next>>
      /\ call' \in Writes \cup {Read, Reset}
      /\ pc' = "erase0" => call' = Reset
      /\ pc' = "find" => call' # Reset
  BY DEF Called, flash
<1>1. NvTypeOK'
  BY <1>0 DEF NvInv, NvTypeOK, Steps
<1>2. Calls'
  BY <1>0 DEF Calls, Writing
<1>3. AllFindable'
  BY <1>0, SameFindable DEF NvInv
<1>4. FlagsFit' /\ CopyFits' /\ OthersFit' /\ ItemFits'
  BY <1>0 DEF FlagsFit, CopyFits, OthersFit, ItemFits
<1> QED BY <1>1, <1>2, <1>3, <1>4 DEF NvInv

LEMMA TakesOverInv == ASSUME NvInv, TakesOver PROVE NvInv'
<1>0. pc' = "find" /\ pc = "find" /\ UNCHANGED <<entries, call, opSect, oldSect, next>>
  BY DEF TakesOver, ram
<1>1. NvTypeOK'
  <2>1. Sector \in Sectors /\ Other(Sector) \in Sectors
    BY DEF Sector, Other, Sectors
  <2>2. flag' \in [Sectors -> Flags]
    BY <2>1 DEF TakesOver, NvInv, NvTypeOK, Flags
  <2> QED BY <1>0, <2>2 DEF NvInv, NvTypeOK
<1>2. Calls'
  BY <1>0 DEF Calls, Writing, NvInv
<1>3. AllFindable'
  BY <1>0, SameFindable DEF NvInv
<1>4. FlagsFit' /\ CopyFits' /\ OthersFit' /\ ItemFits'
  BY <1>0 DEF FlagsFit, CopyFits, OthersFit, ItemFits
<1> QED BY <1>1, <1>2, <1>3, <1>4 DEF NvInv

LEMMA NoSectorInv == ASSUME NvInv, NoSector PROVE NvInv'
<1>0. /\ pc = "find" /\ pc' = "open" /\ call' = call /\ call # Read /\ next' = next
      /\ opSect' = 0 /\ oldSect' = 0 /\ 0 \in Sectors /\ Erase(0) /\ NvTypeOK
      /\ ~ HasSector
  BY DEF NoSector, Sectors, NvInv
<1>1. NvTypeOK'
  BY <1>0, EraseTypes DEF NvTypeOK, Steps
<1>2. Calls'
  BY <1>0 DEF Calls, Writing, NvInv
<1>3. AllFindable'
  BY <1>0, EraseFindable DEF NvInv
<1>4. FlagsFit'
  <2>1. flag'[0] = "idle" /\ \A t \in Sectors : t # 0 => flag'[t] = flag[t]
    BY <1>0, EraseTypes
  <2>2. ~ HasSector'
    BY <1>0, <2>1 DEF HasSector, Usable
  <2>3. entries'[0] = <<>> /\ Len(<<>>) = 0
    BY <1>0, EraseTypes
  <2> QED BY <1>0, <2>2, <2>3 DEF FlagsFit, First
<1>5. CopyFits' /\ OthersFit' /\ ItemFits'
  <2>1. entries'[0] = <<>> /\ Len(<<>>) = 0
    BY <1>0, EraseTypes
  <2>2. CopyFits'
    BY <1>0 DEF CopyFits
  <2>3. OthersFit'
    BY <1>0, <2>1, EmptyFinds DEF OthersFit
  <2>4. ItemFits'
    BY <1>0, <2>1, StoreAssumption DEF ItemFits
  <2> QED BY <2>2, <2>3, <2>4
<1> QED BY <1>1, <1>2, <1>3, <1>4, <1>5 DEF NvInv

LEMMA SectorFacts ==
  ASSUME HasSector, NvTypeOK
  PROVE  /\ Sector \in Sectors /\ Usable(Sector)
         /\ Sector = 1 => ~ Usable(0)
         /\ Other(Sector) \in Sectors /\ Other(Sector) # Sector
  BY DEF HasSector, Sector, Sectors, Other, Usable

LEMMA SameSectorInv == ASSUME NvInv, SameSector PROVE NvInv'
<1>0. /\ pc = "find" /\ pc' = "open" /\ call' = call /\ call # Read /\ next' = next
      /\ opSect' = Sector /\ oldSect' = Sector /\ UNCHANGED <<flag, entries>>
      /\ HasSector /\ Appends(Sector) /\ Sector \in Sectors /\ NvTypeOK
      /\ flag[Sector] = "valid" /\ (Sector = 1 => ~ Usable(0))
  BY SectorFacts DEF SameSector, NvInv, Found, flash
<1>1. NvTypeOK'
  BY <1>0 DEF NvTypeOK, Steps
<1>2. Calls'
  BY <1>0 DEF Calls, Writing, NvInv
<1>3. AllFindable'
  BY <1>0, SameFindable DEF NvInv
<1>4. FlagsFit'
  BY <1>0 DEF FlagsFit, Usable
<1>5. CopyFits' /\ OthersFit' /\ ItemFits'
  BY <1>0 DEF CopyFits, OthersFit, ItemFits, Appends, First, HasSector, Usable
<1> QED BY <1>1, <1>2, <1>3, <1>4, <1>5 DEF NvInv

LEMMA SectorUpdateInv == ASSUME NvInv, SectorUpdate PROVE NvInv'
<1>0. /\ pc = "find" /\ pc' = "dedup" /\ call' = call /\ call # Read /\ next' = next
      /\ opSect' = Other(Sector) /\ oldSect' = Sector /\ Erase(Other(Sector))
      /\ HasSector /\ Sector \in Sectors /\ Other(Sector) \in Sectors
      /\ Other(Sector) # Sector /\ NvTypeOK /\ flag[Sector] = "valid"
  BY SectorFacts DEF SectorUpdate, NvInv, Found
<1>1. NvTypeOK'
  BY <1>0, EraseTypes DEF NvTypeOK, Steps
<1>2. Calls'
  BY <1>0 DEF Calls, Writing, NvInv
<1>3. AllFindable'
  BY <1>0, EraseFindable DEF NvInv
<1>4. FlagsFit'
  BY <1>0, EraseTypes DEF FlagsFit
<1>5. CopyFits' /\ OthersFit' /\ ItemFits'
  BY <1>0, EraseTypes DEF CopyFits, OthersFit, ItemFits
<1> QED BY <1>1, <1>2, <1>3, <1>4, <1>5 DEF NvInv

LEMMA EraseFirstInv == ASSUME NvInv, EraseFirst PROVE NvInv'
<1>0. /\ pc = "erase0" /\ pc' = "erase1" /\ UNCHANGED <<call, opSect, oldSect, next>>
      /\ 0 \in Sectors /\ Erase(0) /\ NvTypeOK
  BY DEF EraseFirst, Sectors, NvInv
<1>1. NvTypeOK'
  BY <1>0, EraseTypes DEF NvTypeOK, Steps
<1>2. Calls'
  BY <1>0 DEF Calls, Writing, NvInv
<1>3. AllFindable'
  BY <1>0, EraseFindable DEF NvInv
<1>4. FlagsFit'
  BY <1>0, EraseTypes DEF FlagsFit
<1>5. CopyFits' /\ OthersFit' /\ ItemFits'
  BY <1>0 DEF CopyFits, OthersFit, ItemFits
<1> QED BY <1>1, <1>2, <1>3, <1>4, <1>5 DEF NvInv

-----------------------------------------------------------------------------
(* The flags of a change.                                                  *)
LEMMA ReadyFlagInv == ASSUME NvInv, ReadyFlag PROVE NvInv'
<1>0. /\ pc = "flag" /\ pc' = "retire" /\ UNCHANGED <<entries, call, opSect, oldSect, next>>
      /\ opSect \in Sectors /\ oldSect \in Sectors /\ opSect # oldSect /\ NvTypeOK
      /\ flag' = [flag EXCEPT ![opSect] = "ready"] /\ "ready" \in Flags
  BY DEF ReadyFlag, Flags, NvInv, NvTypeOK
<1>1. NvTypeOK'
  BY <1>0, FlagTypes DEF NvTypeOK, Steps
<1>2. Calls'
  BY <1>0 DEF Calls, Writing, NvInv
<1>3. AllFindable'
  BY <1>0, SameFindable DEF NvInv
<1>4. FlagsFit'
  BY <1>0, FlagTypes DEF FlagsFit, NvInv
<1>5. CopyFits' /\ OthersFit' /\ ItemFits'
  BY <1>0 DEF CopyFits, OthersFit, ItemFits, NvInv
<1> QED BY <1>1, <1>2, <1>3, <1>4, <1>5 DEF NvInv

LEMMA RetireFlagInv == ASSUME NvInv, RetireFlag PROVE NvInv'
<1>0. /\ pc = "retire" /\ pc' = "confirm" /\ UNCHANGED <<entries, call, opSect, oldSect, next>>
      /\ opSect \in Sectors /\ oldSect \in Sectors /\ opSect # oldSect /\ NvTypeOK
      /\ flag' = [flag EXCEPT ![oldSect] = "invalid"] /\ "invalid" \in Flags
  BY DEF RetireFlag, Flags, NvInv, NvTypeOK, FlagsFit
<1>1. NvTypeOK'
  BY <1>0, FlagTypes DEF NvTypeOK, Steps
<1>2. Calls'
  BY <1>0 DEF Calls, Writing, NvInv
<1>3. AllFindable'
  BY <1>0, SameFindable DEF NvInv
<1>4. FlagsFit'
  BY <1>0, FlagTypes DEF FlagsFit, NvInv
<1>5. CopyFits' /\ OthersFit' /\ ItemFits'
  BY <1>0 DEF CopyFits, OthersFit, ItemFits, NvInv
<1> QED BY <1>1, <1>2, <1>3, <1>4, <1>5 DEF NvInv

-----------------------------------------------------------------------------
(* The change of the sector: the copies nobody sees are deleted, the other *)
(* items copied.                                                           *)
LEMMA ShadowedUnseen ==
  ASSUME NEW es \in Seq(Entry), NEW n \in Shadowed(es)
  PROVE  /\ n \in 1 .. Len(es)
         /\ \A i : ~ Newest(es, i, n)
<1>1. PICK k \in 1 .. Len(es) : k > n /\ Holds(es, es[n].item, k)
  BY DEF Shadowed
<1>2. n \in 1 .. Len(es)
  BY DEF Shadowed
<1> QED BY <1>1, <1>2, LenType DEF Newest, Holds

LEMMA DedupEntries ==
  ASSUME NvInv, Dedup
  PROVE  /\ NvTypeOK' /\ pc = "dedup" /\ UNCHANGED <<flag, ram>>
         /\ opSect \in Sectors /\ oldSect \in Sectors /\ opSect # oldSect
         /\ \A t \in Sectors : t # oldSect => entries'[t] = entries[t]
         /\ \A i \in Item : /\ Findable(entries'[oldSect], i)
                            /\ Lookup(entries'[oldSect], i) = Lookup(entries[oldSect], i)
<1> DEFINE es == entries[oldSect]
           gone == Left("invalid")
<1>0. /\ NvTypeOK /\ pc = "dedup" /\ UNCHANGED <<flag, ram>>
      /\ opSect \in Sectors /\ oldSect \in Sectors /\ opSect # oldSect
      /\ es \in Seq(Entry) /\ Len(es) <= Room
      /\ \A i \in Item : Findable(es, i)
  BY DEF NvInv, NvTypeOK, Dedup, FlagsFit, AllFindable
<1>1. gone \in Entry /\ gone.state = "invalid"
  BY LeftIsEntry DEF Left
<1>2. PICK n \in Shadowed(es) : entries' = [entries EXCEPT ![oldSect][n] = gone]
  BY DEF Dedup
<1> HIDE DEF gone
<1>3. n \in 1 .. Len(es) /\ \A i : ~ Newest(es, i, n)
  BY <1>0, <1>2, ShadowedUnseen
<1> DEFINE fs == [es EXCEPT ![n] = gone]
<1>4. entries' = [entries EXCEPT ![oldSect] = fs]
  BY <1>2
<1>5. fs \in Seq(Entry) /\ Len(fs) <= Room
  BY <1>0, <1>1, <1>3, ChangeIs
<1>6. \A i \in Item : Findable(fs, i) /\ Lookup(fs, i) = Lookup(es, i)
  BY <1>0, <1>1, <1>3, ChangeUnseen
<1> HIDE DEF fs
<1>7. /\ entries' \in [Sectors -> Seq(Entry)]
      /\ \A t \in Sectors : Len(entries'[t]) <= Room
      /\ entries'[oldSect] = fs
      /\ \A t \in Sectors : t # oldSect => entries'[t] = entries[t]
  BY <1>0, <1>4, <1>5, EntriesTypes
<1>8. NvTypeOK'
  BY <1>0, <1>7 DEF NvTypeOK, ram
<1> QED BY <1>0, <1>6, <1>7, <1>8

LEMMA DedupInv == ASSUME NvInv, Dedup PROVE NvInv'
<1>0. /\ NvTypeOK' /\ pc = "dedup"
      /\ UNCHANGED <<flag, call, pc, opSect, oldSect, next>>
      /\ opSect \in Sectors /\ oldSect \in Sectors /\ opSect # oldSect
      /\ \A t \in Sectors : t # oldSect => entries'[t] = entries[t]
      /\ \A i \in Item : Findable(entries'[oldSect], i)
  BY DedupEntries DEF ram
<1>2. Calls'
  BY <1>0 DEF Calls, Writing, NvInv
<1>3. AllFindable'
  BY <1>0, OneFindable DEF NvInv
<1>4. FlagsFit'
  BY <1>0 DEF FlagsFit, NvInv
<1>5. CopyFits' /\ OthersFit' /\ ItemFits'
  BY <1>0 DEF CopyFits, OthersFit, ItemFits, NvInv
<1> QED BY <1>0, <1>2, <1>3, <1>4, <1>5 DEF NvInv

LEMMA DedupEndsInv == ASSUME NvInv, DedupEnds PROVE NvInv'
<1>0. /\ pc = "dedup" /\ pc' = "copy" /\ next' = 1
      /\ UNCHANGED <<flag, entries, call, opSect, oldSect>>
      /\ opSect \in Sectors /\ oldSect \in Sectors /\ NvTypeOK
      /\ opSect # oldSect /\ entries[opSect] = <<>> /\ Len(<<>>) = 0
  BY DEF DedupEnds, flash, NvInv, NvTypeOK, CopyFits, FlagsFit
<1>1. NvTypeOK'
  BY <1>0 DEF NvTypeOK, Steps
<1>2. Calls'
  BY <1>0 DEF Calls, Writing, NvInv
<1>3. AllFindable'
  BY <1>0, SameFindable DEF NvInv
<1>4. FlagsFit'
  BY <1>0 DEF FlagsFit, NvInv
<1>5. CopyFits'
  <2>1. Len(entries[oldSect]) \in Nat
    BY <1>0 DEF NvTypeOK
  <2>2. \A i : CopiedTo(entries[oldSect], <<>>, 1, i)
    <3> SUFFICES ASSUME NEW i PROVE CopiedTo(entries[oldSect], <<>>, 1, i)
      OBVIOUS
    <3>1. \A j \in 1 .. Len(entries[oldSect]) : ~ (j < 1)
      BY <2>1
    <3> QED BY <3>1, EmptyFinds DEF CopiedTo
  <2>3. Absent(<<>>, call.item)
    BY EmptyFinds
  <2> QED BY <1>0, <2>1, <2>2, <2>3 DEF CopyFits
<1>6. OthersFit' /\ ItemFits'
  BY <1>0 DEF OthersFit, ItemFits
<1> QED BY <1>1, <1>2, <1>3, <1>4, <1>5, <1>6 DEF NvInv

(* The next entry is another item, a copy nobody may see, or to be copied. *)
LEMMA CopyPasses ==
  ASSUME NEW es \in Seq(Entry), NEW fs \in Seq(Entry), NEW n \in 1 .. Len(es), NEW i,
         CopiedTo(es, fs, n, i), ~ Holds(es, i, n)
  PROVE  CopiedTo(es, fs, n + 1, i)
<1>0. Len(es) \in Nat /\ n \in Nat
      /\ \A j \in 1 .. Len(es) : j < n + 1 => j < n \/ j = n
  BY LenType
<1>1. CASE /\ \A j \in 1 .. Len(es) : j < n => ~ Holds(es, i, j)
           /\ Absent(fs, i)
  BY <1>0, <1>1 DEF CopiedTo
<1>2. ASSUME NEW j \in 1 .. Len(es),
             j < n, Holds(es, i, j),
             \A k \in 1 .. Len(es) : k < n /\ Holds(es, i, k) => k <= j,
             Kept(fs, i), Lookup(fs, i) = es[j].value
      PROVE  CopiedTo(es, fs, n + 1, i)
  <2>1. j < n + 1 /\ \A k \in 1 .. Len(es) : k < n + 1 /\ Holds(es, i, k) => k <= j
    BY <1>0, <1>2
  <2> QED BY <1>2, <2>1 DEF CopiedTo
<1> QED BY <1>1, <1>2 DEF CopiedTo

LEMMA CopyKeeps ==
  ASSUME NEW es \in Seq(Entry), NEW fs \in Seq(Entry), NEW gs \in Seq(Entry), NEW n, NEW i,
         CopiedTo(es, fs, n, i),
         Absent(fs, i) => Absent(gs, i), Kept(fs, i) => Kept(gs, i),
         Lookup(gs, i) = Lookup(fs, i)
  PROVE  CopiedTo(es, gs, n, i)
  BY DEF CopiedTo

LEMMA CopyBrings ==
  ASSUME NEW es \in Seq(Entry), NEW fs \in Seq(Entry), NEW n \in 1 .. Len(es), NEW i,
         Holds(es, i, n), Kept(fs, i), Lookup(fs, i) = es[n].value
  PROVE  CopiedTo(es, fs, n + 1, i)
<1>0. Len(es) \in Nat /\ n \in Nat /\ n < n + 1
      /\ \A k \in 1 .. Len(es) : k < n + 1 => k <= n
  BY LenType
<1> QED BY <1>0 DEF CopiedTo

LEMMA AppendAbsent ==
  ASSUME NEW es \in Seq(Entry), NEW e \in Entry, NEW i, Absent(es, i),
         ~ (e.state = "valid" /\ e.item = i)
  PROVE  Absent(Append(es, e), i)
<1> DEFINE fs == Append(es, e)
<1>1. /\ Len(es) \in Nat /\ Len(fs) = Len(es) + 1
      /\ \A j \in 1 .. Len(es) : fs[j] = es[j]
      /\ fs[Len(es) + 1] = e
  BY AppendIs
<1> HIDE DEF fs
<1>2. \A j \in 1 .. Len(fs) : j \in 1 .. Len(es) \/ j = Len(es) + 1
  BY <1>1
<1>3. Absent(fs, i)
  BY <1>1, <1>2 DEF Absent, Holds
<1> QED BY <1>3 DEF fs

LEMMA AppendKept ==
  ASSUME NEW es \in Seq(Entry), NEW e \in Entry, NEW i, Kept(es, i),
         ~ (e.state = "valid" /\ e.item = i)
  PROVE  Kept(Append(es, e), i)
<1> DEFINE fs == Append(es, e)
           n == Index(es, i)
<1>1. /\ Len(es) \in Nat /\ Len(fs) = Len(es) + 1
      /\ \A j \in 1 .. Len(es) : fs[j] = es[j]
      /\ fs[Len(es) + 1] = e
  BY AppendIs
<1>2. Newest(es, i, n)
  BY KeptIsNewest
<1> HIDE DEF fs, n
<1>3. \A j \in 1 .. Len(fs) : j \in 1 .. Len(es) \/ j = Len(es) + 1
  BY <1>1
<1>4. Newest(fs, i, n)
  BY <1>1, <1>2, <1>3 DEF Newest, Holds
<1>5. Kept(fs, i)
  BY <1>4 DEF Kept, Newest
<1> QED BY <1>5 DEF fs

LEMMA CopyItemInv == ASSUME NvInv, CopyItem PROVE NvInv'
<1> DEFINE es == entries[oldSect]
           fs == entries[opSect]
           e == es[next]
           gs == IF e.state = "valid" /\ e.item # call.item THEN Append(fs, e) ELSE fs
<1>0. /\ pc = "copy" /\ pc' = "copy" /\ next' = next + 1 /\ next \in Nat
      /\ UNCHANGED <<flag, call, opSect, oldSect>>
      /\ opSect \in Sectors /\ oldSect \in Sectors /\ opSect # oldSect /\ NvTypeOK
      /\ es \in Seq(Entry) /\ fs \in Seq(Entry) /\ Len(es) <= Room
      /\ Len(es) \in Nat /\ Len(fs) \in Nat /\ Room \in Nat
      /\ Len(fs) < next /\ next <= Len(es)
  BY LenType, StoreAssumption DEF CopyItem, NvInv, NvTypeOK, FlagsFit, CopyFits
<1>1. next \in 1 .. Len(es) /\ e \in Entry
  BY <1>0
<1>2. /\ Absent(fs, call.item)
      /\ \A i \in Item \ {call.item} : CopiedTo(es, fs, next, i)
      /\ \A i \in Item : Findable(fs, i)
  BY <1>0 DEF NvInv, CopyFits, AllFindable
<1>3. /\ gs \in Seq(Entry) /\ Len(gs) <= Len(fs) + 1 /\ Len(gs) \in Nat
  BY <1>0, <1>1, AppendIs, LenType
<1>4. Absent(gs, call.item)
  BY <1>0, <1>1, <1>2, AppendAbsent
<1>5. \A i \in Item : Findable(gs, i)
  <2> SUFFICES ASSUME NEW i \in Item PROVE Findable(gs, i)
    OBVIOUS
  <2>1. CASE e.state = "valid" /\ e.item # call.item /\ e.item = i
    BY <1>0, <1>1, <2>1, AppendItem
  <2>2. CASE e.state = "valid" /\ e.item # call.item /\ e.item # i
    BY <1>0, <1>1, <1>2, <2>2, AppendOther
  <2>3. CASE ~ (e.state = "valid" /\ e.item # call.item)
    BY <1>2, <2>3
  <2> QED BY <2>1, <2>2, <2>3
<1>6. ASSUME NEW i \in Item \ {call.item}
      PROVE  CopiedTo(es, gs, next + 1, i)
  <2>0. CopiedTo(es, fs, next, i) /\ Findable(fs, i) /\ i # call.item
    BY <1>2
  <2>1. CASE Holds(es, i, next)
    <3>1. e.state = "valid" /\ e.item = i /\ gs = Append(fs, e)
      BY <2>0, <2>1 DEF Holds
    <3>2. Lookup(gs, i) = e.value /\ Newest(gs, i, Len(fs) + 1)
      BY <1>0, <1>1, <3>1, AppendItem
    <3>3. Kept(gs, i)
      BY <1>3, <3>2, NewestIsIndex
    <3> HIDE DEF gs
    <3> QED BY <1>0, <1>1, <1>3, <2>1, <3>2, <3>3, CopyBrings
  <2>2. CASE ~ Holds(es, i, next)
    <3>1. ~ (e.state = "valid" /\ e.item = i)
      BY <2>2 DEF Holds
    <3>2. /\ Absent(fs, i) => Absent(gs, i)
          /\ Kept(fs, i) => Kept(gs, i)
          /\ Lookup(gs, i) = Lookup(fs, i)
      BY <1>0, <1>1, <2>0, <3>1, AppendAbsent, AppendKept, AppendOther
    <3> HIDE DEF gs, fs, es, e
    <3>3. CopiedTo(es, gs, next, i)
      BY <1>0, <1>3, <2>0, <3>2, CopyKeeps
    <3> QED BY <1>0, <1>1, <1>3, <2>2, <3>3, CopyPasses
  <2> QED BY <2>1, <2>2
<1>7. entries' = [entries EXCEPT ![opSect] = gs]
  <2>1. CASE e.state = "valid" /\ e.item # call.item
    BY <2>1 DEF CopyItem
  <2>2. CASE ~ (e.state = "valid" /\ e.item # call.item)
    <3>1. entries' = entries
      BY <2>2 DEF CopyItem
    <3> QED BY <1>0, <2>2, <3>1 DEF NvTypeOK
  <2> QED BY <2>1, <2>2
<1> HIDE DEF gs
<1>8. /\ entries' \in [Sectors -> Seq(Entry)]
      /\ \A t \in Sectors : Len(entries'[t]) <= Room
      /\ entries'[opSect] = gs
      /\ \A t \in Sectors : t # opSect => entries'[t] = entries[t]
  <2>1. Len(gs) <= Room
    BY <1>0, <1>3
  <2>2. entries' = [entries EXCEPT ![opSect] = gs] /\ gs \in Seq(Entry)
    BY <1>3, <1>7
  <2> HIDE DEF es, fs, e
  <2> QED BY <1>0, <2>1, <2>2, EntriesTypes
<1>9. NvTypeOK'
  BY <1>0, <1>8 DEF NvTypeOK, Steps
<1>10. Calls'
  BY <1>0 DEF Calls, Writing, NvInv
<1>11. AllFindable'
  BY <1>0, <1>5, <1>8, OneFindable DEF NvInv
<1>12. FlagsFit'
  BY <1>0 DEF FlagsFit, NvInv
<1>13. CopyFits'
  BY <1>0, <1>3, <1>4, <1>6, <1>8 DEF CopyFits
<1>14. OthersFit' /\ ItemFits'
  BY <1>0 DEF OthersFit, ItemFits
<1> QED BY <1>9, <1>10, <1>11, <1>12, <1>13, <1>14 DEF NvInv

(* When every entry was looked at, the other items are all there.          *)
LEMMA CopyIsWhole ==
  ASSUME NEW es \in Seq(Entry), NEW fs \in Seq(Entry), NEW n \in Nat, NEW i,
         n > Len(es), CopiedTo(es, fs, n, i)
  PROVE  Lookup(fs, i) = Lookup(es, i)
<1>0. Len(es) \in Nat /\ \A j \in 1 .. Len(es) : j < n
  BY LenType
<1>1. CASE /\ \A j \in 1 .. Len(es) : j < n => ~ Holds(es, i, j)
           /\ Absent(fs, i)
  <2>1. Absent(es, i)
    BY <1>0, <1>1 DEF Absent
  <2> QED BY <1>1, <2>1, AbsentIsNone
<1>2. ASSUME NEW j \in 1 .. Len(es),
             j < n, Holds(es, i, j),
             \A k \in 1 .. Len(es) : k < n /\ Holds(es, i, k) => k <= j,
             Kept(fs, i), Lookup(fs, i) = es[j].value
      PROVE  Lookup(fs, i) = Lookup(es, i)
  <2>1. Newest(es, i, j)
    BY <1>0, <1>2 DEF Newest
  <2> QED BY <1>2, <2>1, NewestIsIndex
<1> QED BY <1>1, <1>2 DEF CopiedTo

LEMMA CopyEndsInv == ASSUME NvInv, CopyEnds PROVE NvInv'
<1>0. /\ pc = "copy" /\ next > Len(entries[oldSect]) /\ UNCHANGED <<flag, entries>>
      /\ opSect \in Sectors /\ oldSect \in Sectors /\ opSect # oldSect /\ NvTypeOK
      /\ entries[oldSect] \in Seq(Entry) /\ entries[opSect] \in Seq(Entry) /\ next \in Nat
  BY DEF CopyEnds, flash, NvInv, NvTypeOK, FlagsFit
<1>1. CASE /\ Len(entries[opSect]) < Room
           /\ pc' = "open" /\ UNCHANGED <<call, opSect, oldSect, next>>
  <2>0. pc' = "open" /\ UNCHANGED <<call, opSect, oldSect, next>>
    BY <1>1
  <2>1. NvTypeOK'
    BY <1>0, <2>0 DEF NvTypeOK, Steps
  <2>2. Calls'
    BY <1>0, <2>0 DEF Calls, Writing, NvInv
  <2>3. AllFindable'
    BY <1>0, SameFindable DEF NvInv
  <2>4. FlagsFit'
    BY <1>0, <2>0 DEF FlagsFit, NvInv
  <2>5. CopyFits'
    BY <2>0 DEF CopyFits
  <2>6. OthersFit'
    <3>1. \A i \in Item \ {call.item} :
            CopiedTo(entries[oldSect], entries[opSect], next, i)
      BY <1>0 DEF NvInv, CopyFits
    <3>2. \A i \in Item \ {call.item} :
            Lookup(entries[opSect], i) = Lookup(entries[oldSect], i)
      BY <1>0, <3>1, CopyIsWhole
    <3> QED BY <1>0, <2>0, <3>2 DEF OthersFit
  <2>7. ItemFits'
    BY <1>0, <1>1, <2>0 DEF ItemFits
  <2> QED BY <2>1, <2>2, <2>3, <2>4, <2>5, <2>6, <2>7 DEF NvInv
<1>2. CASE Done
  <2>1. NvTypeOK' /\ AllFindable'
    BY <1>0, <1>2, EndTypes, SameFindable DEF NvInv, NvTypeOK
  <2> QED BY <1>2, <2>1, AtEnd
<1> QED BY <1>1, <1>2 DEF CopyEnds

-----------------------------------------------------------------------------
(* The item is written.                                                    *)
LEMMA WritingFacts ==
  ASSUME NvInv, pc \in {"open", "close", "delete", "flag"}
  PROVE  /\ NvTypeOK /\ opSect \in Sectors /\ oldSect \in Sectors
         /\ entries[opSect] \in Seq(Entry) /\ Len(entries[opSect]) \in Nat
         /\ Len(entries[opSect]) <= Room
         /\ next \in Nat /\ call \in Writes /\ call.item \in Item
         /\ call.kind = "write" /\ call.value \in Value
         /\ \A i \in Item : Findable(entries[opSect], i)
<1>1. /\ NvTypeOK /\ opSect \in Sectors /\ oldSect \in Sectors
      /\ entries[opSect] \in Seq(Entry) /\ Len(entries[opSect]) <= Room
      /\ next \in Nat /\ call \in Writes
      /\ \A i \in Item : Findable(entries[opSect], i)
  BY DEF NvInv, NvTypeOK, AllFindable, Calls, Writing
<1> QED BY <1>1, LenType DEF Writes

LEMMA OpenEntries ==
  ASSUME NvInv, OpenItem
  PROVE  /\ NvTypeOK'
         /\ \A t \in Sectors : t # opSect => entries'[t] = entries[t]
         /\ Len(entries'[opSect]) = Len(entries[opSect]) + 1
         /\ entries'[opSect][Len(entries'[opSect])].state = "opened"
         /\ next' < Len(entries'[opSect])
         /\ next' # 0 => Holds(entries'[opSect], call.item, next')
         /\ \A i \in Item : /\ Findable(entries'[opSect], i)
                            /\ Lookup(entries'[opSect], i) = Lookup(entries[opSect], i)
<1> DEFINE es == entries[opSect]
           new == Left("opened")
           fs == Append(es, new)
<1>0. /\ pc = "open" /\ pc' = "close" /\ UNCHANGED <<flag, call, opSect, oldSect>>
      /\ entries' = [entries EXCEPT ![opSect] = fs]
      /\ Len(es) < Room /\ Room \in Nat
  BY StoreAssumption DEF OpenItem, NvInv, ItemFits
<1>1. /\ NvTypeOK /\ opSect \in Sectors /\ es \in Seq(Entry) /\ Len(es) \in Nat
      /\ \A i \in Item : Findable(es, i)
  BY <1>0, WritingFacts
<1>2. new \in Entry /\ new.state = "opened"
  BY LeftIsEntry DEF Left
<1> HIDE DEF new
<1>3. /\ fs \in Seq(Entry) /\ Len(fs) = Len(es) + 1
      /\ \A j \in 1 .. Len(es) : fs[j] = es[j]
      /\ fs[Len(es) + 1] = new
  BY <1>1, <1>2, AppendIs
<1>4. \A i \in Item : Findable(fs, i) /\ Lookup(fs, i) = Lookup(es, i)
  BY <1>1, <1>2, AppendOther
<1> HIDE DEF fs
<1>5. /\ entries' \in [Sectors -> Seq(Entry)]
      /\ \A t \in Sectors : Len(entries'[t]) <= Room
      /\ entries'[opSect] = fs
      /\ \A t \in Sectors : t # opSect => entries'[t] = entries[t]
  <2>1. Len(fs) <= Room
    BY <1>0, <1>1, <1>3
  <2> QED BY <1>0, <1>1, <1>3, <2>1, EntriesTypes
<1>6. next' \in Nat /\ next' < Len(fs) /\ (next' # 0 => Holds(fs, call.item, next'))
  <2>1. CASE Kept(es, call.item)
    <3>1. next' = Index(es, call.item)
      BY <2>1 DEF OpenItem
    <3>2. Newest(es, call.item, next')
      BY <1>1, <2>1, <3>1, KeptIsNewest
    <3>3. next' \in 1 .. Len(es) /\ Holds(es, call.item, next')
      BY <3>2 DEF Newest
    <3> QED BY <1>1, <1>3, <3>3 DEF Holds
  <2>2. CASE ~ Kept(es, call.item)
    <3>1. next' = 0
      BY <2>2 DEF OpenItem
    <3> QED BY <1>1, <1>3, <3>1
  <2> QED BY <2>1, <2>2
<1>7. NvTypeOK'
  BY <1>0, <1>1, <1>5, <1>6 DEF NvTypeOK, Steps
<1>8. fs[Len(fs)].state = "opened"
  BY <1>2, <1>3
<1> QED BY <1>3, <1>4, <1>5, <1>6, <1>7, <1>8

LEMMA OpenItemInv == ASSUME NvInv, OpenItem PROVE NvInv'
<1>0. /\ pc = "open" /\ pc' = "close" /\ UNCHANGED <<flag, call, opSect, oldSect>>
  BY DEF OpenItem
<1>1. /\ NvTypeOK /\ opSect \in Sectors /\ oldSect \in Sectors /\ Len(entries[opSect]) \in Nat
  BY <1>0, WritingFacts
<1>2. Calls'
  BY <1>0 DEF Calls, Writing, NvInv
<1>3. AllFindable'
  BY <1>1, OpenEntries, OneFindable DEF NvInv
<1>4. FlagsFit'
  <2>1. ASSUME opSect = oldSect, First
        PROVE  Len(entries'[0]) = 1
    <3>1. opSect = 0 /\ flag[opSect] # "valid"
      BY <1>1, <2>1 DEF First, HasSector, Usable
    <3>2. Len(entries[0]) = 0
      BY <1>0, <2>1, <3>1 DEF NvInv, FlagsFit
    <3> QED BY <3>1, <3>2, OpenEntries
  <2> QED BY <1>0, <1>1, <2>1 DEF FlagsFit, NvInv, First, HasSector, Usable
<1>5. OthersFit'
  BY <1>0, <1>1, OpenEntries DEF OthersFit, NvInv, First, HasSector, Usable
<1>6. CopyFits' /\ ItemFits'
  BY <1>0, OpenEntries DEF CopyFits, ItemFits
<1> QED BY <1>2, <1>3, <1>4, <1>5, <1>6, OpenEntries DEF NvInv

LEMMA CloseEntries ==
  ASSUME NvInv, CloseItem
  PROVE  /\ NvTypeOK'
         /\ \A t \in Sectors : t # opSect => entries'[t] = entries[t]
         /\ Len(entries'[opSect]) = Len(entries[opSect])
         /\ Newest(entries'[opSect], call.item, Len(entries'[opSect]))
         /\ next < Len(entries'[opSect])
         /\ next # 0 => Holds(entries'[opSect], call.item, next)
         /\ Lookup(entries'[opSect], call.item) = call.value
         /\ \A i \in Item : Findable(entries'[opSect], i)
         /\ \A i \in Item \ {call.item} : Lookup(entries'[opSect], i) = Lookup(entries[opSect], i)
<1> DEFINE es == entries[opSect]
           new == Saved(call.item, call.value)
           fs == [es EXCEPT ![Len(es)] = new]
<1>0. /\ pc = "close" /\ pc' = "delete" /\ UNCHANGED <<flag, call, opSect, oldSect, next>>
      /\ entries' = [entries EXCEPT ![opSect] = fs]
      /\ next < Len(es) /\ (next # 0 => Holds(es, call.item, next))
      /\ es[Len(es)].state = "opened"
  BY DEF CloseItem, NvInv, ItemFits
<1>1. /\ NvTypeOK /\ opSect \in Sectors /\ es \in Seq(Entry) /\ Len(es) \in Nat
      /\ Len(es) <= Room /\ next \in Nat /\ call \in Writes /\ call.item \in Item
      /\ \A i \in Item : Findable(es, i)
  BY <1>0, WritingFacts
<1>2. new \in Entry /\ new.state = "valid" /\ new.item = call.item /\ new.value = call.value
  BY <1>1, SavedIsEntry DEF Saved
<1> HIDE DEF new
<1>2a. Len(es) \in 1 .. Len(es) /\ \A i : ~ Newest(es, i, Len(es))
  BY <1>0, <1>1 DEF Newest, Holds
<1>3. /\ fs \in Seq(Entry) /\ Len(fs) = Len(es)
      /\ \A j \in 1 .. Len(es) : j # Len(es) => fs[j] = es[j]
  BY <1>1, <1>2, <1>2a, ChangeIs
<1>4. /\ Newest(fs, call.item, Len(fs))
      /\ Findable(fs, call.item) /\ Lookup(fs, call.item) = call.value
  <2>1. /\ Newest(fs, new.item, Len(es))
        /\ Findable(fs, new.item) /\ Lookup(fs, new.item) = new.value
    BY <1>1, <1>2, <1>2a, ChangeLast
  <2> HIDE DEF fs
  <2> QED BY <1>2, <1>3, <2>1
<1>5. \A i \in Item \ {call.item} : Findable(fs, i) /\ Lookup(fs, i) = Lookup(es, i)
  BY <1>1, <1>2, <1>2a, ChangeUnseen
<1>6. next # 0 => Holds(fs, call.item, next)
  BY <1>0, <1>1, <1>3 DEF Holds
<1> HIDE DEF fs
<1>7. /\ entries' \in [Sectors -> Seq(Entry)]
      /\ \A t \in Sectors : Len(entries'[t]) <= Room
      /\ entries'[opSect] = fs
      /\ \A t \in Sectors : t # opSect => entries'[t] = entries[t]
  <2>1. Len(fs) <= Room
    BY <1>1, <1>3
  <2> QED BY <1>0, <1>1, <1>3, <2>1, EntriesTypes
<1>8. NvTypeOK'
  BY <1>0, <1>1, <1>7 DEF NvTypeOK, Steps
<1>9. \A i \in Item : Findable(fs, i)
  BY <1>4, <1>5
<1> QED BY <1>0, <1>3, <1>4, <1>5, <1>6, <1>7, <1>8, <1>9

LEMMA CloseItemInv == ASSUME NvInv, CloseItem PROVE NvInv'
<1>0. pc = "close" /\ pc' = "delete" /\ UNCHANGED <<flag, call, opSect, oldSect, next>>
  BY DEF CloseItem
<1>1. /\ NvTypeOK /\ opSect \in Sectors /\ oldSect \in Sectors /\ call.item \in Item
  BY <1>0, WritingFacts
<1>2. Calls'
  BY <1>0 DEF Calls, Writing, NvInv
<1>3. AllFindable'
  BY <1>1, CloseEntries, OneFindable DEF NvInv
<1>4. FlagsFit'
  <2>1. First => opSect = 0
    BY DEF First
  <2> QED BY <1>0, <2>1, CloseEntries DEF FlagsFit, NvInv, First, HasSector, Usable
<1>5. OthersFit'
  BY <1>0, <1>1, CloseEntries DEF OthersFit, NvInv, First, HasSector, Usable
<1>6. CopyFits' /\ ItemFits'
  BY <1>0, CloseEntries DEF CopyFits, ItemFits
<1> QED BY <1>2, <1>3, <1>4, <1>5, <1>6, CloseEntries DEF NvInv

LEMMA DeleteEntries ==
  ASSUME NvInv, DeleteOld
  PROVE  /\ NvTypeOK'
         /\ \A t \in Sectors : t # opSect => entries'[t] = entries[t]
         /\ Len(entries'[opSect]) = Len(entries[opSect])
         /\ \A i \in Item : /\ Findable(entries'[opSect], i)
                            /\ Lookup(entries'[opSect], i) = Lookup(entries[opSect], i)
<1> DEFINE es == entries[opSect]
           gone == Left("invalid")
           fs == [es EXCEPT ![next] = gone]
<1>0. /\ pc = "delete" /\ pc' = "flag" /\ UNCHANGED <<flag, call, opSect, oldSect, next>>
      /\ next < Len(es) /\ (next # 0 => Holds(es, call.item, next))
      /\ Newest(es, call.item, Len(es))
  BY DEF DeleteOld, NvInv, ItemFits
<1>1. /\ NvTypeOK /\ opSect \in Sectors /\ es \in Seq(Entry) /\ Len(es) \in Nat
      /\ Len(es) <= Room /\ next \in Nat
      /\ \A i \in Item : Findable(es, i)
  BY <1>0, WritingFacts
<1>2. CASE next = 0
  <2>1. entries' = entries
    BY <1>2 DEF DeleteOld
  <2>2. NvTypeOK'
    BY <1>0, <1>1, <2>1 DEF NvTypeOK, Steps
  <2> QED BY <1>1, <2>1, <2>2
<1>3. CASE next # 0
  <2>1. entries' = [entries EXCEPT ![opSect] = fs]
    BY <1>3 DEF DeleteOld
  <2>2. gone \in Entry /\ gone.state = "invalid"
    BY LeftIsEntry DEF Left
  <2> HIDE DEF gone
  <2>3. next \in 1 .. Len(es) /\ \A i : ~ Newest(es, i, next)
    BY <1>0, <1>1, <1>3 DEF Newest, Holds
  <2>4. fs \in Seq(Entry) /\ Len(fs) = Len(es)
    BY <1>1, <2>2, <2>3, ChangeIs
  <2>5. \A i \in Item : Findable(fs, i) /\ Lookup(fs, i) = Lookup(es, i)
    BY <1>1, <2>2, <2>3, ChangeUnseen
  <2> HIDE DEF fs
  <2>6. /\ entries' \in [Sectors -> Seq(Entry)]
        /\ \A t \in Sectors : Len(entries'[t]) <= Room
        /\ entries'[opSect] = fs
        /\ \A t \in Sectors : t # opSect => entries'[t] = entries[t]
    <3>1. Len(fs) <= Room
      BY <1>1, <2>4
    <3> QED BY <1>1, <2>1, <2>4, <3>1, EntriesTypes
  <2>7. NvTypeOK'
    BY <1>0, <1>1, <2>6 DEF NvTypeOK, Steps
  <2> QED BY <2>4, <2>5, <2>6, <2>7
<1> QED BY <1>2, <1>3

LEMMA DeleteOldInv == ASSUME NvInv, DeleteOld PROVE NvInv'
<1>0. pc = "delete" /\ pc' = "flag" /\ UNCHANGED <<flag, call, opSect, oldSect, next>>
  BY DEF DeleteOld
<1>1. /\ NvTypeOK /\ opSect \in Sectors /\ oldSect \in Sectors /\ call.item \in Item
  BY <1>0, WritingFacts
<1>2. Calls'
  BY <1>0 DEF Calls, Writing, NvInv
<1>3. AllFindable'
  BY <1>1, DeleteEntries, OneFindable DEF NvInv
<1>4. FlagsFit'
  <2>1. First => opSect = 0
    BY DEF First
  <2> QED BY <1>0, <2>1, DeleteEntries DEF FlagsFit, NvInv, First, HasSector, Usable
<1>5. OthersFit'
  BY <1>0, <1>1, DeleteEntries DEF OthersFit, NvInv, First, HasSector, Usable
<1>6. CopyFits' /\ ItemFits'
  BY <1>0, <1>1, DeleteEntries DEF CopyFits, ItemFits, NvInv
<1> QED BY <1>2, <1>3, <1>4, <1>5, <1>6, DeleteEntries DEF NvInv

-----------------------------------------------------------------------------
LEMMA NvInitially == NvInit => NvInv
<1> SUFFICES ASSUME NvInit PROVE NvInv
  OBVIOUS
<1>0. /\ pc = "idle" /\ call = Idle /\ opSect = 0 /\ oldSect = 0 /\ next = 0
      /\ flag = [s \in Sectors |-> "idle"] /\ entries = [s \in Sectors |-> <<>>]
  BY DEF NvInit, AtRest
<1>1. NvTypeOK
  <2>1. <<>> \in Seq(Entry) /\ Len(<<>>) = 0 /\ Room \in Nat
    BY StoreAssumption
  <2> QED BY <1>0, <2>1 DEF NvTypeOK, Steps, Flags, Sectors
<1>2. Calls /\ FlagsFit /\ CopyFits /\ OthersFit /\ ItemFits
  BY <1>0 DEF Calls, Writing, FlagsFit, CopyFits, OthersFit, ItemFits
<1>3. AllFindable
  BY <1>0, EmptyFinds DEF AllFindable
<1> QED BY <1>1, <1>2, <1>3 DEF NvInv

LEMMA NvStep == NvInv /\ [NvNext]_vars => NvInv'
<1> SUFFICES ASSUME NvInv, [NvNext]_vars PROVE NvInv'
  OBVIOUS
<1>1. CASE UNCHANGED vars
  <2>0. UNCHANGED <<flag, entries, call, pc, opSect, oldSect, next>>
    BY <1>1 DEF vars
  <2>1. NvTypeOK' /\ Calls'
    BY <2>0 DEF NvInv, NvTypeOK, Calls
  <2>2. AllFindable'
    BY <2>0, SameFindable DEF NvInv
  <2>3. FlagsFit'
    BY <2>0 DEF NvInv, FlagsFit, First, HasSector, Usable
  <2>4. CopyFits'
    BY <2>0 DEF NvInv, CopyFits
  <2>5. OthersFit' /\ ItemFits'
    BY <2>0 DEF NvInv, OthersFit, ItemFits, First, HasSector, Usable
  <2> QED BY <2>1, <2>2, <2>3, <2>4, <2>5 DEF NvInv
<1>2. CASE NvNext
  BY <1>2, CalledInv, TakesOverInv, ReadInv, NoSectorInv, SameSectorInv, SectorUpdateInv,
     DedupInv, DedupEndsInv, CopyItemInv, CopyEndsInv, OpenItemInv, CloseItemInv,
     DeleteOldInv, SameFlagInv, ReadyFlagInv, RetireFlagInv, ConfirmInv, EraseFirstInv,
     EraseSecondInv, PowerFailsInv DEF NvNext
<1> QED BY <1>1, <1>2

LEMMA NvInvariance == NvSpec => []NvInv
  BY NvInitially, NvStep, PTL DEF NvSpec

(* The flags, the indexes and the state of the driver keep their types; no *)
(* index takes more than its room (drv_nv.c:568-780).                      *)
THEOREM StoreIsTyped == NvSpec => []NvTypeOK
<1>1. NvInv => NvTypeOK
  BY DEF NvInv
<1> QED BY NvInvariance, <1>1, PTL

-----------------------------------------------------------------------------
(* The refinement: what each step makes of the contents that a read finds, *)
(* and of those that wait behind.                                          *)
Busy == IF call = Read THEN Idle ELSE call

LEMMA BusyWith ==
  /\ call \in Writes => Busy = call /\ call # Idle /\ call.kind = "write" /\ call.item \in Item
  /\ call = Reset => Busy = Reset /\ Reset # Idle /\ Reset.kind = "reset"
  /\ call = Read \/ call = Idle => Busy = Idle
  BY DEF Busy, Writes, Idle, Read, Reset

LEMMA StaysBusy == call' = call => Busy' = Busy
  BY DEF Busy

LEMMA DoneIsIdle == Done => Busy' = Idle
  BY DEF Done, Busy

LEMMA ContentsOf ==
  ASSUME NEW s, NEW t, \A i \in Item : Lookup(entries'[s], i) = Lookup(entries[t], i)
  PROVE  Contents(s)' = Contents(t)
  BY DEF Contents

LEMMA SameView ==
  ASSUME flag' = flag,
         \A s \in Sectors : Usable(s) =>
           \A i \in Item : Lookup(entries'[s], i) = Lookup(entries[s], i)
  PROVE  Stored' = Stored /\ Late' = Late
<1>1. /\ \A s : Usable(s)' = Usable(s)
      /\ HasSector' = HasSector /\ Sector' = Sector
  BY DEF Usable, HasSector, Sector
<1>2. \A s \in Sectors : Usable(s) => Contents(s)' = Contents(s)
  BY ContentsOf
<1>3. HasSector => Sector \in Sectors /\ Usable(Sector)
  BY DEF HasSector, Sector, Sectors
<1>4. Stored' = Stored
  BY <1>1, <1>2, <1>3 DEF Stored
<1>5. Late' = Late
  BY <1>1, <1>2 DEF Late, Sectors
<1> QED BY <1>4, <1>5

(* The view in terms of the flags.                                         *)
LEMMA View ==
  /\ Usable(0) => Stored = Contents(0)
  /\ ~ Usable(0) /\ Usable(1) => Stored = Contents(1)
  /\ ~ Usable(0) /\ ~ Usable(1) => Stored = [i \in Item |-> None]
  /\ Usable(0) /\ Usable(1) => Late = {Contents(1)}
  /\ ~ Usable(0) \/ ~ Usable(1) => Late = {}
<1>1. HasSector <=> Usable(0) \/ Usable(1)
  BY DEF HasSector, Sectors
<1>2. ~ (Usable(0) /\ Usable(1)) => Late = {}
  BY DEF Late
<1>3. Usable(0) /\ Usable(1) => Late = {Contents(1)}
  BY DEF Late
<1>4. Usable(0) => Stored = Contents(0)
  BY <1>1 DEF Stored, Sector
<1>5. ~ Usable(0) /\ Usable(1) => Stored = Contents(1)
  BY <1>1 DEF Stored, Sector
<1>6. ~ Usable(0) /\ ~ Usable(1) => Stored = [i \in Item |-> None]
  BY <1>1 DEF Stored
<1> QED BY <1>2, <1>3, <1>4, <1>5, <1>6

Mapped == [Items!ItemsNext]_Items!vars

LEMMA Stutters ==
  ASSUME Stored' = Stored, Late' = Late, Busy' = Busy
  PROVE  Mapped
  BY DEF Mapped, Items!vars, Busy

LEMMA MapForgets ==
  ASSUME Stored' = Stored, Late' = {}, Busy' = Busy
  PROVE  Mapped
  BY DEF Mapped, Items!ItemsNext, Items!Forgets, Busy

LEMMA MapTakes ==
  ASSUME Stored' = Items!Applied(Stored, Busy), Late' \in {Late, {}, {Stored}},
         Busy # Idle, Busy' = Busy
  PROVE  Mapped
  BY DEF Mapped, Items!ItemsNext, Items!Takes, Busy, Items!Idle, Idle

LEMMA MapEnds ==
  ASSUME Stored' = Items!Applied(Stored, Busy), Late' \in {Late, {}},
         Busy # Idle, Busy' = Idle
  PROVE  Mapped
  BY DEF Mapped, Items!ItemsNext, Items!Ends, Busy, Items!Idle, Idle

LEMMA MapCut ==
  ASSUME Stored' = Stored, Late' = Late, Busy' = Idle
  PROVE  Mapped
  BY DEF Mapped, Items!ItemsNext, Items!PowerFails, Busy, Items!Idle, Idle

(* The view after a step, and what a call makes of a contents.             *)
LEMMA NextView ==
  (/\ Usable(0) => Stored = Contents(0)
   /\ ~ Usable(0) /\ Usable(1) => Stored = Contents(1)
   /\ ~ Usable(0) /\ ~ Usable(1) => Stored = [i \in Item |-> None]
   /\ Usable(0) /\ Usable(1) => Late = {Contents(1)}
   /\ ~ Usable(0) \/ ~ Usable(1) => Late = {})'
  BY View, PTL

LEMMA SameContents == entries' = entries => \A s : Contents(s)' = Contents(s)
  BY DEF Contents

LEMMA AppliedWrite ==
  ASSUME call \in Writes, NEW es, NEW fs, Lookup(fs, call.item) = call.value,
         \A i \in Item \ {call.item} : Lookup(fs, i) = Lookup(es, i)
  PROVE  [i \in Item |-> Lookup(fs, i)] = Items!Applied([i \in Item |-> Lookup(es, i)], Busy)
<1>1. Busy = call /\ call.kind = "write" /\ call.item \in Item
  BY BusyWith
<1> QED BY <1>1 DEF Items!Applied

LEMMA AppliedFirst ==
  ASSUME call \in Writes, NEW fs, Lookup(fs, call.item) = call.value,
         \A i \in Item \ {call.item} : Lookup(fs, i) = None
  PROVE  [i \in Item |-> Lookup(fs, i)] = Items!Applied([i \in Item |-> None], Busy)
<1>1. Busy = call /\ call.kind = "write" /\ call.item \in Item
  BY BusyWith
<1> QED BY <1>1 DEF Items!Applied

LEMMA AppliedReset ==
  ASSUME call = Reset, NEW m
  PROVE  Items!Applied(m, Busy) = [i \in Item |-> None]
<1>1. Busy = Reset /\ Reset.kind = "reset"
  BY BusyWith
<1> QED BY <1>1 DEF Items!Applied, Items!Empty

LEMMA MapPrepares ==
  ASSUME Stored' = Stored, Late' = {Items!Applied(Stored, Busy)},
         call \in Writes, Busy' = Busy
  PROVE  Mapped
<1>1. Busy.kind = "write"
  BY BusyWith
<1> QED BY <1>1 DEF Mapped, Items!ItemsNext, Items!Prepares, Busy

LEMMA MapUncovers ==
  ASSUME Stored' \in Late, Late' = {}, Busy = Reset, Busy' = Busy
  PROVE  Mapped
  BY DEF Mapped, Items!ItemsNext, Items!Uncovers, Busy, Items!Reset, Reset

-----------------------------------------------------------------------------
LEMMA CalledMaps == ASSUME NvInv, Called PROVE Mapped
<1>0. /\ UNCHANGED <<flag, entries>> /\ pc = "idle" /\ call = Idle
      /\ call' \in Writes \cup {Read, Reset}
  BY DEF Called, flash, NvInv, Calls
<1>1. Stored' = Stored /\ Late' = Late
  BY <1>0, SameView
<1>2. Busy = Idle
  BY <1>0, BusyWith
<1>3. CASE call' = Read
  <2>1. Busy' = Idle
    BY <1>3 DEF Busy
  <2> QED BY <1>1, <1>2, <2>1, Stutters
<1>4. CASE call' \in Writes \cup {Reset}
  <2>1. Busy' = call'
    BY <1>4 DEF Busy, Writes, Read, Reset
  <2>2. Busy' \in Writes \cup {Reset}
    BY <1>4, <2>1
  <2>3. /\ Items!Writes = Writes /\ Items!Reset = Reset /\ Items!Idle = Idle
    BY DEF Items!Writes, Writes, Items!Reset, Reset, Items!Idle, Idle
  <2> QED BY <1>1, <1>2, <2>2, <2>3 DEF Mapped, Items!ItemsNext, Items!Begins, Busy
<1> QED BY <1>0, <1>3, <1>4

LEMMA TakesOverMaps == ASSUME NvInv, TakesOver PROVE Mapped
<1>0. /\ UNCHANGED <<entries, call>> /\ HasSector /\ flag[Sector] = "ready" /\ NvTypeOK
      /\ flag' = IF flag[Other(Sector)] = "invalid"
                   THEN [flag EXCEPT ![Sector] = "valid"]
                   ELSE [flag EXCEPT ![Other(Sector)] = "invalid"]
  BY DEF TakesOver, ram, NvInv
<1>1. /\ Sector \in Sectors /\ Other(Sector) \in Sectors /\ Other(Sector) # Sector
      /\ Usable(Sector) /\ (Sector = 1 => ~ Usable(0))
      /\ (Sector = 0 => Other(Sector) = 1) /\ (Sector = 1 => Other(Sector) = 0)
  BY <1>0, SectorFacts DEF Other
<1>2. Busy' = Busy
  BY <1>0, StaysBusy
<1>3. \A s : Contents(s)' = Contents(s)
  BY <1>0 DEF Contents
<1>4. CASE flag[Other(Sector)] = "invalid"
  <2>1. flag' = [flag EXCEPT ![Sector] = "valid"] /\ "valid" \in Flags
    BY <1>0, <1>4 DEF Flags
  <2>2. /\ flag'[Sector] = "valid"
        /\ \A t \in Sectors : t # Sector => flag'[t] = flag[t]
    BY <1>0, <1>1, <2>1, FlagTypes
  <2>3. \A s \in Sectors : Usable(s)' <=> Usable(s)
    BY <1>0, <2>2 DEF Usable
  <2>4. /\ Usable(0)' <=> Usable(0)
        /\ Usable(1)' <=> Usable(1)
    BY <2>3 DEF Sectors
  <2>5. HasSector' = HasSector /\ Sector' = Sector
    BY <2>4 DEF HasSector, Sector, Sectors
  <2>6. Stored' = Stored /\ Late' = Late
    BY <1>0, <1>3, <2>4, <2>5 DEF Stored, Late
  <2> QED BY <1>2, <2>6, Stutters
<1>5. CASE flag[Other(Sector)] # "invalid"
  <2>1. flag' = [flag EXCEPT ![Other(Sector)] = "invalid"] /\ "invalid" \in Flags
    BY <1>0, <1>5 DEF Flags
  <2>2. /\ flag'[Other(Sector)] = "invalid"
        /\ \A t \in Sectors : t # Other(Sector) => flag'[t] = flag[t]
    BY <1>0, <1>1, <2>1, FlagTypes
  <2>3. flag'[Sector] = "ready" /\ flag'[Other(Sector)] = "invalid"
    BY <1>0, <1>1, <2>2
  <2>4. CASE Sector = 0
    <3>1. Usable(0) /\ Usable(0)' /\ ~ Usable(1)'
      BY <1>1, <2>3, <2>4 DEF Other, Usable
    <3>2. Stored' = Stored /\ Late' = {}
      BY <1>3, <3>1, View, NextView
    <3> QED BY <1>2, <3>2, MapForgets
  <2>5. CASE Sector = 1
    <3>1. Usable(1) /\ ~ Usable(0) /\ Usable(1)' /\ ~ Usable(0)'
      BY <1>1, <2>3, <2>5 DEF Other, Usable
    <3>2. Stored' = Stored /\ Late' = {}
      BY <1>3, <3>1, View, NextView
    <3> QED BY <1>2, <3>2, MapForgets
  <2> QED BY <1>1, <2>4, <2>5, SectorsAre
<1> QED BY <1>4, <1>5

LEMMA ReadMaps == ASSUME NvInv, nv_flashReadNew PROVE Mapped
<1>1. UNCHANGED <<flag, entries>> /\ Done /\ call = Read
  BY DEF nv_flashReadNew, flash
<1>2. Stored' = Stored /\ Late' = Late
  BY <1>1, SameView
<1>3. Busy' = Busy
  BY <1>1, BusyWith, DoneIsIdle
<1> QED BY <1>2, <1>3, Stutters

LEMMA NoSectorMaps == ASSUME NvInv, NoSector PROVE Mapped
<1>0. /\ NvTypeOK /\ ~ HasSector /\ Erase(0) /\ 0 \in Sectors /\ call' = call
  BY DEF NoSector, NvInv, Sectors
<1>1. ~ Usable(0) /\ ~ Usable(1)
  BY <1>0 DEF HasSector, Sectors
<1>2. flag'[0] = "idle" /\ flag'[1] = flag[1]
  BY <1>0, EraseTypes DEF Sectors
<1>3. ~ Usable(0)' /\ ~ Usable(1)'
  BY <1>1, <1>2 DEF Usable
<1>4. Stored' = Stored /\ Late' = Late
  BY <1>1, <1>3, View, NextView
<1> QED BY <1>0, <1>4, StaysBusy, Stutters

LEMMA SameSectorMaps == ASSUME NvInv, SameSector PROVE Mapped
<1>1. UNCHANGED <<flag, entries>> /\ call' = call
  BY DEF SameSector, flash
<1>2. Stored' = Stored /\ Late' = Late
  BY <1>1, SameView
<1> QED BY <1>1, <1>2, StaysBusy, Stutters

(* With it goes what waited in the other sector.                           *)
LEMMA SectorUpdateMaps == ASSUME NvInv, SectorUpdate PROVE Mapped
<1>0. /\ NvTypeOK /\ HasSector /\ Erase(Other(Sector)) /\ call' = call
      /\ Sector \in Sectors /\ Usable(Sector) /\ (Sector = 1 => ~ Usable(0))
      /\ Other(Sector) \in Sectors /\ Other(Sector) # Sector
  BY SectorFacts DEF SectorUpdate, NvInv
<1>1. /\ flag'[Other(Sector)] = "idle" /\ flag'[Sector] = flag[Sector]
      /\ entries'[Sector] = entries[Sector]
  BY <1>0, EraseTypes
<1>3. CASE Sector = 0
  <2>1. Usable(0) /\ Usable(0)' /\ ~ Usable(1)'
    BY <1>0, <1>1, <1>3 DEF Other, Usable
  <2>2. Contents(0)' = Contents(0)
    BY <1>1, <1>3 DEF Contents
  <2>3. Stored' = Stored /\ Late' = {}
    BY <2>1, <2>2, View, NextView
  <2> QED BY <1>0, <2>3, StaysBusy, MapForgets
<1>4. CASE Sector = 1
  <2>1. Usable(1) /\ ~ Usable(0) /\ Usable(1)' /\ ~ Usable(0)'
    BY <1>0, <1>1, <1>4 DEF Other, Usable
  <2>2. Contents(1)' = Contents(1)
    BY <1>1, <1>4 DEF Contents
  <2>3. Stored' = Stored /\ Late' = {}
    BY <2>1, <2>2, View, NextView
  <2> QED BY <1>0, <2>3, StaysBusy, MapForgets
<1> QED BY <1>0, <1>3, <1>4, SectorsAre

LEMMA DedupMaps == ASSUME NvInv, Dedup PROVE Mapped
<1>1. flag' = flag /\ call' = call
  BY DedupEntries DEF ram
<1>2. \A s \in Sectors : \A i \in Item : Lookup(entries'[s], i) = Lookup(entries[s], i)
  <2> SUFFICES ASSUME NEW s \in Sectors, NEW i \in Item
               PROVE  Lookup(entries'[s], i) = Lookup(entries[s], i)
    OBVIOUS
  <2>1. CASE s = oldSect
    BY <2>1, DedupEntries
  <2>2. CASE s # oldSect
    BY <2>2, DedupEntries
  <2> QED BY <2>1, <2>2
<1>3. Stored' = Stored /\ Late' = Late
  BY <1>1, <1>2, SameView
<1> QED BY <1>1, <1>3, StaysBusy, Stutters

LEMMA DedupEndsMaps == ASSUME NvInv, DedupEnds PROVE Mapped
<1>1. UNCHANGED <<flag, entries>> /\ call' = call
  BY DEF DedupEnds, flash
<1>2. Stored' = Stored /\ Late' = Late
  BY <1>1, SameView
<1> QED BY <1>1, <1>2, StaysBusy, Stutters

(* The sector that is copied into is not in use yet.                       *)
LEMMA CopyItemMaps == ASSUME NvInv, CopyItem PROVE Mapped
<1>0. /\ flag' = flag /\ call' = call /\ pc = "copy" /\ NvTypeOK
      /\ opSect \in Sectors
  BY DEF CopyItem, NvInv, NvTypeOK
<1>1. flag[opSect] = "idle"
  BY <1>0 DEF NvInv, FlagsFit
<1>2. \A s \in Sectors : s # opSect => entries'[s] = entries[s]
  BY <1>0 DEF CopyItem, NvTypeOK
<1>3. \A s \in Sectors : Usable(s) => s # opSect
  BY <1>1 DEF Usable
<1>4. Stored' = Stored /\ Late' = Late
  BY <1>0, <1>2, <1>3, SameView
<1> QED BY <1>0, <1>4, StaysBusy, Stutters

LEMMA CopyEndsMaps == ASSUME NvInv, CopyEnds PROVE Mapped
<1>0. UNCHANGED <<flag, entries>> /\ (call' = call \/ Done)
  BY DEF CopyEnds, flash
<1>1. Stored' = Stored /\ Late' = Late
  BY <1>0, SameView
<1>2. CASE call' = call
  BY <1>1, <1>2, StaysBusy, Stutters
<1>3. CASE Done
  BY <1>1, <1>3, DoneIsIdle, MapCut
<1> QED BY <1>0, <1>2, <1>3

LEMMA OpenItemMaps == ASSUME NvInv, OpenItem PROVE Mapped
<1>1. flag' = flag /\ call' = call
  BY DEF OpenItem
<1>2. \A s \in Sectors : \A i \in Item : Lookup(entries'[s], i) = Lookup(entries[s], i)
  <2> SUFFICES ASSUME NEW s \in Sectors, NEW i \in Item
               PROVE  Lookup(entries'[s], i) = Lookup(entries[s], i)
    OBVIOUS
  <2>1. CASE s = opSect
    BY <2>1, OpenEntries
  <2>2. CASE s # opSect
    BY <2>2, OpenEntries
  <2> QED BY <2>1, <2>2
<1>3. Stored' = Stored /\ Late' = Late
  BY <1>1, <1>2, SameView
<1> QED BY <1>1, <1>3, StaysBusy, Stutters

LEMMA DeleteOldMaps == ASSUME NvInv, DeleteOld PROVE Mapped
<1>1. flag' = flag /\ call' = call
  BY DEF DeleteOld
<1>2. \A s \in Sectors : \A i \in Item : Lookup(entries'[s], i) = Lookup(entries[s], i)
  <2> SUFFICES ASSUME NEW s \in Sectors, NEW i \in Item
               PROVE  Lookup(entries'[s], i) = Lookup(entries[s], i)
    OBVIOUS
  <2>1. CASE s = opSect
    BY <2>1, DeleteEntries
  <2>2. CASE s # opSect
    BY <2>2, DeleteEntries
  <2> QED BY <2>1, <2>2
<1>3. Stored' = Stored /\ Late' = Late
  BY <1>1, <1>2, SameView
<1> QED BY <1>1, <1>3, StaysBusy, Stutters

LEMMA PowerFailsMaps == ASSUME NvInv, PowerFails PROVE Mapped
<1>1. flag' = flag /\ Done
  BY DEF PowerFails
<1>2. \A s \in Sectors : \A i \in Item : Lookup(entries'[s], i) = Lookup(entries[s], i)
  <2> SUFFICES ASSUME NEW s \in Sectors, NEW i \in Item
               PROVE  Lookup(entries'[s], i) = Lookup(entries[s], i)
    OBVIOUS
  <2>1. CASE entries' = entries
    BY <2>1
  <2>2. CASE entries' # entries /\ s = opSect
    BY <2>2, TornEntries
  <2>3. CASE entries' # entries /\ s # opSect
    BY <2>3, TornEntries
  <2> QED BY <2>1, <2>2, <2>3
<1>3. Stored' = Stored /\ Late' = Late
  BY <1>1, <1>2, SameView
<1> QED BY <1>1, <1>3, DoneIsIdle, MapCut

LEMMA EraseFirstMaps == ASSUME NvInv, EraseFirst PROVE Mapped
<1>0. /\ NvTypeOK /\ Erase(0) /\ 0 \in Sectors /\ call' = call /\ call = Reset
      /\ Busy = Reset /\ Reset # Idle
  BY BusyWith DEF EraseFirst, NvInv, Sectors, Calls
<1>1. flag'[0] = "idle" /\ flag'[1] = flag[1] /\ entries'[1] = entries[1]
  BY <1>0, EraseTypes DEF Sectors
<1>2. ~ Usable(0)' /\ (Usable(1)' <=> Usable(1))
  BY <1>1 DEF Usable
<1>3. Contents(1)' = Contents(1)
  BY <1>1 DEF Contents
<1>4. Late' = {} /\ Busy' = Busy
  BY <1>0, <1>2, NextView, StaysBusy
<1>5. CASE Usable(0) /\ Usable(1)
  <2>1. Stored' \in Late
    BY <1>2, <1>3, <1>5, View, NextView
  <2> QED BY <1>0, <1>4, <2>1, MapUncovers
<1>6. CASE Usable(0) /\ ~ Usable(1)
  <2>1. Stored' = Items!Applied(Stored, Busy)
    BY <1>0, <1>2, <1>6, NextView, AppliedReset
  <2> QED BY <1>0, <1>4, <2>1, MapTakes
<1>7. CASE ~ Usable(0)
  <2>1. Stored' = Stored /\ Late' = Late
    BY <1>2, <1>3, <1>4, <1>7, View, NextView
  <2> QED BY <1>4, <2>1, Stutters
<1> QED BY <1>5, <1>6, <1>7

LEMMA EraseSecondMaps == ASSUME NvInv, EraseSecond PROVE Mapped
<1>0. /\ NvTypeOK /\ Erase(1) /\ 1 \in Sectors /\ Done /\ call = Reset
      /\ Busy = Reset /\ Reset # Idle /\ flag[0] = "idle"
  BY BusyWith DEF EraseSecond, NvInv, Sectors, Calls, FlagsFit
<1>1. flag'[1] = "idle" /\ flag'[0] = "idle"
  BY <1>0, EraseTypes DEF Sectors
<1>2. ~ Usable(0)' /\ ~ Usable(1)'
  BY <1>1 DEF Usable
<1>3. Stored' = Items!Applied(Stored, Busy) /\ Late' = {}
  BY <1>0, <1>2, NextView, AppliedReset
<1> QED BY <1>0, <1>3, DoneIsIdle, MapEnds

(* Writing where a read looks too, the valid index takes effect.           *)
LEMMA CloseItemMaps == ASSUME NvInv, CloseItem PROVE Mapped
<1>0. /\ pc = "close" /\ flag' = flag /\ call' = call
  BY DEF CloseItem
<1>1. /\ call \in Writes /\ opSect \in Sectors /\ Busy # Idle /\ Busy' = Busy
  BY <1>0, WritingFacts, BusyWith, StaysBusy
<1>2. /\ \A t \in Sectors : t # opSect => entries'[t] = entries[t]
      /\ Lookup(entries'[opSect], call.item) = call.value
      /\ \A i \in Item \ {call.item} : Lookup(entries'[opSect], i) = Lookup(entries[opSect], i)
  BY CloseEntries
<1>3. CASE ~ Usable(opSect)
  <2>1. \A s \in Sectors : Usable(s) => s # opSect
    BY <1>3
  <2>2. Stored' = Stored /\ Late' = Late
    BY <1>0, <1>2, <2>1, SameView
  <2> QED BY <1>1, <2>2, Stutters
<1>4. CASE Usable(opSect)
  <2>1. opSect = 1 => ~ Usable(0)
    BY <1>0, <1>4 DEF NvInv, FlagsFit, First, HasSector, Sectors, Usable
  <2>2. (Usable(0)' <=> Usable(0)) /\ (Usable(1)' <=> Usable(1))
    BY <1>0 DEF Usable
  <2>3. [i \in Item |-> Lookup(entries'[opSect], i)]
          = Items!Applied([i \in Item |-> Lookup(entries[opSect], i)], Busy)
    BY <1>1, <1>2, AppliedWrite
  <2>4. CASE opSect = 0
    <3>1. Contents(0)' = Items!Applied(Contents(0), Busy)
      BY <2>3, <2>4 DEF Contents
    <3>2. Contents(1)' = Contents(1)
      BY <1>2, <2>4 DEF Contents, Sectors
    <3>3. Usable(0)
      BY <1>4, <2>4
    <3>4. Stored' = Items!Applied(Stored, Busy) /\ Late' = Late
      BY <2>2, <3>1, <3>2, <3>3, View, NextView
    <3> QED BY <1>1, <3>4, MapTakes
  <2>5. CASE opSect = 1
    <3>1. Contents(1)' = Items!Applied(Contents(1), Busy)
      BY <2>3, <2>5 DEF Contents
    <3>2. Usable(1) /\ ~ Usable(0)
      BY <1>4, <2>1, <2>5
    <3>3. Stored' = Items!Applied(Stored, Busy) /\ Late' = Late
      BY <2>2, <3>1, <3>2, View, NextView
    <3> QED BY <1>1, <3>3, MapTakes
  <2> QED BY <1>1, <2>4, <2>5, SectorsAre
<1> QED BY <1>3, <1>4

(* What the flags are at, when the item is written.                        *)
LEMMA FlagFacts ==
  ASSUME NvInv, pc \in {"flag", "retire", "confirm"}
  PROVE  /\ NvTypeOK /\ call \in Writes /\ Busy # Idle
         /\ opSect \in Sectors /\ oldSect \in Sectors
         /\ Lookup(entries[opSect], call.item) = call.value
         /\ opSect # oldSect => (opSect = 0 /\ oldSect = 1) \/ (opSect = 1 /\ oldSect = 0)
<1>1. /\ NvTypeOK /\ call \in Writes
      /\ opSect \in Sectors /\ oldSect \in Sectors
      /\ Lookup(entries[opSect], call.item) = call.value
  BY DEF NvInv, NvTypeOK, Calls, Writing, ItemFits
<1> QED BY <1>1, BusyWith, SectorsAre

LEMMA SameFlagMaps == ASSUME NvInv, SameFlag PROVE Mapped
<1>0. /\ pc = "flag" /\ opSect = oldSect /\ entries' = entries /\ Done
      /\ NvTypeOK /\ call \in Writes /\ Busy # Idle /\ opSect \in Sectors
      /\ Lookup(entries[opSect], call.item) = call.value
  BY FlagFacts DEF SameFlag
<1>1. CASE flag[opSect] = "valid" /\ (opSect = 1 => ~ Usable(0))
  <2>1. flag' = flag
    BY <1>0, <1>1 DEF SameFlag, NvTypeOK
  <2>2. Stored' = Stored /\ Late' = Late
    BY <1>0, <2>1, SameView
  <2>3. [i \in Item |-> Lookup(entries[opSect], i)]
          = Items!Applied([i \in Item |-> Lookup(entries[opSect], i)], Busy)
    BY <1>0, AppliedWrite
  <2>4. CASE opSect = 0
    <3>1. Stored = [i \in Item |-> Lookup(entries[opSect], i)]
      BY <1>1, <2>4, View DEF Usable, Contents
    <3> QED BY <1>0, <2>2, <2>3, <3>1, DoneIsIdle, MapEnds
  <2>5. CASE opSect = 1
    <3>1. Stored = [i \in Item |-> Lookup(entries[opSect], i)]
      BY <1>1, <2>5, View DEF Usable, Contents
    <3> QED BY <1>0, <2>2, <2>3, <3>1, DoneIsIdle, MapEnds
  <2> QED BY <1>0, <2>4, <2>5, SectorsAre
<1>2. CASE First /\ Len(entries[0]) = 1
  <2>1. opSect = 0 /\ ~ Usable(0) /\ ~ Usable(1)
    BY <1>2 DEF First, HasSector, Sectors
  <2>2. flag' = [flag EXCEPT ![0] = "valid"]
    BY <1>2, <2>1 DEF SameFlag
  <2>3. flag'[0] = "valid" /\ flag'[1] = flag[1]
    BY <1>0, <2>2 DEF NvTypeOK, Sectors
  <2>4. Usable(0)' /\ ~ Usable(1)'
    BY <2>1, <2>3 DEF Usable
  <2>5. \A i \in Item \ {call.item} : Lookup(entries[0], i) = None
    BY <1>0, <1>2, <2>1 DEF NvInv, OthersFit
  <2>6. [i \in Item |-> Lookup(entries[0], i)] = Items!Applied([i \in Item |-> None], Busy)
    BY <1>0, <2>1, <2>5, AppliedFirst
  <2>7. Contents(0)' = [i \in Item |-> Lookup(entries[0], i)]
    BY <1>0 DEF Contents
  <2>8. Stored' = Items!Applied(Stored, Busy) /\ Late' = {}
    BY <2>1, <2>4, <2>6, <2>7, View, NextView
  <2> QED BY <1>0, <2>8, DoneIsIdle, MapEnds
<1>3. \/ flag[opSect] = "valid" /\ (opSect = 1 => ~ Usable(0))
      \/ First /\ Len(entries[0]) = 1
  BY <1>0 DEF NvInv, FlagsFit
<1> QED BY <1>1, <1>2, <1>3

(* The new sector takes effect at once if it is the first one, and waits   *)
(* behind the old one if it is the second.                                 *)
LEMMA ReadyFlagMaps == ASSUME NvInv, ReadyFlag PROVE Mapped
<1>0. /\ pc = "flag" /\ opSect # oldSect /\ entries' = entries /\ call' = call
      /\ flag' = [flag EXCEPT ![opSect] = "ready"] /\ "ready" \in Flags
      /\ NvTypeOK /\ call \in Writes /\ Busy # Idle /\ opSect \in Sectors
      /\ Lookup(entries[opSect], call.item) = call.value
  BY FlagFacts DEF ReadyFlag, Flags
<1>1. flag[oldSect] = "valid" /\ flag[opSect] = "idle"
  BY <1>0 DEF NvInv, FlagsFit
<1>2. \A i \in Item \ {call.item} : Lookup(entries[opSect], i) = Lookup(entries[oldSect], i)
  BY <1>0 DEF NvInv, OthersFit
<1>3. [i \in Item |-> Lookup(entries[opSect], i)]
        = Items!Applied([i \in Item |-> Lookup(entries[oldSect], i)], Busy)
  BY <1>0, <1>2, AppliedWrite
<1>4. /\ flag'[opSect] = "ready"
      /\ \A t \in Sectors : t # opSect => flag'[t] = flag[t]
  BY <1>0, FlagTypes
<1>5. Busy' = Busy /\ \A s : Contents(s)' = Contents(s)
  BY <1>0, StaysBusy, SameContents
<1>6. CASE opSect = 1 /\ oldSect = 0
  <2>1. Usable(0) /\ ~ Usable(1) /\ Usable(0)' /\ Usable(1)'
    BY <1>1, <1>4, <1>6 DEF Usable, Sectors
  <2>2. Contents(1) = Items!Applied(Contents(0), Busy)
    BY <1>3, <1>6 DEF Contents
  <2>3. Stored' = Stored /\ Late' = {Items!Applied(Stored, Busy)}
    BY <1>5, <2>1, <2>2, View, NextView
  <2> QED BY <1>0, <1>5, <2>3, MapPrepares
<1>7. CASE opSect = 0 /\ oldSect = 1
  <2>1. ~ Usable(0) /\ Usable(1) /\ Usable(0)' /\ Usable(1)'
    BY <1>1, <1>4, <1>7 DEF Usable, Sectors
  <2>2. Contents(0) = Items!Applied(Contents(1), Busy)
    BY <1>3, <1>7 DEF Contents
  <2>3. Stored' = Items!Applied(Stored, Busy) /\ Late' = {Stored}
    BY <1>5, <2>1, <2>2, View, NextView
  <2> QED BY <1>0, <1>5, <2>3, MapTakes
<1> QED BY <1>0, <1>6, <1>7, FlagFacts

LEMMA RetireFlagMaps == ASSUME NvInv, RetireFlag PROVE Mapped
<1>0. /\ pc = "retire" /\ entries' = entries /\ call' = call
      /\ flag' = [flag EXCEPT ![oldSect] = "invalid"] /\ "invalid" \in Flags
      /\ NvTypeOK /\ call \in Writes /\ Busy # Idle /\ oldSect \in Sectors
      /\ Lookup(entries[opSect], call.item) = call.value
  BY FlagFacts DEF RetireFlag, Flags
<1>1. flag[oldSect] = "valid" /\ flag[opSect] = "ready" /\ opSect # oldSect
  BY <1>0 DEF NvInv, FlagsFit
<1>2. /\ flag'[oldSect] = "invalid"
      /\ \A t \in Sectors : t # oldSect => flag'[t] = flag[t]
  BY <1>0, FlagTypes
<1>3. Busy' = Busy /\ \A s : Contents(s)' = Contents(s)
  BY <1>0, StaysBusy, SameContents
<1>4. CASE opSect = 1 /\ oldSect = 0
  <2>1. Usable(0) /\ ~ Usable(0)' /\ Usable(1)'
    BY <1>1, <1>2, <1>4 DEF Usable, Sectors
  <2>2. \A i \in Item \ {call.item} : Lookup(entries[opSect], i) = Lookup(entries[oldSect], i)
    BY <1>0, <1>1 DEF NvInv, OthersFit
  <2>3. [i \in Item |-> Lookup(entries[opSect], i)]
          = Items!Applied([i \in Item |-> Lookup(entries[oldSect], i)], Busy)
    BY <1>0, <2>2, AppliedWrite
  <2>4. Contents(1) = Items!Applied(Contents(0), Busy)
    BY <1>4, <2>3 DEF Contents
  <2>5. Stored' = Items!Applied(Stored, Busy) /\ Late' = {}
    BY <1>3, <2>1, <2>4, View, NextView
  <2> QED BY <1>0, <1>3, <2>5, MapTakes
<1>5. CASE opSect = 0 /\ oldSect = 1
  <2>1. Usable(0) /\ Usable(0)' /\ ~ Usable(1)'
    BY <1>1, <1>2, <1>5 DEF Usable, Sectors
  <2>2. Stored' = Stored /\ Late' = {}
    BY <1>3, <2>1, View, NextView
  <2> QED BY <1>3, <2>2, MapForgets
<1> QED BY <1>0, <1>1, <1>4, <1>5, FlagFacts

LEMMA ConfirmFlagMaps == ASSUME NvInv, ConfirmFlag PROVE Mapped
<1>0. /\ pc = "confirm" /\ entries' = entries /\ Done
      /\ flag' = [flag EXCEPT ![opSect] = "valid"] /\ "valid" \in Flags
      /\ NvTypeOK /\ call \in Writes /\ Busy # Idle /\ opSect \in Sectors
      /\ Lookup(entries[opSect], call.item) = call.value
  BY FlagFacts DEF ConfirmFlag, Flags
<1>1. flag[oldSect] = "invalid" /\ flag[opSect] = "ready" /\ opSect # oldSect
  BY <1>0 DEF NvInv, FlagsFit
<1>2. /\ flag'[opSect] = "valid"
      /\ \A t \in Sectors : t # opSect => flag'[t] = flag[t]
  BY <1>0, FlagTypes
<1>3. [i \in Item |-> Lookup(entries[opSect], i)]
        = Items!Applied([i \in Item |-> Lookup(entries[opSect], i)], Busy)
  BY <1>0, AppliedWrite
<1>4. \A s : Contents(s)' = Contents(s)
  BY <1>0, SameContents
<1>5. CASE opSect = 1 /\ oldSect = 0
  <2>1. ~ Usable(0) /\ Usable(1) /\ ~ Usable(0)' /\ Usable(1)'
    BY <1>1, <1>2, <1>5 DEF Usable, Sectors
  <2>2. Contents(1) = Items!Applied(Contents(1), Busy)
    BY <1>3, <1>5 DEF Contents
  <2>3. Stored' = Items!Applied(Stored, Busy) /\ Late' = {}
    BY <1>4, <2>1, <2>2, View, NextView
  <2> QED BY <1>0, <2>3, DoneIsIdle, MapEnds
<1>6. CASE opSect = 0 /\ oldSect = 1
  <2>1. Usable(0) /\ ~ Usable(1) /\ Usable(0)' /\ ~ Usable(1)'
    BY <1>1, <1>2, <1>6 DEF Usable, Sectors
  <2>2. Contents(0) = Items!Applied(Contents(0), Busy)
    BY <1>3, <1>6 DEF Contents
  <2>3. Stored' = Items!Applied(Stored, Busy) /\ Late' = {}
    BY <1>4, <2>1, <2>2, View, NextView
  <2> QED BY <1>0, <2>3, DoneIsIdle, MapEnds
<1> QED BY <1>0, <1>1, <1>5, <1>6, FlagFacts

-----------------------------------------------------------------------------
LEMMA ItemsStart == NvInit => Items!ItemsInit
<1> SUFFICES ASSUME NvInit PROVE Items!ItemsInit
  OBVIOUS
<1>1. flag[0] = "idle" /\ flag[1] = "idle" /\ call = Idle
  BY DEF NvInit, AtRest, Sectors
<1>2. ~ Usable(0) /\ ~ Usable(1)
  BY <1>1 DEF Usable
<1>3. Stored = [i \in Item |-> None] /\ Late = {} /\ Busy = Idle
  BY <1>1, <1>2, View, BusyWith
<1> QED BY <1>3 DEF Items!ItemsInit, Items!Empty, Items!Idle, Idle, Busy

LEMMA NvMaps == NvInv /\ [NvNext]_vars => Mapped
<1> SUFFICES ASSUME NvInv, [NvNext]_vars PROVE Mapped
  OBVIOUS
<1>1. CASE Called
  BY <1>1, CalledMaps
<1>2. CASE TakesOver
  BY <1>2, TakesOverMaps
<1>3. CASE nv_flashReadNew
  BY <1>3, ReadMaps
<1>4. CASE NoSector
  BY <1>4, NoSectorMaps
<1>5. CASE SameSector
  BY <1>5, SameSectorMaps
<1>6. CASE SectorUpdate
  BY <1>6, SectorUpdateMaps
<1>7. CASE Dedup
  BY <1>7, DedupMaps
<1>8. CASE DedupEnds
  BY <1>8, DedupEndsMaps
<1>9. CASE CopyItem
  BY <1>9, CopyItemMaps
<1>10. CASE CopyEnds
  BY <1>10, CopyEndsMaps
<1>11. CASE OpenItem
  BY <1>11, OpenItemMaps
<1>12. CASE CloseItem
  BY <1>12, CloseItemMaps
<1>13. CASE DeleteOld
  BY <1>13, DeleteOldMaps
<1>14. CASE SameFlag
  BY <1>14, SameFlagMaps
<1>15. CASE ReadyFlag
  BY <1>15, ReadyFlagMaps
<1>16. CASE RetireFlag
  BY <1>16, RetireFlagMaps
<1>17. CASE ConfirmFlag
  BY <1>17, ConfirmFlagMaps
<1>18. CASE EraseFirst
  BY <1>18, EraseFirstMaps
<1>19. CASE EraseSecond
  BY <1>19, EraseSecondMaps
<1>20. CASE PowerFails
  BY <1>20, PowerFailsMaps
<1>21. CASE UNCHANGED vars
  <2>1. UNCHANGED <<flag, entries, call>>
    BY <1>21 DEF vars
  <2>2. Stored' = Stored /\ Late' = Late
    BY <2>1, SameView
  <2> QED BY <2>1, <2>2, StaysBusy, Stutters
<1> QED BY <1>1, <1>2, <1>3, <1>4, <1>5, <1>6, <1>7, <1>8, <1>9, <1>10, <1>11,
           <1>12, <1>13, <1>14, <1>15, <1>16, <1>17, <1>18, <1>19, <1>20, <1>21
        DEF NvNext

(* Whatever write the power cuts off, and wherever: each item holds what   *)
(* its last write put there, or a write that was cut off, and no write     *)
(* touches another item (drv_nv.c:204-257, 568-780).                       *)
THEOREM StoreImplementsItems == NvSpec => ImplementsItems
<1>1. NvInv /\ [NvNext]_vars => [Items!ItemsNext]_Items!vars
  BY NvMaps DEF Mapped
<1> QED BY ItemsStart, NvInvariance, <1>1, PTL DEF NvSpec, ImplementsItems, Items!ItemsSpec
=============================================================================
