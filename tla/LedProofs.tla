-------------------------------- MODULE LedProofs --------------------------------
(***************************************************************************)
(* Proofs about Led: what the users of the LED may count on, for a byte    *)
(* and identify times of any size.  The number of flashes a blink still    *)
(* owes and those it has done make up what was asked for (Owed), which is  *)
(* what NeverLeftOn and the types lack to be inductive.                    *)
(***************************************************************************)
EXTENDS Led, Integers, TLAPS

(* The flashes a byte stands for: the count is taken before it is tested. *)
Flashes(byte) == IF byte = 0 THEN Byte ELSE byte

Due == Flashes(request.wanted % Byte) - (IF request.inPause THEN 1 ELSE 0)

Owed ==
  blink.timer =>
    /\ request.wanted > 0
    /\ request.flashes + Flashes(blink.times) = IF blink.sta THEN Due ELSE Due + 1

LedInv == LedTypeOK /\ NeverLeftOn /\ Owed

USE LedAssumption

-----------------------------------------------------------------------------
(* Arithmetic of a byte. *)

LEMMA ByteOf ==
  ASSUME NEW n \in Nat
  PROVE  n % Byte \in 0 .. Byte - 1 /\ (n < Byte => n % Byte = n)
  BY SMT

LEMMA OneLess ==
  ASSUME NEW n \in 0 .. Byte - 1
  PROVE  /\ Less(n) \in 0 .. Byte - 1
         /\ Less(n) = 0 <=> Flashes(n) = 1
         /\ Flashes(n) # 1 => Flashes(Less(n)) = Flashes(n) - 1
<1>1. CASE n = 0
  <2>1. Less(n) = (Byte - 1) % Byte
    BY <1>1 DEF Less
  <2>2. Less(n) = Byte - 1
    BY <2>1, ByteOf
  <2> QED BY <1>1, <2>2 DEF Flashes
<1>2. CASE n # 0
  <2>1. n + Byte - 1 = Byte + (n - 1) /\ n - 1 \in 0 .. Byte - 1
    BY <1>2
  <2>2. (n + Byte - 1) % Byte = n - 1
    BY <2>1, SMTT(30)
  <2> QED BY <1>2, <2>1, <2>2 DEF Less, Flashes
<1> QED BY <1>1, <1>2

-----------------------------------------------------------------------------
(* Starts and stops. *)

LEMMA StartKeeps ==
  ASSUME LedInv, NEW n \in 1 .. MaxTime + Byte, NEW running \in BOOLEAN,
         running => blink.timer, Start(n, running)
  PROVE  /\ lit' \in BOOLEAN
         /\ blink' \in [timer : BOOLEAN, sta : BOOLEAN, times : 0 .. Byte - 1]
         /\ request' \in [wanted : 0 .. MaxTime + Byte, inPause : BOOLEAN, flashes : 0 .. Byte]
         /\ NeverLeftOn' /\ Owed'
<1>1. n % Byte \in 0 .. Byte - 1
  BY ByteOf
<1>2. request' = [wanted |-> n, inPause |-> running /\ ~blink.sta, flashes |-> 0]
  BY DEF Start
<1>3. CASE running
  <2>1. blink' = [timer |-> TRUE, sta |-> blink.sta, times |-> n % Byte]
    BY <1>3 DEF Start, LedInv, LedTypeOK
  <2>2. lit' = lit
    BY <1>3 DEF Start, LedInv, LedTypeOK
  <2>3. NeverLeftOn'
    BY <1>3, <2>1, <2>2 DEF NeverLeftOn, LedInv
  <2>4. blink.sta \in BOOLEAN
    BY DEF LedInv, LedTypeOK
  <2>5. Owed'
    <3>1. /\ request'.wanted = n /\ request'.flashes = 0 /\ request'.inPause = (~blink.sta)
          /\ blink'.times = n % Byte /\ blink'.sta = blink.sta
      BY <1>2, <1>3, <2>1, <2>4, ZenonT(20)
    <3>2. Flashes(n % Byte) \in Int /\ n > 0
      BY <1>1 DEF Flashes
    <3>3. Due' = Flashes(n % Byte) - (IF blink.sta THEN 0 ELSE 1)
      BY <2>4, <3>1 DEF Due, Flashes
    <3>4. Flashes(blink.times)' = Flashes(n % Byte)
      BY <3>1 DEF Flashes
    <3>5. Flashes(n % Byte) = IF blink.sta THEN Due' ELSE Due' + 1
      BY <2>4, <3>2, <3>3
    <3>6. request'.wanted > 0 /\ request'.flashes + Flashes(blink.times)' = Flashes(n % Byte)
      BY <3>1, <3>2, <3>4
    <3> QED BY <3>1, <3>5, <3>6 DEF Owed
  <2> QED BY <1>1, <1>2, <1>3, <2>1, <2>2, <2>3, <2>4, <2>5 DEF LedInv, LedTypeOK
<1>4. CASE ~running
  <2>1. blink' = [timer |-> TRUE, sta |-> TRUE, times |-> n % Byte]
    BY <1>4 DEF Start
  <2>2. lit' = TRUE
    BY <1>4 DEF Start, LedInv, LedTypeOK
  <2>3. NeverLeftOn'
    BY <2>1, <2>2 DEF NeverLeftOn
  <2>4. Owed'
    BY <1>1, <1>2, <1>4, <2>1 DEF Owed, Due, Flashes
  <2> QED BY <1>1, <1>2, <1>4, <2>1, <2>2, <2>3, <2>4
<1> QED BY <1>3, <1>4

LEMMA StopKeeps ==
  ASSUME LedInv, light_blink_stop
  PROVE  /\ lit' \in BOOLEAN
         /\ blink' \in [timer : BOOLEAN, sta : BOOLEAN, times : 0 .. Byte - 1]
         /\ request' \in [wanted : 0 .. MaxTime + Byte, inPause : BOOLEAN, flashes : 0 .. Byte]
         /\ NeverLeftOn' /\ Owed'
<1>1. request' = request
  BY DEF light_blink_stop
<1>2. CASE blink.timer
  <2>1. blink' = [timer |-> FALSE, sta |-> blink.sta, times |-> 0]
    BY <1>2 DEF light_blink_stop, LedInv, LedTypeOK
  <2>2. lit' = FALSE
    BY <1>2 DEF light_blink_stop
  <2>3. blink.sta \in BOOLEAN /\ 0 \in 0 .. Byte - 1
    BY DEF LedInv, LedTypeOK
  <2>4. NeverLeftOn' /\ Owed'
    BY <2>1, <2>2 DEF NeverLeftOn, Owed
  <2> QED BY <1>1, <2>1, <2>2, <2>3, <2>4 DEF LedInv, LedTypeOK
<1>3. CASE ~blink.timer
  <2>1. blink' = blink /\ lit' = lit
    BY <1>3 DEF light_blink_stop, LedInv, LedTypeOK
  <2> QED BY <1>1, <1>3, <2>1 DEF LedInv, LedTypeOK, NeverLeftOn, Owed
<1> QED BY <1>2, <1>3 DEF LedInv, LedTypeOK

(* The timer: a flash begins, a flash ends, or the last pause is over.     *)
LEMMA TimerKeeps ==
  ASSUME LedInv, zclLightTimerCb
  PROVE  LedInv' /\ (~blink'.timer => request.flashes = Due)
<1> DEFINE left == IF Counts THEN Less(blink.times) ELSE blink.times
<1>1. /\ blink.timer /\ blink.sta \in BOOLEAN /\ blink.times \in 0 .. Byte - 1
      /\ request.flashes \in 0 .. Byte /\ Due \in Int /\ request.wanted > 0
      /\ lit = blink.sta /\ lit \in BOOLEAN
  <2>1. request.wanted % Byte \in 0 .. Byte - 1
    BY ByteOf DEF LedInv, LedTypeOK
  <2> QED BY <2>1 DEF zclLightTimerCb, LedInv, LedTypeOK, NeverLeftOn, Owed, Due, Flashes
<1>2. identify' = identify /\ written' = written
  BY DEF zclLightTimerCb
<1>3. /\ Less(blink.times) \in 0 .. Byte - 1
      /\ Less(blink.times) = 0 <=> Flashes(blink.times) = 1
      /\ Flashes(blink.times) # 1
           => Flashes(Less(blink.times)) = Flashes(blink.times) - 1
  BY <1>1, OneLess
<1>4. CASE blink.sta
  <2>1. /\ blink' = [timer |-> TRUE, sta |-> FALSE, times |-> blink.times]
        /\ lit' = FALSE
        /\ request' = [wanted |-> request.wanted, inPause |-> request.inPause,
                       flashes |-> request.flashes + 1]
    BY <1>1, <1>4 DEF zclLightTimerCb, Counts, LedInv, LedTypeOK
  <2>2. request.flashes + Flashes(blink.times) = Due /\ Due <= Byte
    <3>1. request.wanted % Byte \in 0 .. Byte - 1
      BY ByteOf DEF LedInv, LedTypeOK
    <3> QED BY <1>1, <1>4, <3>1 DEF LedInv, Owed, Due, Flashes
  <2>3. request.flashes + 1 \in 0 .. Byte
    BY <1>1, <2>2 DEF Flashes
  <2>4. Due' = Due
    BY <2>1 DEF Due
  <2>5. Owed'
    BY <1>1, <2>1, <2>2, <2>4 DEF Owed, Flashes
  <2>6. LedTypeOK'
    BY <1>1, <1>2, <2>1, <2>3 DEF LedInv, LedTypeOK
  <2> QED BY <2>1, <2>5, <2>6 DEF LedInv, NeverLeftOn
<1>5. CASE ~blink.sta /\ Less(blink.times) = 0
  <2>1. /\ blink' = [timer |-> FALSE, sta |-> FALSE, times |-> 0]
        /\ lit' = lit /\ request' = request
    BY <1>1, <1>5 DEF zclLightTimerCb, Counts, LedInv, LedTypeOK
  <2>2. request.flashes = Due
    BY <1>1, <1>3, <1>5 DEF LedInv, Owed
  <2>3. LedTypeOK'
    BY <1>1, <1>2, <2>1 DEF LedInv, LedTypeOK
  <2> QED BY <1>1, <1>5, <2>1, <2>2, <2>3 DEF LedInv, NeverLeftOn, Owed
<1>6. CASE ~blink.sta /\ Less(blink.times) # 0
  <2>1. /\ blink' = [timer |-> TRUE, sta |-> TRUE, times |-> Less(blink.times)]
        /\ lit' = TRUE /\ request' = request
    BY <1>1, <1>6 DEF zclLightTimerCb, Counts, LedInv, LedTypeOK
  <2>2. Due' = Due
    BY <2>1 DEF Due
  <2>3. Owed'
    <3>1. request.flashes + Flashes(blink.times) = Due + 1
      BY <1>1, <1>6 DEF LedInv, Owed
    <3>2. Flashes(Less(blink.times)) = Flashes(blink.times) - 1
      BY <1>3, <1>6
    <3>3. Flashes(blink.times) \in Int
      BY <1>1 DEF Flashes
    <3> QED BY <1>1, <2>1, <2>2, <3>1, <3>2, <3>3 DEF Owed
  <2>4. LedTypeOK'
    BY <1>1, <1>2, <1>3, <2>1 DEF LedInv, LedTypeOK
  <2> QED BY <2>1, <2>3, <2>4 DEF LedInv, NeverLeftOn
<1> QED BY <1>1, <1>4, <1>5, <1>6

-----------------------------------------------------------------------------
LEMMA AtStart ==
  /\ Dark \in [timer : BOOLEAN, sta : BOOLEAN, times : 0 .. Byte - 1]
  /\ NotIdentifying \in [timer : BOOLEAN, time : 0 .. MaxTime]
  /\ NothingAsked \in [wanted : 0 .. MaxTime + Byte, inPause : BOOLEAN, flashes : 0 .. Byte]
  /\ Dark.timer = FALSE
<1>1. 0 \in 0 .. Byte - 1 /\ 0 \in 0 .. MaxTime /\ 0 \in 0 .. MaxTime + Byte /\ 0 \in 0 .. Byte
  OBVIOUS
<1> QED BY <1>1 DEF Dark, NotIdentifying, NothingAsked

LEMMA InitLedInv == LedInit => LedInv
  BY AtStart DEF LedInit, LedInv, LedTypeOK, NeverLeftOn, Owed

LEMMA NextLedInv == LedInv /\ [LedNext]_ledVars => LedInv'
<1> SUFFICES ASSUME LedInv, [LedNext]_ledVars PROVE LedInv'
  OBVIOUS
<1>0. blink.timer \in BOOLEAN
  BY DEF LedInv, LedTypeOK
<1>1. CASE Users
  <2>1. identify' = identify /\ written' = written
    BY <1>1 DEF Users, Heartbeat, KeyDown, KeyHeld, Joined, NotJoined, Effect, Others
  <2>2. CASE light_blink_stop
    BY <2>1, <2>2, StopKeeps DEF LedInv, LedTypeOK
  <2>3. CASE \E n \in 1 .. MaxTime + Byte : light_blink_start(n) \/ StopAndStart(n)
    <3>1. PICK n \in 1 .. MaxTime + Byte, running \in BOOLEAN :
            (running => blink.timer) /\ Start(n, running)
      BY <1>0, <2>3 DEF light_blink_start, StopAndStart
    <3> QED BY <2>1, <3>1, StartKeeps DEF LedInv, LedTypeOK
  <2>4. /\ 1 \in 1 .. MaxTime + Byte /\ 2 \in 1 .. MaxTime + Byte /\ 3 \in 1 .. MaxTime + Byte
        /\ Effects \subseteq 1 .. MaxTime + Byte
    OBVIOUS
  <2> QED BY <1>1, <2>2, <2>3, <2>4
          DEF Users, Heartbeat, KeyDown, KeyHeld, Joined, NotJoined, Effect
<1>2. CASE Identify
  <2>1. CASE IdentifyStops
    BY <2>1, StopKeeps, AtStart DEF IdentifyStops, LedInv, LedTypeOK
  <2>2. CASE \E n \in 1 .. MaxTime : IdentifyFor(n)
    <3>1. PICK n \in 1 .. MaxTime : IdentifyFor(n)
      BY <2>2
    <3>2. /\ identify' = [timer |-> TRUE, time |-> n] /\ written' = FALSE
          /\ identify' \in [timer : BOOLEAN, time : 0 .. MaxTime]
      BY <3>1 DEF IdentifyFor
    <3>5. n \in 1 .. MaxTime + Byte
      OBVIOUS
    <3>3. CASE identify.timer
      <4>1. lit' = lit /\ blink' = blink /\ request' = request
        BY <3>1, <3>3 DEF IdentifyFor
      <4> QED BY <3>2, <4>1 DEF LedInv, LedTypeOK, NeverLeftOn, Owed, Due
    <3>4. CASE ~identify.timer
      <4>1. Start(n, blink.timer)
        BY <3>1, <3>4 DEF IdentifyFor, light_blink_start
      <4>2. /\ lit' \in BOOLEAN
            /\ blink' \in [timer : BOOLEAN, sta : BOOLEAN, times : 0 .. Byte - 1]
            /\ request' \in [wanted : 0 .. MaxTime + Byte, inPause : BOOLEAN, flashes : 0 .. Byte]
            /\ NeverLeftOn' /\ Owed'
        BY <1>0, <3>5, <4>1, StartKeeps
      <4> QED BY <3>2, <4>2 DEF LedInv, LedTypeOK
    <3> QED BY <3>3, <3>4
  <2> QED BY <1>2, <2>1, <2>2 DEF Identify
<1>3. CASE WriteIdentifyTime \/ app_zclIdentifyTimerCb
  <2>1. lit' = lit /\ blink' = blink /\ request' = request
    BY <1>3 DEF WriteIdentifyTime, app_zclIdentifyTimerCb
  <2>2. \E n \in 0 .. MaxTime, timer \in BOOLEAN :
          identify' = [timer |-> timer, time |-> n]
    <3>1. CASE WriteIdentifyTime
      <4>1. PICK n \in 0 .. MaxTime : identify' = [identify EXCEPT !.time = n]
        BY <3>1 DEF WriteIdentifyTime
      <4>2. identify.timer \in BOOLEAN /\ identify' = [timer |-> identify.timer, time |-> n]
        BY <4>1 DEF LedInv, LedTypeOK
      <4> QED BY <4>2
    <3>2. CASE app_zclIdentifyTimerCb /\ identify.time = 0
      <4>1. identify' = [timer |-> FALSE, time |-> 0] /\ 0 \in 0 .. MaxTime
        BY <3>2 DEF app_zclIdentifyTimerCb, LedInv, LedTypeOK
      <4> QED BY <4>1
    <3>3. CASE app_zclIdentifyTimerCb /\ identify.time # 0
      <4>1. identify' = [timer |-> TRUE, time |-> identify.time - 1]
        BY <3>3 DEF app_zclIdentifyTimerCb, LedInv, LedTypeOK
      <4>2. identify.time - 1 \in 0 .. MaxTime
        BY <3>3 DEF LedInv, LedTypeOK
      <4> QED BY <4>1, <4>2
    <3> QED BY <1>3, <3>1, <3>2, <3>3
  <2>3. identify' \in [timer : BOOLEAN, time : 0 .. MaxTime]
    BY <2>2
  <2>4. written' \in BOOLEAN
    BY <1>3 DEF WriteIdentifyTime, app_zclIdentifyTimerCb, LedInv, LedTypeOK
  <2> QED BY <2>1, <2>3, <2>4 DEF LedInv, LedTypeOK, NeverLeftOn, Owed, Due
<1>4. CASE zclLightTimerCb
  BY <1>4, TimerKeeps
<1>5. CASE LedRestart
  BY <1>5, AtStart DEF LedRestart, LedInv, LedTypeOK, NeverLeftOn, Owed
<1>6. CASE UNCHANGED ledVars
  BY <1>6 DEF ledVars, LedInv, LedTypeOK, NeverLeftOn, Owed, Due
<1> QED BY <1>1, <1>2, <1>3, <1>4, <1>5, <1>6 DEF LedNext

LEMMA AlwaysLedInv == LedSpec => []LedInv
  BY InitLedInv, NextLedInv, PTL DEF LedSpec

(* Every count of flashes and of seconds stays in its range, however the   *)
(* users of the LED get into each other's way (app_led.c:32-90,            *)
(* zcl_appCb.c:300-379).                                                   *)
THEOREM LedIsTyped == LedSpec => []LedTypeOK
  BY AlwaysLedInv, PTL DEF LedInv

(* The LED is never left on: while it is lit its timer runs, and knows it  *)
(* (app_led.c:56-90).                                                      *)
THEOREM LedGoesDark == LedSpec => []NeverLeftOn
  BY AlwaysLedInv, PTL DEF LedInv

(* A blink that ends by itself has flashed as often as the last start      *)
(* asked for, or once less when that came in a pause (app_led.c:36-42).    *)
THEOREM BlinkEndsAsAsked == LedSpec => EndsAsAsked
<1>1. ASSUME LedInv, zclLightTimerCb, ~blink'.timer, request.wanted < Byte
      PROVE  request.flashes = Answered
  <2>1. request.flashes = Due
    BY <1>1, TimerKeeps
  <2>2. /\ request.wanted % Byte = request.wanted
        /\ request.wanted \in Nat /\ request.wanted > 0
    BY <1>1, ByteOf DEF LedInv, LedTypeOK, Owed, zclLightTimerCb
  <2> QED BY <1>1, <2>1, <2>2 DEF Answered, Due, Flashes
<1>2. LedInv /\ [LedNext]_ledVars
        => [(zclLightTimerCb /\ ~blink'.timer /\ request.wanted < Byte)
             => request.flashes = Answered]_ledVars
  BY <1>1
<1> QED BY <1>2, AlwaysLedInv, PTL DEF LedSpec, EndsAsAsked
=============================================================================
