--------------------------- MODULE Upkeep_proofs ----------------------------
(***************************************************************************)
(* What the components without sequences of MCServices keep, for any       *)
(* callers, buckets, checks, limits and languages: the cleaner of          *)
(* zcache/fast, the memory limiter of zutil and zlocale.  Each part states *)
(* the invariant that its steps keep, the step, and the theorem, which is  *)
(* about the module on its own.                                            *)
(***************************************************************************)
EXTENDS Cleaner, MemLimiter, Locale, FiniteSetTheorems, WellFoundedInduction, TLAPS
-----------------------------------------------------------------------------
(* The cleaner: as long as no Close meets a Set or another Close, a channel *)
(* is open exactly while cleanerOn says so, and Close never finds one left. *)

ClAts == {"none", "select", "level", "sweep", "empty", "stop", "gone"}
ClTypes ==
    /\ cleanerOn \in BOOLEAN /\ shared \in BOOLEAN /\ stopCh \in Chs \cup {0} /\ closedChs \subseteq Chs
    /\ cleanerLevel \in Int
    /\ DOMAIN cleaners = Chs /\ \A c \in Chs : "at" \in DOMAIN cleaners[c] /\ cleaners[c].at \in ClAts
    /\ setter \in [Setters -> {"idle", "stamp", "level", "zero", "start"}]
    /\ closer \in [Closes -> {"idle", "stop", "nil?", "open?", "close", "panic"}]
\* One channel, or none.
OneChannel == stopCh = 0 <=> ~cleanerOn
\* Who has stopped the cleaner finds no channel, as nobody starts another.
CloseFindsNone ==
    /\ ~(Setting /\ ClosingNow)
    /\ \A x \in Closes : closer[x] \in {"idle", "stop", "nil?"} /\ (closer[x] = "nil?" => ~cleanerOn)
ClosedWereStarted == \A c \in closedChs : cleaners[c].at # "none"
ClInv ==
    ClTypes /\ (~shared => OneChannel /\ CloseFindsNone /\ ClosedWereStarted /\ CleanerSound)

\* The numbers of channels are used in their order.
LEMMA NextChannel ==
    ASSUME NEW S \in SUBSET Chs, S # {}
    PROVE  \E c \in S : \A d \in Chs : d < c => d \notin S
<1> DEFINE R == OpToRel(<, Nat)
<1>0. S \subseteq Nat /\ Chs \subseteq Nat BY CleanerAssumption DEF Chs
<1>1. IsWellFoundedOn(R, Nat) BY NatLessThanWellFounded
<1>2. \A x, y \in Nat : x < y => <<x, y>> \in R BY DEF OpToRel
<1> HIDE DEF R
<1>3. PICK c \in S : \A e \in S : ~(<<e, c>> \in R) BY <1>0, <1>1, WFMin
<1> QED BY <1>0, <1>2, <1>3

\* A step of a goroutine that neither starts nor stops anything.
LEMMA CleanerMovesOn ==
    ASSUME ClInv, NEW c \in Chs, NEW r, cleaners' = [cleaners EXCEPT ![c] = r], "at" \in DOMAIN r, r.at \in ClAts \ {"none"},
           cleaners[c].at # "none",
           (r.at = "gone" \/ cleaners[c].at = "gone") => c \in closedChs,
           cleanerLevel' \in Int, UNCHANGED <<cleanerOn, stopCh, closedChs, setter, closer, shared>>
    PROVE  ClInv'
<1>1. \A d \in Chs : cleaners'[d] = IF d = c THEN r ELSE cleaners[d] BY DEF ClInv, ClTypes
<1>2. ClTypes' BY <1>1 DEF ClInv, ClTypes
<1>3. Listening' = Listening BY <1>1 DEF Listening
<1>4. ClosedWereStarted => ClosedWereStarted' BY <1>1 DEF ClosedWereStarted, ClInv, ClTypes
<1>5. (OneChannel => OneChannel') /\ (CloseFindsNone => CloseFindsNone')
  BY DEF OneChannel, CloseFindsNone, Setting, ClosingNow
<1>6. CleanerSound => CleanerSound' BY <1>3 DEF CleanerSound
<1> QED BY <1>2, <1>4, <1>5, <1>6 DEF ClInv

LEMMA StopKeeps ==
    ASSUME ClInv, StopCleaner
    PROVE  /\ cleanerOn' \in BOOLEAN /\ stopCh' \in Chs \cup {0} /\ closedChs' \subseteq Chs
           /\ ~shared => ~cleanerOn' /\ stopCh' = 0 /\ Listening \ closedChs' = {}
                         /\ \A c \in closedChs' : cleaners[c].at # "none"
<1>1. cleanerOn \in BOOLEAN /\ stopCh \in Chs \cup {0} /\ closedChs \subseteq Chs BY DEF ClInv, ClTypes
<1>2. cleanerOn' \in BOOLEAN /\ stopCh' \in Chs \cup {0} /\ closedChs' \subseteq Chs BY <1>1 DEF StopCleaner
<1>3. ASSUME ~shared PROVE ~cleanerOn' /\ stopCh' = 0 /\ Listening \ closedChs' = {}
                         /\ \A c \in closedChs' : cleaners[c].at # "none"
  <2>1. Listening = (IF cleanerOn THEN {stopCh} ELSE {}) /\ OneChannel /\ ClosedWereStarted
    BY <1>3 DEF ClInv, CleanerSound
  <2>2. CASE cleanerOn
    <3>1. closedChs' = closedChs \cup {stopCh} /\ ~cleanerOn' /\ stopCh' = 0
      BY <2>1, <2>2 DEF StopCleaner, OneChannel
    <3>2. cleaners[stopCh].at # "none" BY <2>1, <2>2 DEF Listening
    <3> QED BY <2>1, <2>2, <3>1, <3>2 DEF ClosedWereStarted
  <2>3. CASE ~cleanerOn BY <2>1, <2>3 DEF StopCleaner, OneChannel, ClosedWereStarted
  <2> QED BY <2>2, <2>3
<1> QED BY <1>2, <1>3

LEMMA ClStep == ClInv /\ [ClNext]_clVars => ClInv'
<1> SUFFICES ASSUME ClInv, [ClNext]_clVars PROVE ClInv' OBVIOUS
<1>0. ClTypes BY DEF ClInv
<1>r. Resting.at = "select" /\ "at" \in DOMAIN Resting BY DEF Resting, NoCleaner
\* A setter that moves on from somewhere is and stays in its call.
<1>a. ASSUME NEW s \in Setters, NEW from \in {"stamp", "level", "zero", "start"},
             NEW to \in {"idle", "level", "zero", "start"}, SGoes(s, from, to),
             cleanerLevel' \in Int, UNCHANGED <<cleaners, cleanerOn, stopCh, closedChs, closer, shared>>
      PROVE  ClInv'
  <2>1. setter[s] # "idle" BY <1>a DEF SGoes
  <2>2. setter' \in [Setters -> {"idle", "stamp", "level", "zero", "start"}] BY <1>0, <1>a DEF ClTypes, SGoes
  <2>3. Setting BY <2>1 DEF Setting
  <2>4. ClTypes' BY <1>0, <1>a, <2>2 DEF ClTypes
  <2>5. CloseFindsNone => CloseFindsNone' BY <1>a, <2>3 DEF CloseFindsNone, ClosingNow
  <2>6. (OneChannel => OneChannel') /\ (ClosedWereStarted => ClosedWereStarted') /\ (CleanerSound => CleanerSound')
    BY <1>a DEF OneChannel, ClosedWereStarted, CleanerSound, Listening
  <2> QED BY <1>a, <2>4, <2>5, <2>6 DEF ClInv
<1>1. ASSUME NEW s \in Setters, NEW b \in Buckets, Put(s, b) PROVE ClInv'
  <2>1. setter' \in [Setters -> {"idle", "stamp", "level", "zero", "start"}] BY <1>0, <1>1 DEF ClTypes, SGoes, Put
  <2>2. ClTypes' BY <1>0, <1>1, <2>1 DEF ClTypes, Put
  <2>3. ~shared' => ~shared /\ ~ClosingNow' BY <1>1 DEF Put, ClosingNow
  <2>4. ~shared' => CloseFindsNone' BY <1>1, <2>3 DEF CloseFindsNone, ClInv, Put
  <2>5. ~shared' => OneChannel' /\ ClosedWereStarted' /\ CleanerSound'
    BY <1>1, <2>3 DEF OneChannel, ClosedWereStarted, CleanerSound, Listening, ClInv, Put
  <2> QED BY <2>2, <2>4, <2>5 DEF ClInv
<1>2. ASSUME NEW s \in Setters, Stamp(s) \/ LevelLook(s) \/ LevelZero(s) PROVE ClInv'
  <2>1. \/ Stamp(s) \/ LevelZero(s)
        \/ LevelLook(s) BY <1>2
  <2>2. CASE Stamp(s) BY <1>0, <1>a, <2>2 DEF Stamp, ClTypes
  <2>3. CASE LevelZero(s)
    <3>1. PICK to \in {"start", "idle"} : SGoes(s, "zero", to) BY <2>3 DEF LevelZero
    <3> QED BY <1>a, <2>3, <3>1 DEF LevelZero
  <2>4. CASE LevelLook(s)
    <3>1. PICK to \in {"zero", "start", "idle"} : SGoes(s, "level", to) BY <2>4 DEF LevelLook
    <3> QED BY <1>0, <1>a, <2>4, <3>1 DEF LevelLook, ClTypes
  <2> QED BY <2>1, <2>2, <2>3, <2>4
<1>3. ASSUME NEW s \in Setters, StartCleaner(s) PROVE ClInv'
  <2>1. CASE cleanerOn
    <3>1. UNCHANGED <<cleaners, cleanerOn, stopCh>> BY <1>3, <2>1 DEF StartCleaner, Starts
    <3> QED BY <1>0, <1>3, <1>a, <3>1 DEF StartCleaner, ClTypes
  <2>2. CASE ~cleanerOn
    <3> DEFINE S == {c \in Chs : cleaners[c].at = "none"}
               new == CHOOSE c \in Chs : cleaners[c].at = "none" /\ \A d \in Chs : d < c => cleaners[d].at # "none"
    <3>1. S # {} BY <1>3, <2>2 DEF StartCleaner, Starts
    <3>2. \E c \in S : \A d \in Chs : d < c => d \notin S BY <3>1, NextChannel
    <3>3. \E c \in Chs : cleaners[c].at = "none" /\ \A d \in Chs : d < c => cleaners[d].at # "none" BY <3>2
    <3>4. PICK n : n = new OBVIOUS
    <3>5. n \in Chs /\ cleaners[n].at = "none" BY <3>3, <3>4
    <3>6. /\ cleaners' = [cleaners EXCEPT ![n] = Resting] /\ cleanerOn' = TRUE
          /\ stopCh' = (IF stopCh = 0 THEN n ELSE stopCh)
      BY <1>3, <2>2, <3>4 DEF StartCleaner, Starts, Started
    <3> HIDE DEF new, S
    <3>7. \A c \in Chs : cleaners'[c] = IF c = n THEN Resting ELSE cleaners[c] BY <1>0, <3>6 DEF ClTypes
    <3>8. setter' \in [Setters -> {"idle", "stamp", "level", "zero", "start"}]
          /\ UNCHANGED <<cleanerLevel, closedChs, closer, shared>> /\ Setting
      BY <1>0, <1>3 DEF ClTypes, SGoes, StartCleaner, Setting
    <3>9. ClTypes' BY <1>0, <1>r, <3>5, <3>6, <3>7, <3>8 DEF ClTypes, ClAts
    <3>10. ASSUME ~shared PROVE OneChannel' /\ CloseFindsNone' /\ ClosedWereStarted' /\ CleanerSound'
      <4>1. OneChannel /\ CloseFindsNone /\ ClosedWereStarted /\ Listening = {} /\ stopCh = 0 /\ ~ClosingNow
        BY <2>2, <3>8, <3>10 DEF ClInv, CleanerSound, OneChannel, CloseFindsNone
      <4>2. n \notin closedChs /\ n # 0 BY <3>5, <4>1, CleanerAssumption DEF ClosedWereStarted, Chs
      <4>3. OneChannel' BY <3>6, <4>1, <4>2 DEF OneChannel
      <4>4. \A x \in Closes : closer'[x] = "idle" BY <3>8, <4>1 DEF ClosingNow
      <4>5. CloseFindsNone' BY <4>4 DEF CloseFindsNone, ClosingNow
      <4>6. ClosedWereStarted' BY <1>0, <3>7, <3>8, <4>1, <1>r DEF ClosedWereStarted, ClTypes
      <4>7. Listening' = Listening \cup {n} BY <1>r, <3>5, <3>7, <3>8, <4>2 DEF Listening
      <4>8. CleanerSound' BY <3>6, <4>1, <4>4, <4>7 DEF CleanerSound
      <4> QED BY <4>3, <4>5, <4>6, <4>8
    <3> QED BY <3>8, <3>9, <3>10 DEF ClInv
  <2> QED BY <2>1, <2>2
<1>4. ASSUME NEW c \in Chs, CleanBegins(c) \/ CleanLevel(c) \/ CleanBucket(c) \/ LooksEmpty(c) PROVE ClInv'
  <2>0. "at" \in DOMAIN cleaners[c] /\ LevelOf(cleaners[c].idle) \in Int BY <1>0 DEF ClTypes, LevelOf
  <2>1. \E a \in {"level", "stop", "sweep", "empty", "select"} : \E r :
          cleaners' = [cleaners EXCEPT ![c] = r] /\ "at" \in DOMAIN r /\ r.at = a
    <3>1. \A a, k : LET me == cleaners[c] IN
            /\ "at" \in DOMAIN [me EXCEPT !.at = a] /\ [me EXCEPT !.at = a].at = a
            /\ "at" \in DOMAIN [me EXCEPT !.k = k] /\ [me EXCEPT !.k = k].at = me.at
      BY <2>0
    <3>2. CASE CleanBegins(c)
      <4> DEFINE r == [cleaners[c] EXCEPT !.at = "level", !.now = clock, !.old = cleanerLevel,
                                          !.idle = clock - lastAccessMs]
      <4>1. cleaners' = [cleaners EXCEPT ![c] = r] BY <3>2 DEF CleanBegins, CGoes
      <4>2. "at" \in DOMAIN r /\ r.at = "level" BY <2>0
      <4> HIDE DEF r
      <4> QED BY <4>1, <4>2
    <3>3. CASE CleanLevel(c)
      <4>1. \/ cleaners' = [cleaners EXCEPT ![c] = Resting]
            \/ cleaners' = [cleaners EXCEPT ![c] = [cleaners[c] EXCEPT !.at = "stop"]]
            \/ cleaners' = [cleaners EXCEPT ![c] = [cleaners[c] EXCEPT !.at = "sweep"]]
        BY <3>3 DEF CleanLevel, CGoes
      <4> QED BY <1>r, <3>1, <4>1
    <3>4. CASE CleanBucket(c)
      <4>1. \/ cleaners' = [cleaners EXCEPT ![c] = Resting]
            \/ cleaners' = [cleaners EXCEPT ![c] = [cleaners[c] EXCEPT !.at = "empty"]]
        BY <3>4 DEF CleanBucket, CGoes
      <4> QED BY <1>r, <3>1, <4>1
    <3>5. CASE LooksEmpty(c)
      <4>1. \/ cleaners' = [cleaners EXCEPT ![c] = Resting]
            \/ cleaners' = [cleaners EXCEPT ![c] = [cleaners[c] EXCEPT !.at = "stop"]]
            \/ \E k : cleaners' = [cleaners EXCEPT ![c] = [cleaners[c] EXCEPT !.k = k]] /\ cleaners[c].at = "empty"
        BY <3>5 DEF LooksEmpty, CGoes
      <4> QED BY <1>r, <3>1, <4>1
    <3> QED BY <1>4, <3>2, <3>3, <3>4, <3>5
  <2>2. cleaners[c].at \notin {"none", "gone"} BY <1>4 DEF CleanBegins, CleanLevel, CleanBucket, LooksEmpty
  <2>3. UNCHANGED <<cleanerOn, stopCh, closedChs, setter, closer, shared>>
    BY <1>4 DEF CleanBegins, CleanLevel, CleanBucket, LooksEmpty
  <2>4. cleanerLevel' \in Int BY <1>0, <1>4, <2>0 DEF CleanBegins, CleanLevel, CleanBucket, LooksEmpty, ClTypes
  <2>5. PICK r : /\ cleaners' = [cleaners EXCEPT ![c] = r] /\ "at" \in DOMAIN r
                 /\ r.at \in {"level", "stop", "sweep", "empty", "select"} BY <2>1
  <2>6. r.at \in ClAts \ {"none"} /\ r.at # "gone" BY <2>5 DEF ClAts
  <2> QED BY <2>2, <2>3, <2>4, <2>5, <2>6, CleanerMovesOn
<1>5. ASSUME NEW c \in Chs, CleanStops(c) PROVE ClInv'
  <2>1. /\ cleaners' = [cleaners EXCEPT ![c] = Resting] /\ StopCleaner /\ cleaners[c].at = "stop"
        /\ UNCHANGED <<cleanerLevel, setter, closer, shared>>
    BY <1>5 DEF CleanStops, CGoes
  <2>2. \A d \in Chs : cleaners'[d] = IF d = c THEN Resting ELSE cleaners[d] BY <1>0, <2>1 DEF ClTypes
  <2>3. ClTypes' BY <1>0, <1>r, <2>1, <2>2, StopKeeps DEF ClTypes, ClAts
  <2>4. ASSUME ~shared PROVE OneChannel' /\ CloseFindsNone' /\ ClosedWereStarted' /\ CleanerSound'
    <3>1. ~cleanerOn' /\ stopCh' = 0 /\ Listening \ closedChs' = {} /\ \A d \in closedChs' : cleaners[d].at # "none"
      BY <2>1, <2>4, StopKeeps
    <3>2. closedChs \subseteq closedChs' BY <2>1 DEF StopCleaner
    <3>3. Listening' = {} BY <1>r, <2>1, <2>2, <3>1, <3>2 DEF Listening
    <3>4. OneChannel' BY <3>1 DEF OneChannel
    <3>5. CloseFindsNone' BY <2>1, <2>4, <3>1 DEF ClInv, CloseFindsNone, Setting, ClosingNow
    <3>6. ClosedWereStarted' BY <1>r, <2>2, <2>3, <3>1 DEF ClosedWereStarted, ClTypes
    <3>7. CleanerSound' BY <2>1, <2>4, <3>1, <3>3 DEF CleanerSound, ClInv
    <3> QED BY <3>4, <3>5, <3>6, <3>7
  <2> QED BY <2>1, <2>3, <2>4 DEF ClInv
<1>6. ASSUME NEW c \in Chs, CleanerReturns(c) PROVE ClInv'
  <2>1. [NoCleaner EXCEPT !.at = "gone"].at = "gone" BY DEF NoCleaner
  <2>2. "gone" \in ClAts \ {"none"} BY DEF ClAts
  <2>3. "at" \in DOMAIN [NoCleaner EXCEPT !.at = "gone"] BY DEF NoCleaner
  <2> QED BY <1>0, <1>6, <2>1, <2>2, <2>3, CleanerMovesOn DEF CleanerReturns, CGoes, ClTypes
<1>7. ASSUME NEW x \in Closes, Close(x) PROVE ClInv'
  <2>1. PICK to \in {"stop", "nil?"} : closer' = [closer EXCEPT ![x] = to] /\ (to = "nil?" <=> ~(cleanerLevel >= 0))
    BY <1>7 DEF Close, XGoes
  <2>2. ClTypes' BY <1>0, <1>7, <2>1 DEF ClTypes, Close
  <2>3. ASSUME ~shared' PROVE OneChannel' /\ CloseFindsNone' /\ ClosedWereStarted' /\ CleanerSound'
    <3>1. ~shared /\ ~Setting /\ ~(cleanerLevel < 0 /\ cleanerOn) BY <1>7, <2>3 DEF Close
    <3>2. OneChannel /\ CloseFindsNone /\ ClosedWereStarted /\ CleanerSound BY <3>1 DEF ClInv
    <3>3. UNCHANGED <<cleaners, cleanerOn, stopCh, closedChs, setter>> BY <1>7 DEF Close
    <3>4. OneChannel' /\ ClosedWereStarted' BY <3>2, <3>3 DEF OneChannel, ClosedWereStarted
    <3>5. to = "nil?" => ~cleanerOn
      <4>1. cleanerOn => ~(cleanerLevel < 0) BY <3>1
      <4> QED BY <1>0, <2>1, <4>1 DEF ClTypes
    <3>6. CloseFindsNone' BY <1>0, <2>1, <3>1, <3>2, <3>3, <3>5 DEF CloseFindsNone, Setting, ClosingNow, ClTypes
    <3>7. Listening' = Listening BY <3>3 DEF Listening
    <3>8. CleanerSound' BY <1>0, <2>1, <3>1, <3>2, <3>3, <3>7 DEF CleanerSound, ClTypes
    <3> QED BY <3>4, <3>6, <3>8
  <2> QED BY <2>2, <2>3 DEF ClInv
<1>8. ASSUME NEW x \in Closes, CloseStops(x) PROVE ClInv'
  <2>1. /\ closer' = [closer EXCEPT ![x] = "nil?"] /\ closer[x] = "stop" /\ StopCleaner
        /\ UNCHANGED <<cleanerLevel, cleaners, setter, shared>>
    BY <1>8 DEF CloseStops, XGoes
  <2>2. ClTypes' BY <1>0, <2>1, StopKeeps DEF ClTypes
  <2>3. ASSUME ~shared PROVE OneChannel' /\ CloseFindsNone' /\ ClosedWereStarted' /\ CleanerSound'
    <3>1. ~cleanerOn' /\ stopCh' = 0 /\ Listening \ closedChs' = {} /\ \A d \in closedChs' : cleaners[d].at # "none"
      BY <2>1, <2>3, StopKeeps
    <3>2. closedChs \subseteq closedChs' BY <2>1 DEF StopCleaner
    <3>3. Listening' = {} BY <2>1, <3>1, <3>2 DEF Listening
    <3>4. OneChannel' /\ ClosedWereStarted' BY <2>1, <3>1 DEF OneChannel, ClosedWereStarted
    <3>5. ClosingNow /\ CloseFindsNone /\ CleanerSound BY <2>1, <2>3 DEF ClosingNow, ClInv
    <3>6. CloseFindsNone' BY <1>0, <2>1, <3>1, <3>5 DEF CloseFindsNone, Setting, ClTypes
    <3>7. CleanerSound' BY <1>0, <2>1, <2>3, <3>1, <3>3, <3>5 DEF CleanerSound, ClTypes
    <3> QED BY <3>4, <3>6, <3>7
  <2> QED BY <2>1, <2>2, <2>3 DEF ClInv
<1>9. ASSUME NEW x \in Closes, CloseLooks(x) PROVE ClInv'
  <2>1. PICK from \in {"nil?", "open?"}, to \in {"idle", "open?", "close"} :
          closer[x] = from /\ closer' = [closer EXCEPT ![x] = to] /\ (from = "nil?" /\ stopCh = 0 => to = "idle")
    BY <1>9 DEF CloseLooks, XGoes
  <2>2. UNCHANGED <<cleanerLevel, cleaners, cleanerOn, stopCh, closedChs, setter, shared>> BY <1>9 DEF CloseLooks
  <2>3. ClTypes' BY <1>0, <2>1, <2>2 DEF ClTypes
  <2>4. ASSUME ~shared PROVE OneChannel' /\ CloseFindsNone' /\ ClosedWereStarted' /\ CleanerSound'
    <3>1. OneChannel /\ CloseFindsNone /\ ClosedWereStarted /\ CleanerSound BY <2>4 DEF ClInv
    <3>2. from = "nil?" /\ to = "idle" /\ ClosingNow
      BY <2>1, <3>1 DEF CloseFindsNone, OneChannel, ClosingNow
    <3>3. OneChannel' /\ ClosedWereStarted' BY <2>2, <3>1 DEF OneChannel, ClosedWereStarted
    <3>4. CloseFindsNone' BY <1>0, <2>1, <2>2, <3>1, <3>2 DEF CloseFindsNone, Setting, ClTypes
    <3>5. Listening' = Listening BY <2>2 DEF Listening
    <3>6. CleanerSound' BY <1>0, <2>1, <2>2, <2>4, <3>1, <3>2, <3>5 DEF CleanerSound, ClTypes
    <3> QED BY <3>3, <3>4, <3>6
  <2> QED BY <2>2, <2>3, <2>4 DEF ClInv
<1>10. ASSUME NEW x \in Closes, CloseCloses(x) PROVE ClInv'
  <2>1. shared BY <1>10 DEF CloseCloses, XGoes, ClInv, CloseFindsNone
  <2>2. closer' \in [Closes -> {"idle", "stop", "nil?", "open?", "close", "panic"}]
    <3>1. PICK to \in {"idle", "panic"} : closer' = [closer EXCEPT ![x] = to] BY <1>10 DEF CloseCloses, XGoes
    <3> QED BY <1>0, <3>1 DEF ClTypes
  <2>3. closedChs' \subseteq Chs BY <1>0, <1>10 DEF CloseCloses, ClTypes
  <2> QED BY <1>0, <1>10, <2>1, <2>2, <2>3 DEF CloseCloses, ClTypes, ClInv
<1>11. ASSUME UNCHANGED <<cleanerLevel, cleaners, cleanerOn, stopCh, closedChs, setter, closer, shared>> PROVE ClInv'
  BY <1>0, <1>11 DEF ClInv, ClTypes, OneChannel, CloseFindsNone, ClosedWereStarted, CleanerSound, Listening,
      Setting, ClosingNow
<1> QED
  BY <1>1, <1>2, <1>3, <1>4, <1>5, <1>6, <1>7, <1>8, <1>9, <1>10, <1>11
  DEF ClNext, CleanerStep, ClTick, clVars

LEMMA ClStarts == ClInit => ClInv
<1> SUFFICES ASSUME ClInit PROVE ClInv OBVIOUS
<1>0. /\ Resting.at = "select" /\ NoCleaner.at = "none" /\ 1 \in Chs
      /\ "at" \in DOMAIN Resting /\ "at" \in DOMAIN NoCleaner /\ 0 \notin Chs
  BY CleanerAssumption DEF Resting, NoCleaner, Chs
<1>1. ClTypes
  <2>1. \A c \in Chs : cleaners[c] = Resting \/ cleaners[c] = NoCleaner BY DEF ClInit
  <2>2. \A c \in Chs : "at" \in DOMAIN cleaners[c] /\ cleaners[c].at \in ClAts BY <1>0, <2>1 DEF ClAts
  <2>3. cleanerOn \in BOOLEAN /\ shared \in BOOLEAN BY DEF ClInit
  <2>4. stopCh \in Chs \cup {0} /\ closedChs \subseteq Chs BY <1>0 DEF ClInit
  <2>5. cleanerLevel \in Int /\ DOMAIN cleaners = Chs BY DEF ClInit
  <2> QED BY <2>2, <2>3, <2>4, <2>5 DEF ClInit, ClTypes
<1>2. Listening = (IF cleanerOn THEN {stopCh} ELSE {})
  <2>1. closedChs = {} /\ \A c \in Chs : c \in Listening <=> cleaners[c].at \notin {"none", "gone"}
    BY DEF Listening, ClInit
  <2>2. \A c \in Chs : cleaners[c].at \notin {"none", "gone"} <=> c = 1 /\ ~lazyCleaner BY <1>0 DEF ClInit
  <2> QED BY <1>0, <2>1, <2>2 DEF ClInit, Listening
<1>3. OneChannel BY <1>0 DEF ClInit, OneChannel
<1>4. \A x \in Closes : closer[x] = "idle" BY DEF ClInit
<1>5. CloseFindsNone BY <1>4 DEF CloseFindsNone, ClosingNow
<1>6. ClosedWereStarted BY DEF ClInit, ClosedWereStarted
<1> QED BY <1>1, <1>2, <1>3, <1>4, <1>5, <1>6 DEF ClInv, CleanerSound

LEMMA ClHolds == ClInv => CleanerSound
BY DEF ClInv, CleanerSound

\* lru.go, startCleaner and stopCleaner: one goroutine cleans while cleanerOn says so and none is
\* left behind, for any callers, thresholds and buckets, unless a Close meets a Set or a Close,
\* or Close, Set and Close follow each other before a tick.
THEOREM OneCleanerRuns == ClSpec => []CleanerSound
BY ClStarts, ClHolds, ClStep, PTL DEF ClSpec

-----------------------------------------------------------------------------
(* The memory limiter: checks are numbered, a decision bears the number of  *)
(* its check, and a check takes one at most.                                *)

MeSteps == {"idle", "none", "stats", "check", "callback", "verdict", "runtime", "add", "wait", "stopped"}
MeTypes ==
    /\ hasOnPause \in BOOLEAN /\ paused \in BOOLEAN /\ checkID \in Nat
    /\ currentUsage \in Nat /\ peakUsage \in Nat /\ memLimit \in MemLimits
    /\ memStarted \in BOOLEAN /\ memCanceled \in BOOLEAN /\ memCrossed \in BOOLEAN /\ memWg \in Int
    /\ memCall \in [MemProcs -> [at : MeSteps, val : Nat, pause : BOOLEAN]]
    /\ memSays \subseteq [id : Nat, pause : BOOLEAN]
Deciding(u) == memCall[u].at \in {"callback", "verdict"}
SaysOnce ==
    /\ \A d \in memSays : d.id <= checkID
    /\ \A d, e \in memSays : d.id = e.id => d = e
    /\ \A u \in MemProcs : Deciding(u) => memCall[u].val <= checkID /\ \A d \in memSays : d.id # memCall[u].val
    /\ \A u, v \in MemProcs : Deciding(u) /\ Deciding(v) /\ memCall[u].val = memCall[v].val => u = v
NewestDecides == \A d \in memSays : (\A e \in memSays : e.id <= d.id) => paused = d.pause
PeakCovers == currentUsage <= peakUsage
\* Calls of UpdateLimit and Stop that do not cross, and the one monitor that wg counts.
LimitOnItsWay ==
    ~memCrossed =>
        /\ \A u, v \in InStep({"runtime"}) : u = v
        /\ \A u \in InStep({"runtime"}) : ~memCanceled /\ memCall[u].val = memLimit
        /\ InStep({"runtime"}) = {} /\ ~memCanceled => runtimeLimit = memLimit
        /\ InStep({"stopped"}) # {} => memCanceled /\ runtimeLimit = PrevLimit
OneMonitor ==
    /\ \A u, v \in InStep({"add"}) : u = v
    /\ InStep({"add"}) # {} => ~memStarted
    /\ memCall[MonitorLoop].at \notin {"runtime", "add", "wait", "stopped"}
    /\ \A u \in MemUsers : memCall[u].at # "none"
    /\ ~memStarted => memCall[MonitorLoop].at = "none"
    /\ memWg = IF memCall[MonitorLoop].at = "none" THEN 0 ELSE 1
StoppedAlone ==
    ~memCrossed /\ InStep({"stopped"}) # {} => memCall[MonitorLoop].at = "none"
WaitsCanceled == \A u \in MemProcs : memCall[u].at = "wait" => memCanceled
MeInv == WaitsCanceled /\ MeTypes /\ SaysOnce /\ NewestDecides /\ PeakCovers /\ LimitOnItsWay /\ OneMonitor /\ StoppedAlone

\* What follows moves one goroutine to r.
MovesTo(u, r) ==
    /\ memCall' = [memCall EXCEPT ![u] = r] /\ r \in [at : MeSteps, val : Nat, pause : BOOLEAN]

LEMMA MeMoves ==
    ASSUME MeTypes, NEW u \in MemProcs, NEW r, MovesTo(u, r)
    PROVE  /\ memCall' \in [MemProcs -> [at : MeSteps, val : Nat, pause : BOOLEAN]]
           /\ \A v \in MemProcs : memCall'[v] = IF v = u THEN r ELSE memCall[v]
BY DEF MeTypes, MovesTo

\* A decision of a check that was the newest when it was numbered: it is in memSays once, and
\* paused is what it says.
LEMMA DecisionKeeps ==
    ASSUME MeTypes, NEW id \in Nat, NEW b \in BOOLEAN, Decides(id, b),
           \A d \in memSays : d.id < id
    PROVE  /\ paused' \in BOOLEAN /\ memSays' \subseteq [id : Nat, pause : BOOLEAN]
           /\ NewestDecides'
           /\ (\A d, e \in memSays : d.id = e.id => d = e) => \A d, e \in memSays' : d.id = e.id => d = e
<1> DEFINE n == [id |-> id, pause |-> b]
<1>1. n \in [id : Nat, pause : BOOLEAN] /\ n.id = id /\ n.pause = b OBVIOUS
<1>2. memSays' = memSays \cup {n} /\ paused' = b BY DEF Decides
<1> HIDE DEF n
<1>3. \A d \in memSays : d.id \in Nat /\ ~(id <= d.id) BY DEF MeTypes
<1>4. NewestDecides'
  <2> SUFFICES ASSUME NEW d \in memSays', \A e \in memSays' : e.id <= d.id PROVE paused' = d.pause
    BY DEF NewestDecides
  <2>1. n.id <= d.id BY <1>2
  <2>2. d = n BY <1>1, <1>2, <1>3, <2>1
  <2> QED BY <1>1, <1>2, <2>2
<1>5. (\A d, e \in memSays : d.id = e.id => d = e) => \A d, e \in memSays' : d.id = e.id => d = e
  BY <1>1, <1>2, <1>3
<1> QED BY <1>1, <1>2, <1>4, <1>5 DEF MeTypes

MeSay == MeTypes /\ SaysOnce /\ NewestDecides

LEMMA MeTyped == MeTypes /\ [MeNext]_meVars => MeTypes'
<1> SUFFICES ASSUME MeTypes, [MeNext]_meVars PROVE MeTypes' OBVIOUS
<1> DEFINE R == [at : MeSteps, val : Nat, pause : BOOLEAN]
<1>0. /\ MemRest \in R /\ PrevLimit \in Nat /\ Usages \subseteq Nat /\ MemLimits \subseteq Nat
      /\ \A a \in MeSteps : [MemRest EXCEPT !.at = a] \in R
      /\ \A a \in MeSteps, n \in Nat : [MemRest EXCEPT !.at = a, !.val = n] \in R
      /\ \A u \in MemProcs : memCall[u] \in R
  BY MemAssumption DEF MemRest, MeSteps, MeTypes
<1>a. ASSUME NEW u \in MemProcs, NEW from, NEW r \in R, MemGoes(u, from, r)
      PROVE  memCall' \in [MemProcs -> R]
  BY <1>a DEF MemGoes, MeTypes
<1> HIDE DEF R
<1>b. ASSUME memCall' \in [MemProcs -> R],
             UNCHANGED <<hasOnPause, currentUsage, peakUsage, memLimit, paused, checkID, memStarted, memCanceled,
                         memWg, memSays>>,
             memCrossed' \in BOOLEAN
      PROVE  MeTypes'
  BY <1>b DEF MeTypes, R
<1>1. ASSUME NEW u \in MemProcs, ReadMem(u) PROVE MeTypes'
  <2>1. PICK a \in Usages : MemGoes(u, "idle", [MemRest EXCEPT !.at = "stats", !.val = a]) BY <1>1 DEF ReadMem
  <2>2. memCall' \in [MemProcs -> R] BY <1>0, <1>a, <2>1 DEF MeSteps
  <2> QED BY <1>1, <1>b, <2>2 DEF ReadMem, MeTypes
<1>2. ASSUME NEW u \in MemProcs, UpdateStats(u) PROVE MeTypes'
  <2>1. memCall' \in [MemProcs -> R] BY <1>0, <1>2, <1>a DEF MeSteps, UpdateStats
  <2>2. memCall[u].val \in Nat BY <1>0 DEF R
  <2> QED BY <1>2, <2>1, <2>2 DEF UpdateStats, Stats, MeTypes, R
<1>d. ASSUME NEW id \in Nat, NEW b \in BOOLEAN, Decides(id, b)
      PROVE  paused' \in BOOLEAN /\ memSays' \subseteq [id : Nat, pause : BOOLEAN]
  BY <1>d DEF Decides, MeTypes
<1>3. ASSUME NEW u \in MemProcs, CheckOver(u) PROVE MeTypes'
  <2>1. checkID' = checkID + 1 /\ checkID' \in Nat BY <1>3 DEF CheckOver, MeTypes
  <2>2. memCall' \in [MemProcs -> R] /\ paused' \in BOOLEAN /\ memSays' \subseteq [id : Nat, pause : BOOLEAN]
    <3>1. CASE hasOnPause BY <1>0, <1>3, <1>a, <2>1, <3>1 DEF CheckOver, MeSteps, MeTypes
    <3>2. CASE ~hasOnPause BY <1>0, <1>3, <1>a, <1>d, <2>1, <3>2 DEF CheckOver
    <3> QED BY <3>1, <3>2
  <2>3. currentUsage' \in Nat /\ peakUsage' \in Nat BY <1>0, <1>3 DEF CheckOver, Stats, MeTypes
  <2> QED BY <1>3, <2>1, <2>2, <2>3 DEF CheckOver, MeTypes, R
<1>4. ASSUME NEW u \in MemProcs, CheckBelow(u) PROVE MeTypes'
  <2>1. checkID' = checkID + 1 /\ checkID' \in Nat BY <1>4 DEF CheckBelow, MeTypes
  <2>2. memCall' \in [MemProcs -> R] BY <1>0, <1>4, <1>a DEF CheckBelow
  <2>3. paused' \in BOOLEAN /\ memSays' \subseteq [id : Nat, pause : BOOLEAN]
    BY <1>4, <1>d, <2>1 DEF CheckBelow, MeTypes
  <2> QED BY <1>4, <2>1, <2>2, <2>3 DEF CheckBelow, MeTypes, R
<1>5. ASSUME NEW u \in MemProcs, OnPauseReturns(u) PROVE MeTypes'
  <2>1. PICK v \in BOOLEAN : MemGoes(u, "callback", [memCall[u] EXCEPT !.at = "verdict", !.pause = v])
    BY <1>5 DEF OnPauseReturns
  <2>2. [memCall[u] EXCEPT !.at = "verdict", !.pause = v] \in R
    <3>1. \A c \in R : [c EXCEPT !.at = "verdict", !.pause = v] \in R BY DEF R, MeSteps
    <3> QED BY <1>0, <3>1
  <2>3. memCall' \in [MemProcs -> R] BY <1>a, <2>1, <2>2
  <2> QED BY <1>5, <1>b, <2>3 DEF OnPauseReturns, MeTypes
<1>6. ASSUME NEW u \in MemProcs, Verdict(u) PROVE MeTypes'
  <2>1. memCall' \in [MemProcs -> R] BY <1>0, <1>6, <1>a DEF Verdict
  <2>2. memCall[u].val \in Nat /\ memCall[u].pause \in BOOLEAN BY <1>0 DEF R
  <2>3. paused' \in BOOLEAN /\ memSays' \subseteq [id : Nat, pause : BOOLEAN]
    BY <1>6, <1>d, <2>2 DEF Verdict, MeTypes
  <2> QED BY <1>6, <2>1, <2>3 DEF Verdict, MeTypes, R
<1>7. ASSUME NEW u \in MemProcs, UpdateLimit(u) PROVE MeTypes'
  <2>1. PICK l \in MemLimits : memLimit' = l /\ MemGoes(u, "idle", [MemRest EXCEPT !.at = "runtime", !.val = l])
    BY <1>7 DEF UpdateLimit
  <2>2. memCall' \in [MemProcs -> R] BY <1>0, <1>a, <2>1 DEF MeSteps
  <2> QED BY <1>7, <2>1, <2>2 DEF UpdateLimit, MeTypes, R
<1>8. ASSUME NEW u \in MemProcs, SetRuntimeLimit(u) \/ Start(u) \/ Stop(u) \/ StopRestores(u) PROVE MeTypes'
  <2>1. memCall' \in [MemProcs -> R]
    BY <1>0, <1>8, <1>a DEF MeSteps, SetRuntimeLimit, Start, Stop, StopRestores
  <2> QED BY <1>8, <2>1 DEF SetRuntimeLimit, Start, Stop, StopRestores, MeTypes, R
<1>9. ASSUME NEW u \in MemProcs, StartAdds(u) PROVE MeTypes'
  <2>1. MonitorLoop \in MemProcs BY DEF MemProcs
  <2>2. \A c \in R : [c EXCEPT !.at = "idle"] \in R BY DEF R, MeSteps
  <2>3. memCall' \in [MemProcs -> R]
    <3> DEFINE g == [memCall EXCEPT ![u] = MemRest]
    <3>1. g \in [MemProcs -> R] BY <1>0 DEF MeTypes, R
    <3>2. memCall' = [g EXCEPT ![MonitorLoop] = [g[MonitorLoop] EXCEPT !.at = "idle"]] BY <1>9, <2>1, <3>1 DEF StartAdds
    <3> HIDE DEF g
    <3> QED BY <2>1, <2>2, <3>1, <3>2
  <2> QED BY <1>9, <2>3 DEF StartAdds, MeTypes, R
<1>10. ASSUME MonitorEnds PROVE MeTypes'
  <2>1. memCall' \in [MemProcs -> R] BY <1>0, <1>10, <1>a DEF MeSteps, MonitorEnds, MemProcs
  <2> QED BY <1>10, <2>1 DEF MonitorEnds, MeTypes, R
<1>11. CASE OnPause BY <1>11 DEF OnPause, MeTypes
<1>12. CASE UNCHANGED meVars BY <1>12 DEF meVars, MeTypes
<1> QED BY <1>1, <1>2, <1>3, <1>4, <1>5, <1>6, <1>7, <1>8, <1>9, <1>10, <1>11, <1>12 DEF MeNext, MeProcStep

LEMMA SaysStep == MeSay /\ [MeNext]_meVars => SaysOnce' /\ NewestDecides'
<1> SUFFICES ASSUME MeSay, [MeNext]_meVars PROVE SaysOnce' /\ NewestDecides' OBVIOUS
<1>0. MeTypes /\ SaysOnce /\ NewestDecides /\ MeTypes' BY MeTyped DEF MeSay
<1>t. /\ checkID \in Nat /\ \A d \in memSays : d.id \in Nat
      /\ \A u \in MemProcs : memCall[u].val \in Nat /\ memCall[u].pause \in BOOLEAN
      /\ DOMAIN memCall = MemProcs
  BY <1>0 DEF MeTypes
\* No decision: who has one before it keeps its number or is given a new one.
<1>a. ASSUME UNCHANGED <<memSays, paused>>, checkID' \in {checkID, checkID + 1},
             NEW u \in MemProcs, \A v \in MemProcs : v # u => memCall'[v] = memCall[v],
             Deciding(u)' => \/ Deciding(u) /\ memCall'[u].val = memCall[u].val
                             \/ checkID' = checkID + 1 /\ memCall'[u].val = checkID'
      PROVE  SaysOnce' /\ NewestDecides'
  <2>1. NewestDecides' BY <1>0, <1>a DEF NewestDecides
  <2>2. (\A d \in memSays : d.id <= checkID)' BY <1>0, <1>a, <1>t DEF SaysOnce
  <2>3. \A v \in MemProcs : Deciding(v)' =>
            \/ Deciding(v) /\ memCall'[v].val = memCall[v].val
            \/ v = u /\ checkID' = checkID + 1 /\ memCall'[v].val = checkID'
    BY <1>a DEF Deciding
  <2>4. (\A v \in MemProcs : Deciding(v) => memCall[v].val <= checkID /\ \A d \in memSays : d.id # memCall[v].val)'
    <3> SUFFICES ASSUME NEW v \in MemProcs, Deciding(v)'
                 PROVE  memCall'[v].val <= checkID' /\ \A d \in memSays' : d.id # memCall'[v].val
      OBVIOUS
    <3>1. CASE Deciding(v) /\ memCall'[v].val = memCall[v].val BY <1>0, <1>a, <1>t, <3>1 DEF SaysOnce
    <3>2. CASE checkID' = checkID + 1 /\ memCall'[v].val = checkID' BY <1>0, <1>a, <1>t, <3>2 DEF SaysOnce
    <3> QED BY <2>3, <3>1, <3>2
  <2>5. (\A v, w \in MemProcs : Deciding(v) /\ Deciding(w) /\ memCall[v].val = memCall[w].val => v = w)'
    <3> SUFFICES ASSUME NEW v \in MemProcs, NEW w \in MemProcs, Deciding(v)', Deciding(w)',
                        memCall'[v].val = memCall'[w].val, v # w
                 PROVE  FALSE
      OBVIOUS
    <3>1. CASE Deciding(v) /\ memCall'[v].val = memCall[v].val /\ Deciding(w) /\ memCall'[w].val = memCall[w].val
      BY <1>0, <3>1 DEF SaysOnce
    <3>2. CASE Deciding(v) /\ memCall'[v].val = memCall[v].val /\ memCall'[w].val = checkID + 1
      <4>1. memCall[v].val <= checkID /\ memCall[v].val = checkID + 1 BY <1>0, <3>2 DEF SaysOnce
      <4> QED BY <1>t, <4>1
    <3>3. CASE Deciding(w) /\ memCall'[w].val = memCall[w].val /\ memCall'[v].val = checkID + 1
      BY <1>0, <1>t, <3>3 DEF SaysOnce
    <3> QED BY <2>3, <3>1, <3>2, <3>3
  <2>6. (\A d, e \in memSays : d.id = e.id => d = e)' BY <1>0, <1>a DEF SaysOnce
  <2> QED BY <2>1, <2>2, <2>4, <2>5, <2>6 DEF SaysOnce
\* A decision, of a check that is the newest or of the one that gets its number now.
<1>b. ASSUME NEW u \in MemProcs, NEW id \in Nat, NEW b \in BOOLEAN, Decides(id, b),
             id = checkID', checkID' \in {checkID, checkID + 1},
             checkID' = checkID => Deciding(u) /\ memCall[u].val = id,
             \A v \in MemProcs : v # u => memCall'[v] = memCall[v],
             ~Deciding(u)'
      PROVE  SaysOnce' /\ NewestDecides'
  <2>1. \A d \in memSays : d.id < id BY <1>0, <1>b, <1>t DEF SaysOnce
  <2>2. NewestDecides' /\ (\A d, e \in memSays : d.id = e.id => d = e)'
    BY <1>0, <1>b, <2>1, DecisionKeeps DEF SaysOnce
  <2>3. \A d \in memSays' : d \in memSays \/ d.id = id BY <1>b DEF Decides
  <2>4. (\A d \in memSays : d.id <= checkID)' BY <1>b, <1>t, <2>1, <2>3
  <2>5. \A v \in MemProcs : Deciding(v)' => v # u /\ Deciding(v) /\ memCall'[v] = memCall[v] BY <1>b DEF Deciding
  <2>6. (\A v \in MemProcs : Deciding(v) => memCall[v].val <= checkID /\ \A d \in memSays : d.id # memCall[v].val)'
    <3> SUFFICES ASSUME NEW v \in MemProcs, Deciding(v)'
                 PROVE  memCall'[v].val <= checkID' /\ \A d \in memSays' : d.id # memCall'[v].val
      OBVIOUS
    <3>1. v # u /\ Deciding(v) /\ memCall'[v].val = memCall[v].val BY <2>5
    <3>2. memCall[v].val <= checkID /\ \A d \in memSays : d.id # memCall[v].val BY <1>0, <3>1 DEF SaysOnce
    <3>3. memCall[v].val # id
      <4>1. CASE checkID' = checkID BY <1>0, <1>b, <3>1, <4>1 DEF SaysOnce
      <4>2. CASE checkID' = checkID + 1 BY <1>b, <1>t, <3>2, <4>2
      <4> QED BY <1>b, <4>1, <4>2
    <3> QED BY <1>b, <1>t, <2>3, <3>1, <3>2, <3>3
  <2>7. (\A v, w \in MemProcs : Deciding(v) /\ Deciding(w) /\ memCall[v].val = memCall[w].val => v = w)'
    BY <1>0, <2>5 DEF SaysOnce
  <2> QED BY <2>2, <2>4, <2>6, <2>7 DEF SaysOnce
<1>c. ASSUME NEW u \in MemProcs, NEW from, NEW r, MemGoes(u, from, r)
      PROVE  memCall'[u] = r /\ \A v \in MemProcs : v # u => memCall'[v] = memCall[v]
  BY <1>c, <1>t DEF MemGoes
<1>r. \A a : MemRest.at = "idle" /\ [MemRest EXCEPT !.at = a].at = a BY DEF MemRest
<1>1. ASSUME NEW u \in MemProcs, ReadMem(u) PROVE SaysOnce' /\ NewestDecides'
  <2>1. PICK a : MemGoes(u, "idle", [MemRest EXCEPT !.at = "stats", !.val = a]) BY <1>1 DEF ReadMem
  <2>2. [MemRest EXCEPT !.at = "stats", !.val = a].at = "stats" BY DEF MemRest
  <2>3. ~Deciding(u)'
    <3>1. memCall'[u].at = "stats" BY <1>c, <2>1, <2>2
    <3> QED BY <3>1 DEF Deciding
  <2> QED BY <1>1, <1>a, <1>c, <2>1, <2>3 DEF ReadMem
<1>2. ASSUME NEW u \in MemProcs, UpdateStats(u) \/ SetRuntimeLimit(u) \/ Start(u) \/ Stop(u) \/ StopRestores(u)
      PROVE SaysOnce' /\ NewestDecides'
  <2>1. PICK from, r : MemGoes(u, from, r) /\ r.at \in {"check", "idle", "add", "wait", "stopped"}
    BY <1>2, <1>r DEF UpdateStats, SetRuntimeLimit, Start, Stop, StopRestores
  <2>2. ~Deciding(u)' BY <1>c, <2>1 DEF Deciding
  <2> QED BY <1>2, <1>a, <1>c, <2>1, <2>2 DEF UpdateStats, SetRuntimeLimit, Start, Stop, StopRestores
<1>3. ASSUME NEW u \in MemProcs, CheckOver(u) PROVE SaysOnce' /\ NewestDecides'
  <2>1. checkID' = checkID + 1 /\ checkID' \in Nat BY <1>3, <1>t DEF CheckOver
  <2>2. CASE hasOnPause
    <3>1. MemGoes(u, "check", [MemRest EXCEPT !.at = "callback", !.val = checkID']) /\ UNCHANGED <<paused, memSays>>
      BY <1>3, <2>2 DEF CheckOver
    <3>2. [MemRest EXCEPT !.at = "callback", !.val = checkID'].val = checkID' BY DEF MemRest
    <3> QED BY <1>a, <1>c, <2>1, <3>1, <3>2
  <2>3. CASE ~hasOnPause
    <3>1. MemGoes(u, "check", MemRest) /\ Decides(checkID', TRUE) BY <1>3, <2>3 DEF CheckOver
    <3>2. ~Deciding(u)' BY <1>c, <1>r, <3>1 DEF Deciding
    <3>3. PICK id \in Nat : id = checkID' BY <2>1
    <3>4. Decides(id, TRUE) BY <3>1, <3>3 DEF Decides
    <3>5. checkID' # checkID BY <1>t, <2>1
    <3>6. \A v \in MemProcs : v # u => memCall'[v] = memCall[v] BY <1>c, <3>1
    <3> QED BY <1>b, <2>1, <3>2, <3>3, <3>4, <3>5, <3>6
  <2> QED BY <2>2, <2>3
<1>4. ASSUME NEW u \in MemProcs, CheckBelow(u) PROVE SaysOnce' /\ NewestDecides'
  <2>1. checkID' = checkID + 1 /\ checkID' \in Nat /\ MemGoes(u, "check", MemRest) BY <1>4, <1>t DEF CheckBelow
  <2>2. ~Deciding(u)' BY <1>c, <1>r, <2>1 DEF Deciding
  <2>3. CASE UNCHANGED <<paused, memSays>> BY <1>a, <1>c, <2>1, <2>2, <2>3
  <2>4. CASE Decides(checkID', FALSE)
    <3>3. PICK id \in Nat : id = checkID' BY <2>1
    <3>4. Decides(id, FALSE) BY <2>4, <3>3 DEF Decides
    <3>5. checkID' # checkID BY <1>t, <2>1
    <3>6. \A v \in MemProcs : v # u => memCall'[v] = memCall[v] BY <1>c, <2>1
    <3> QED BY <1>b, <2>1, <2>2, <3>3, <3>4, <3>5, <3>6
  <2> QED BY <1>4, <2>3, <2>4 DEF CheckBelow
<1>5. ASSUME NEW u \in MemProcs, OnPauseReturns(u) PROVE SaysOnce' /\ NewestDecides'
  <2>1. PICK v \in BOOLEAN : MemGoes(u, "callback", [memCall[u] EXCEPT !.at = "verdict", !.pause = v])
    BY <1>5 DEF OnPauseReturns
  <2>2. memCall[u].at = "callback" /\ [memCall[u] EXCEPT !.at = "verdict", !.pause = v].val = memCall[u].val
    BY <1>0, <2>1 DEF MemGoes, MeTypes
  <2>3. Deciding(u) /\ memCall'[u].val = memCall[u].val BY <1>c, <2>1, <2>2 DEF Deciding
  <2> QED BY <1>5, <1>a, <1>c, <2>1, <2>3 DEF OnPauseReturns
<1>6. ASSUME NEW u \in MemProcs, Verdict(u) PROVE SaysOnce' /\ NewestDecides'
  <2>1. MemGoes(u, "verdict", MemRest) /\ checkID' = checkID /\ Deciding(u)
    BY <1>6 DEF Verdict, MemGoes, Deciding
  <2>2. ~Deciding(u)' BY <1>c, <1>r, <2>1 DEF Deciding
  <2>3. CASE UNCHANGED <<paused, memSays>> BY <1>a, <1>c, <2>1, <2>2, <2>3
  <2>4. CASE memCall[u].val = checkID /\ Decides(memCall[u].val, memCall[u].pause)
    BY <1>b, <1>c, <1>t, <2>1, <2>2, <2>4
  <2> QED BY <1>6, <2>3, <2>4 DEF Verdict, NewestVerdict
<1>7. ASSUME NEW u \in MemProcs, UpdateLimit(u) PROVE SaysOnce' /\ NewestDecides'
  <2>1. PICK l \in MemLimits : MemGoes(u, "idle", [MemRest EXCEPT !.at = "runtime", !.val = l]) BY <1>7 DEF UpdateLimit
  <2>2. [MemRest EXCEPT !.at = "runtime", !.val = l].at = "runtime" BY DEF MemRest
  <2>3. ~Deciding(u)'
    <3>1. memCall'[u].at = "runtime" BY <1>c, <2>1, <2>2
    <3> QED BY <3>1 DEF Deciding
  <2> QED BY <1>7, <1>a, <1>c, <2>1, <2>3 DEF UpdateLimit
<1>8. ASSUME NEW u \in MemProcs, StartAdds(u) PROVE SaysOnce' /\ NewestDecides'
  <2>0. MonitorLoop \in MemProcs BY DEF MemProcs
  <2>1. \A v \in MemProcs : Deciding(v)' => Deciding(v) /\ memCall'[v].val = memCall[v].val
    BY <1>0, <1>8, <1>r, <2>0 DEF StartAdds, Deciding, MeTypes
  <2> QED BY <1>0, <1>8, <1>t, <2>1 DEF SaysOnce, NewestDecides, StartAdds
<1>9. CASE MonitorEnds
  <2>1. MonitorLoop \in MemProcs /\ MemGoes(MonitorLoop, "idle", [MemRest EXCEPT !.at = "none"])
    BY <1>9 DEF MemProcs, MonitorEnds
  <2>3. [MemRest EXCEPT !.at = "none"].at = "none" BY DEF MemRest
  <2>4. memCall'[MonitorLoop].at = "none" BY <1>c, <2>1, <2>3
  <2>2. ~Deciding(MonitorLoop)' BY <2>4 DEF Deciding
  <2> QED BY <1>9, <1>a, <1>c, <2>1, <2>2 DEF MonitorEnds
<1>10. CASE OnPause \/ UNCHANGED meVars
  BY <1>0, <1>10 DEF OnPause, meVars, SaysOnce, NewestDecides, Deciding
<1> QED BY <1>1, <1>2, <1>3, <1>4, <1>5, <1>6, <1>7, <1>8, <1>9, <1>10 DEF MeNext, MeProcStep

\* One goroutine moves.
LEMMA MeGoesOn ==
    ASSUME MeTypes, NEW u \in MemProcs, NEW from, NEW r, MemGoes(u, from, r)
    PROVE  /\ memCall[u].at = from /\ memCall'[u] = r
           /\ \A v \in MemProcs : v # u => memCall'[v] = memCall[v]
<1>1. DOMAIN memCall = MemProcs BY DEF MeTypes
<1> QED BY <1>1 DEF MemGoes

LEMMA PeakStep == MeTypes /\ PeakCovers /\ [MeNext]_meVars => PeakCovers'
<1> SUFFICES ASSUME MeTypes, PeakCovers, [MeNext]_meVars PROVE PeakCovers' OBVIOUS
<1>0. /\ currentUsage \in Nat /\ peakUsage \in Nat /\ currentUsage <= peakUsage
      /\ \A u \in MemProcs : memCall[u].val \in Nat
  BY DEF MeTypes, PeakCovers
<1>a. ASSUME NEW a \in Nat, Stats(a) PROVE PeakCovers' BY <1>0, <1>a DEF Stats, PeakCovers
<1>1. ASSUME UNCHANGED <<currentUsage, peakUsage>> PROVE PeakCovers' BY <1>0, <1>1 DEF PeakCovers
<1>2. ASSUME NEW u \in MemProcs, UpdateStats(u) PROVE PeakCovers' BY <1>0, <1>2, <1>a DEF UpdateStats
<1>3. ASSUME NEW u \in MemProcs, CheckOver(u) PROVE PeakCovers'
  <2>1. CASE \E a \in Usages : Stats(a) BY <1>a, <2>1, MemAssumption
  <2>2. CASE UNCHANGED <<currentUsage, peakUsage>> BY <1>1, <2>2
  <2> QED BY <1>3, <2>1, <2>2 DEF CheckOver
<1> QED
  BY <1>1, <1>2, <1>3
  DEF MeNext, MeProcStep, ReadMem, CheckBelow, OnPauseReturns, Verdict, UpdateLimit, SetRuntimeLimit, Start,
      StartAdds, Stop, StopRestores, OnPause, MonitorEnds, meVars

LEMMA WaitStep == MeTypes /\ WaitsCanceled /\ [MeNext]_meVars => WaitsCanceled'
<1> SUFFICES ASSUME MeTypes, WaitsCanceled, [MeNext]_meVars PROVE WaitsCanceled' OBVIOUS
<1>0. /\ DOMAIN memCall = MemProcs /\ memCanceled \in BOOLEAN /\ \A u \in MemProcs : "at" \in DOMAIN memCall[u]
  BY DEF MeTypes
<1>1. CASE memCanceled' BY <1>1 DEF WaitsCanceled
<1>2. CASE \A u \in MemProcs : memCall'[u].at = "wait" => memCall[u].at = "wait" /\ memCanceled' = memCanceled
  BY <1>2 DEF WaitsCanceled
<1>r. MemRest.at = "idle" /\ \A a : [MemRest EXCEPT !.at = a].at = a BY DEF MemRest
<1>s. \A a, n : [MemRest EXCEPT !.at = a, !.val = n].at = a BY DEF MemRest
<1>a. ASSUME NEW u \in MemProcs, NEW from, NEW r, MemGoes(u, from, r), r.at # "wait", memCanceled' = memCanceled
      PROVE  WaitsCanceled'
  BY <1>2, <1>a, MeGoesOn
<1>3. ASSUME NEW u \in MemProcs, ReadMem(u) PROVE WaitsCanceled'
  <2>1. PICK n : MemGoes(u, "idle", [MemRest EXCEPT !.at = "stats", !.val = n]) BY <1>3 DEF ReadMem
  <2> QED BY <1>3, <1>a, <1>s, <2>1 DEF ReadMem
<1>4. ASSUME NEW u \in MemProcs, UpdateStats(u) PROVE WaitsCanceled'
  BY <1>4, <1>a, <1>r DEF UpdateStats
<1>5. ASSUME NEW u \in MemProcs, CheckOver(u) PROVE WaitsCanceled'
  <2>1. [MemRest EXCEPT !.at = "callback", !.val = checkID'].at = "callback" BY DEF MemRest
  <2> QED BY <1>5, <1>a, <1>r, <2>1 DEF CheckOver
<1>6. ASSUME NEW u \in MemProcs, CheckBelow(u) \/ Verdict(u) PROVE WaitsCanceled'
  BY <1>6, <1>a, <1>r DEF CheckBelow, Verdict
<1>7. ASSUME NEW u \in MemProcs, OnPauseReturns(u) PROVE WaitsCanceled'
  <2>1. PICK v \in BOOLEAN : MemGoes(u, "callback", [memCall[u] EXCEPT !.at = "verdict", !.pause = v])
    BY <1>7 DEF OnPauseReturns
  <2>2. [memCall[u] EXCEPT !.at = "verdict", !.pause = v].at = "verdict" BY <1>0
  <2> QED BY <1>7, <1>a, <2>1, <2>2 DEF OnPauseReturns
<1>8. ASSUME NEW u \in MemProcs, UpdateLimit(u) PROVE WaitsCanceled'
  <2>1. PICK l \in MemLimits : MemGoes(u, "idle", [MemRest EXCEPT !.at = "runtime", !.val = l]) BY <1>8 DEF UpdateLimit
  <2> QED BY <1>8, <1>a, <1>s, <2>1 DEF UpdateLimit
<1>9. ASSUME NEW u \in MemProcs, SetRuntimeLimit(u) PROVE WaitsCanceled' BY <1>9, <1>a, <1>r DEF SetRuntimeLimit
<1>10. ASSUME NEW u \in MemProcs, Start(u) PROVE WaitsCanceled' BY <1>10, <1>a, <1>r DEF Start
<1>11. ASSUME NEW u \in MemProcs, StartAdds(u) PROVE WaitsCanceled'
  <2>1. MonitorLoop \in MemProcs BY DEF MemProcs
  <2>2. /\ memCall'[u].at = "idle" /\ memCall'[MonitorLoop].at = "idle" /\ memCanceled' = memCanceled
        /\ \A v \in MemProcs : v \notin {u, MonitorLoop} => memCall'[v] = memCall[v]
    BY <1>0, <1>11, <1>r, <2>1 DEF StartAdds
  <2> QED BY <1>2, <2>2
<1>12. ASSUME NEW u \in MemProcs, Stop(u) PROVE WaitsCanceled' BY <1>1, <1>12 DEF Stop
<1>13. ASSUME NEW u \in MemProcs, StopRestores(u) PROVE WaitsCanceled' BY <1>13, <1>a, <1>r DEF StopRestores
<1>14. CASE MonitorEnds BY <1>14, <1>a, <1>r DEF MonitorEnds, MemProcs
<1>15. CASE OnPause \/ UNCHANGED meVars BY <1>2, <1>15 DEF OnPause, meVars
<1> QED
  BY <1>3, <1>4, <1>5, <1>6, <1>7, <1>8, <1>9, <1>10, <1>11, <1>12, <1>13, <1>14, <1>15 DEF MeNext, MeProcStep

LEMMA MonitorStep ==
    ASSUME MeTypes, LimitOnItsWay, OneMonitor, StoppedAlone, [MeNext]_meVars
    PROVE  OneMonitor' /\ StoppedAlone'
<1>0. /\ MonitorLoop \in MemProcs /\ MonitorLoop \notin MemUsers /\ MemUsers \subseteq MemProcs
      /\ memStarted \in BOOLEAN /\ memWg \in Int /\ DOMAIN memCall = MemProcs
      /\ memCrossed \in BOOLEAN /\ memCanceled \in BOOLEAN
  BY MemAssumption DEF MemProcs, MeTypes
<1>r. MemRest.at = "idle" /\ \A a : [MemRest EXCEPT !.at = a].at = a BY DEF MemRest
\* A step that touches neither the monitor's life nor the lock of Start.
<1>a. ASSUME NEW u \in MemProcs, NEW from, NEW r, MemGoes(u, from, r), from \notin {"none", "add"},
             r.at \notin {"none", "add", "stopped"}, u = MonitorLoop => r.at \notin {"runtime", "wait"},
             UNCHANGED <<memStarted, memWg>>, memCrossed => memCrossed'
      PROVE  OneMonitor' /\ StoppedAlone'
  <2>1. /\ memCall[u].at = from /\ memCall'[u] = r /\ \A v \in MemProcs : v # u => memCall'[v] = memCall[v]
        /\ InStep({"add"})' = InStep({"add"}) /\ InStep({"stopped"})' \subseteq InStep({"stopped"})
    BY <1>a, MeGoesOn DEF InStep
  <2>2. \A v \in MemProcs : (memCall'[v].at = "none" <=> memCall[v].at = "none") BY <1>a, <2>1
  <2>3. memCall'[MonitorLoop].at \notin {"runtime", "add", "wait", "stopped"} BY <1>0, <1>a, <2>1 DEF OneMonitor
  <2>4. OneMonitor' BY <1>0, <1>a, <2>1, <2>2, <2>3 DEF OneMonitor
  <2>5. StoppedAlone' BY <1>0, <1>a, <2>1, <2>2 DEF StoppedAlone
  <2> QED BY <2>4, <2>5
<1>1. ASSUME NEW u \in MemProcs, MeProcStep(u) PROVE OneMonitor' /\ StoppedAlone'
  <2>1. \E from \in {"idle", "stats", "check", "callback", "verdict"},
           a \in {"idle", "stats", "check", "callback", "verdict"} : \E r : MemGoes(u, from, r) /\ r.at = a
    <3>1. CASE ReadMem(u)
      <4>1. PICK n : MemGoes(u, "idle", [MemRest EXCEPT !.at = "stats", !.val = n]) BY <3>1 DEF ReadMem
      <4>2. [MemRest EXCEPT !.at = "stats", !.val = n].at = "stats" BY DEF MemRest
      <4> QED BY <4>1, <4>2
    <3>2. CASE UpdateStats(u)
      <4>1. MemGoes(u, "stats", [MemRest EXCEPT !.at = "check"]) BY <3>2 DEF UpdateStats
      <4> QED BY <1>r, <4>1
    <3>3. CASE CheckOver(u)
      <4>1. [MemRest EXCEPT !.at = "callback", !.val = checkID'].at = "callback" BY DEF MemRest
      <4>2. \/ MemGoes(u, "check", [MemRest EXCEPT !.at = "callback", !.val = checkID'])
            \/ MemGoes(u, "check", MemRest)
        BY <3>3 DEF CheckOver
      <4> QED BY <1>r, <4>1, <4>2
    <3>4. CASE CheckBelow(u) BY <1>r, <3>4 DEF CheckBelow
    <3>5. CASE OnPauseReturns(u)
      <4>1. PICK v : MemGoes(u, "callback", [memCall[u] EXCEPT !.at = "verdict", !.pause = v])
        BY <3>5 DEF OnPauseReturns
      <4>2. [memCall[u] EXCEPT !.at = "verdict", !.pause = v].at = "verdict" BY DEF MeTypes
      <4> QED BY <4>1, <4>2
    <3>6. CASE Verdict(u) BY <1>r, <3>6 DEF Verdict
    <3> QED BY <1>1, <3>1, <3>2, <3>3, <3>4, <3>5, <3>6 DEF MeProcStep
  <2>2. PICK from, r : /\ MemGoes(u, from, r) /\ from \in {"idle", "stats", "check", "callback", "verdict"}
                       /\ r.at \in {"idle", "stats", "check", "callback", "verdict"} BY <2>1
  <2>3. UNCHANGED <<memStarted, memWg, memCrossed>>
    BY <1>1 DEF MeProcStep, ReadMem, UpdateStats, CheckOver, CheckBelow, OnPauseReturns, Verdict
  <2> QED BY <1>a, <2>2, <2>3
<1>2. ASSUME NEW u \in MemProcs, UpdateLimit(u) PROVE OneMonitor' /\ StoppedAlone'
  <2>1. PICK l : MemGoes(u, "idle", [MemRest EXCEPT !.at = "runtime", !.val = l]) BY <1>2 DEF UpdateLimit
  <2>2. [MemRest EXCEPT !.at = "runtime", !.val = l].at = "runtime" BY DEF MemRest
  <2>3. u # MonitorLoop /\ UNCHANGED <<memStarted, memWg>> /\ (memCrossed => memCrossed')
    BY <1>0, <1>2 DEF UpdateLimit
  <2>4. PICK r : MemGoes(u, "idle", r) /\ r.at = "runtime" BY <2>1, <2>2
  <2> QED BY <1>a, <2>3, <2>4
<1>3. ASSUME NEW u \in MemProcs, SetRuntimeLimit(u) PROVE OneMonitor' /\ StoppedAlone'
  BY <1>3, <1>a, <1>r DEF SetRuntimeLimit
<1>4. ASSUME NEW u \in MemProcs, Start(u) PROVE OneMonitor' /\ StoppedAlone'
  <2>1. /\ memCall'[u].at = "add" /\ memCall[u].at = "idle" /\ \A v \in MemProcs : v # u => memCall'[v] = memCall[v]
        /\ InStep({"add"}) = {} /\ InStep({"add"})' = {u} /\ InStep({"stopped"})' = InStep({"stopped"})
    <3>1. PICK r : MemGoes(u, "idle", r) /\ r.at = "add" /\ InStep({"add"}) = {} BY <1>r, <1>4 DEF Start, MemFree
    <3>2. /\ memCall'[u].at = "add" /\ memCall[u].at = "idle" /\ \A v \in MemProcs : v # u => memCall'[v] = memCall[v]
      BY <1>r, <3>1, MeGoesOn
    <3> QED BY <3>1, <3>2 DEF InStep
  <2>2. u # MonitorLoop /\ ~memStarted /\ UNCHANGED <<memStarted, memWg, memCrossed>> BY <1>0, <1>4 DEF Start, MayStart
  <2> QED BY <1>0, <2>1, <2>2 DEF OneMonitor, StoppedAlone
<1>5. ASSUME NEW u \in MemProcs, StartAdds(u) PROVE OneMonitor' /\ StoppedAlone'
  <2>1. /\ u \in InStep({"add"}) /\ u # MonitorLoop BY <1>5 DEF StartAdds, InStep, OneMonitor
  <2>2. /\ memCall'[u] = MemRest /\ memCall'[MonitorLoop].at = "idle"
        /\ \A v \in MemProcs : v \notin {u, MonitorLoop} => memCall'[v] = memCall[v]
    BY <1>0, <1>5, <2>1 DEF StartAdds, MeTypes
  <2>3. InStep({"add"})' = {}
    <3>1. \A v \in MemProcs : memCall'[v].at = "add" => v \in InStep({"add"}) /\ v # u
      BY <1>r, <2>2 DEF InStep
    <3> QED BY <2>1, <3>1 DEF InStep, OneMonitor
  <2>4. memWg = 0 /\ memWg' = 1 /\ memStarted'
    BY <1>5, <2>1 DEF OneMonitor, StartAdds
  <2>5. \A v \in MemUsers : memCall'[v].at # "none" BY <1>0, <1>r, <2>2 DEF OneMonitor
  <2>6. OneMonitor' BY <2>2, <2>3, <2>4, <2>5 DEF OneMonitor
  <2>7. ASSUME ~memCrossed', InStep({"stopped"})' # {} PROVE FALSE
    <3>1. ~memCrossed /\ ~memCanceled BY <1>5, <2>7 DEF StartAdds
    <3>2. InStep({"stopped"})' \subseteq InStep({"stopped"}) BY <1>r, <2>2 DEF InStep
    <3> QED BY <2>7, <3>1, <3>2 DEF LimitOnItsWay
  <2> QED BY <2>6, <2>7 DEF StoppedAlone
<1>6. ASSUME NEW u \in MemProcs, Stop(u) PROVE OneMonitor' /\ StoppedAlone'
  BY <1>0, <1>6, <1>a, <1>r DEF Stop
<1>7. ASSUME NEW u \in MemProcs, StopRestores(u) PROVE OneMonitor' /\ StoppedAlone'
  <2>1. /\ memCall[u].at = "wait" /\ memCall'[u].at = "stopped" /\ InStep({"add"})' = InStep({"add"})
        /\ \A v \in MemProcs : v # u => memCall'[v] = memCall[v]
    <3>1. PICK r : MemGoes(u, "wait", r) /\ r.at = "stopped" BY <1>r, <1>7 DEF StopRestores
    <3>2. /\ memCall'[u].at = "stopped" /\ memCall[u].at = "wait" /\ \A v \in MemProcs : v # u => memCall'[v] = memCall[v]
      BY <1>r, <3>1, MeGoesOn
    <3> QED BY <3>2 DEF InStep
  <2>2. u # MonitorLoop /\ memWg = 0 /\ UNCHANGED <<memStarted, memWg>>
    BY <1>7, <2>1 DEF OneMonitor, StopRestores, MonitorDone
  <2>3. memCall'[MonitorLoop].at = "none" BY <1>0, <2>1, <2>2 DEF OneMonitor
  <2> QED BY <1>0, <2>1, <2>2, <2>3 DEF OneMonitor, StoppedAlone
<1>8. CASE MonitorEnds
  <2>1. /\ memCall[MonitorLoop].at = "idle" /\ memCall'[MonitorLoop].at = "none"
        /\ InStep({"add"})' = InStep({"add"})
        /\ \A v \in MemProcs : v # MonitorLoop => memCall'[v] = memCall[v]
    <3>1. PICK r : MemGoes(MonitorLoop, "idle", r) /\ r.at = "none" BY <1>r, <1>8 DEF MonitorEnds
    <3>2. /\ memCall'[MonitorLoop].at = "none" /\ memCall[MonitorLoop].at = "idle"
          /\ \A v \in MemProcs : v # MonitorLoop => memCall'[v] = memCall[v]
      BY <1>0, <1>r, <3>1, MeGoesOn
    <3> QED BY <3>2 DEF InStep
  <2>2. memWg = 1 /\ memWg' = 0 /\ memStarted' = memStarted BY <1>8, <2>1 DEF OneMonitor, MonitorEnds
  <2> QED BY <1>0, <2>1, <2>2 DEF OneMonitor, StoppedAlone
<1>9. CASE OnPause \/ UNCHANGED meVars BY <1>9 DEF OnPause, meVars, OneMonitor, StoppedAlone, InStep
<1> QED BY <1>1, <1>2, <1>3, <1>4, <1>5, <1>6, <1>7, <1>8, <1>9 DEF MeNext

LEMMA LimitStep ==
    ASSUME MeTypes, WaitsCanceled, OneMonitor, LimitOnItsWay, [MeNext]_meVars
    PROVE  LimitOnItsWay'
<1>0. memCrossed \in BOOLEAN /\ memCanceled \in BOOLEAN /\ DOMAIN memCall = MemProcs BY DEF MeTypes
<1>r. MemRest.at = "idle" /\ \A a : [MemRest EXCEPT !.at = a].at = a BY DEF MemRest
\* Nobody enters or leaves an UpdateLimit or the end of a Stop.
<1>a. ASSUME UNCHANGED <<memCrossed, memCanceled, memLimit, runtimeLimit>>,
             \A v \in MemProcs : \/ memCall'[v] = memCall[v]
                                \/ {memCall[v].at, memCall'[v].at} \cap {"runtime", "stopped"} = {}
      PROVE  LimitOnItsWay'
  <2>1. InStep({"runtime"})' = InStep({"runtime"}) /\ InStep({"stopped"})' = InStep({"stopped"})
    BY <1>a DEF InStep
  <2>2. \A v \in InStep({"runtime"}) : memCall'[v] = memCall[v] BY <1>a DEF InStep
  <2> QED BY <1>a, <2>1, <2>2 DEF LimitOnItsWay
<1>1. ASSUME NEW u \in MemProcs, MeProcStep(u) PROVE LimitOnItsWay'
  <2>1. UNCHANGED <<memCrossed, memCanceled, memLimit, runtimeLimit>>
    BY <1>1 DEF MeProcStep, ReadMem, UpdateStats, CheckOver, CheckBelow, OnPauseReturns, Verdict
  <2>2. \A v \in MemProcs : v # u => memCall'[v] = memCall[v]
    BY <1>0, <1>1 DEF MeProcStep, ReadMem, UpdateStats, CheckOver, CheckBelow, OnPauseReturns, Verdict, MemGoes
  <2>3. memCall[u].at \notin {"runtime", "stopped"}
    BY <1>1 DEF MeProcStep, ReadMem, UpdateStats, CheckOver, CheckBelow, OnPauseReturns, Verdict, MemGoes
  <2>4. memCall'[u].at \notin {"runtime", "stopped"}
    <3>1. CASE ReadMem(u)
      <4>1. PICK n : MemGoes(u, "idle", [MemRest EXCEPT !.at = "stats", !.val = n]) BY <3>1 DEF ReadMem
      <4>2. [MemRest EXCEPT !.at = "stats", !.val = n].at = "stats" BY DEF MemRest
      <4>3. PICK r : MemGoes(u, "idle", r) /\ r.at = "stats" BY <4>1, <4>2
      <4>4. memCall'[u].at = "stats" BY <4>3, MeGoesOn
      <4> QED BY <4>4
    <3>2. CASE UpdateStats(u)
      <4>1. PICK r : MemGoes(u, "stats", r) /\ r.at = "check" BY <1>r, <3>2 DEF UpdateStats
      <4>2. memCall'[u].at = "check" BY <1>r, <4>1, MeGoesOn
      <4> QED BY <4>2
    <3>3. CASE CheckOver(u)
      <4>x. PICK x : x = [MemRest EXCEPT !.at = "callback", !.val = checkID'] OBVIOUS
      <4>1. x.at = "callback" BY <4>x DEF MemRest
      <4>2. MemGoes(u, "check", x) \/ MemGoes(u, "check", MemRest) BY <3>3, <4>x DEF CheckOver
      <4>3. memCall'[u] = x \/ memCall'[u] = MemRest BY <4>2, MeGoesOn
      <4>4. memCall'[u].at \in {"callback", "idle"} BY <1>r, <4>1, <4>3
      <4> QED BY <4>4
    <3>4. CASE CheckBelow(u) \/ Verdict(u)
      <4>1. MemGoes(u, "check", MemRest) \/ MemGoes(u, "verdict", MemRest) BY <3>4 DEF CheckBelow, Verdict
      <4>2. memCall'[u] = MemRest BY <4>1, MeGoesOn
      <4>3. memCall'[u].at = "idle" BY <1>r, <4>2
      <4> QED BY <4>3
    <3>5. CASE OnPauseReturns(u)
      <4>1. PICK v : MemGoes(u, "callback", [memCall[u] EXCEPT !.at = "verdict", !.pause = v])
        BY <3>5 DEF OnPauseReturns
      <4>2. [memCall[u] EXCEPT !.at = "verdict", !.pause = v].at = "verdict" BY DEF MeTypes
      <4>3. PICK r : MemGoes(u, "callback", r) /\ r.at = "verdict" BY <4>1, <4>2
      <4>4. memCall'[u].at = "verdict" BY <4>3, MeGoesOn
      <4> QED BY <4>4
    <3> QED BY <1>1, <3>1, <3>2, <3>3, <3>4, <3>5 DEF MeProcStep
  <2> QED BY <1>a, <2>1, <2>2, <2>3, <2>4
<1>2. ASSUME NEW u \in MemProcs, UpdateLimit(u) PROVE LimitOnItsWay'
  <2>1. PICK l \in MemLimits : memLimit' = l /\ MemGoes(u, "idle", [MemRest EXCEPT !.at = "runtime", !.val = l])
    BY <1>2 DEF UpdateLimit
  <2>2. /\ [MemRest EXCEPT !.at = "runtime", !.val = l].at = "runtime"
        /\ [MemRest EXCEPT !.at = "runtime", !.val = l].val = l BY DEF MemRest
  <2>3. /\ InStep({"runtime"})' = InStep({"runtime"}) \cup {u} /\ memCall'[u].val = l
        /\ InStep({"stopped"})' = InStep({"stopped"})
    <3>1. /\ memCall'[u].at = "runtime" /\ memCall[u].at = "idle" /\ memCall'[u].val = l
          /\ \A v \in MemProcs : v # u => memCall'[v] = memCall[v]
      <4>1. PICK r : MemGoes(u, "idle", r) /\ r.at = "runtime" /\ r.val = l BY <2>1, <2>2
      <4> QED BY <4>1, MeGoesOn
    <3> QED BY <3>1 DEF InStep
  <2>4. SUFFICES ASSUME ~memCrossed' PROVE LimitOnItsWay' BY DEF LimitOnItsWay
  <2>5. ~memCrossed /\ ~memCanceled /\ InStep({"runtime"}) = {} /\ ~memCanceled' BY <1>0, <1>2, <2>4 DEF UpdateLimit
  <2>6. InStep({"stopped"}) = {} BY <2>5 DEF LimitOnItsWay
  <2> QED BY <2>1, <2>3, <2>5, <2>6 DEF LimitOnItsWay
<1>3. ASSUME NEW u \in MemProcs, SetRuntimeLimit(u) PROVE LimitOnItsWay'
  <2>1. /\ u \in InStep({"runtime"}) /\ InStep({"runtime"})' = InStep({"runtime"}) \ {u}
        /\ InStep({"stopped"})' = InStep({"stopped"})
        /\ runtimeLimit' = memCall[u].val /\ UNCHANGED <<memCrossed, memCanceled, memLimit>>
    BY <1>3, <1>r, MeGoesOn DEF SetRuntimeLimit, InStep
  <2>2. SUFFICES ASSUME ~memCrossed PROVE LimitOnItsWay' BY <2>1 DEF LimitOnItsWay
  <2>3. /\ InStep({"runtime"}) = {u} /\ memCall[u].val = memLimit /\ ~memCanceled /\ InStep({"stopped"}) = {}
    BY <2>1, <2>2 DEF LimitOnItsWay
  <2> QED BY <2>1, <2>3 DEF LimitOnItsWay
<1>4. ASSUME NEW u \in MemProcs, Start(u) PROVE LimitOnItsWay'
  <2>1. memCall[u].at = "idle" /\ memCall'[u].at = "add" /\ \A v \in MemProcs : v # u => memCall'[v] = memCall[v]
    <3>1. PICK r : MemGoes(u, "idle", r) /\ r.at = "add" BY <1>r, <1>4 DEF Start
    <3> QED BY <1>r, <3>1, MeGoesOn
  <2> QED BY <1>4, <1>a, <2>1 DEF Start
<1>5. ASSUME NEW u \in MemProcs, StartAdds(u) PROVE LimitOnItsWay'
  <2>1. MonitorLoop \in MemProcs BY DEF MemProcs
  <2>2. /\ memCall[u].at = "add" /\ memCall'[u].at = "idle" /\ memCall'[MonitorLoop].at = "idle"
        /\ \A v \in MemProcs : v \notin {u, MonitorLoop} => memCall'[v] = memCall[v]
        /\ memCall[MonitorLoop].at \notin {"runtime", "stopped"}
    BY <1>0, <1>5, <1>r, <2>1 DEF StartAdds, MeTypes, OneMonitor
  <2>3. InStep({"runtime"})' = InStep({"runtime"}) /\ InStep({"stopped"})' = InStep({"stopped"})
    BY <2>2 DEF InStep
  <2>4. \A v \in InStep({"runtime"}) : memCall'[v] = memCall[v] BY <2>2 DEF InStep
  <2>5. /\ memCrossed' = (memCrossed \/ memCanceled) /\ UNCHANGED <<memCanceled, memLimit, runtimeLimit>>
    BY <1>5 DEF StartAdds
  <2> QED BY <1>0, <2>3, <2>4, <2>5 DEF LimitOnItsWay
<1>6. ASSUME NEW u \in MemProcs, Stop(u) PROVE LimitOnItsWay'
  <2>1. /\ InStep({"runtime"})' = InStep({"runtime"}) /\ InStep({"stopped"})' = InStep({"stopped"})
        /\ memCanceled' /\ UNCHANGED <<memLimit, runtimeLimit>>
    <3>1. PICK r : MemGoes(u, "idle", r) /\ r.at = "wait" BY <1>r, <1>6 DEF Stop
    <3>2. /\ memCall'[u].at = "wait" /\ memCall[u].at = "idle" /\ \A v \in MemProcs : v # u => memCall'[v] = memCall[v]
      BY <1>r, <3>1, MeGoesOn
    <3>3. InStep({"runtime"})' = InStep({"runtime"}) /\ InStep({"stopped"})' = InStep({"stopped"}) BY <3>2 DEF InStep
    <3> QED BY <1>6, <3>3 DEF Stop
  <2>2. SUFFICES ASSUME ~memCrossed' PROVE LimitOnItsWay' BY DEF LimitOnItsWay
  <2>3. ~memCrossed /\ InStep({"runtime"}) = {} BY <1>0, <1>6, <2>2 DEF Stop
  <2> QED BY <2>1, <2>3 DEF LimitOnItsWay
<1>7. ASSUME NEW u \in MemProcs, StopRestores(u) PROVE LimitOnItsWay'
  <2>1. /\ InStep({"runtime"})' = InStep({"runtime"}) /\ InStep({"stopped"})' = InStep({"stopped"}) \cup {u}
        /\ memCall[u].at = "wait"
        /\ \A v \in InStep({"runtime"}) : memCall'[v] = memCall[v]
    <3>1. PICK r : MemGoes(u, "wait", r) /\ r.at = "stopped" BY <1>r, <1>7 DEF StopRestores
    <3>2. /\ memCall'[u].at = "stopped" /\ memCall[u].at = "wait" /\ \A v \in MemProcs : v # u => memCall'[v] = memCall[v]
      BY <1>r, <3>1, MeGoesOn
    <3> QED BY <3>2 DEF InStep
  <2>2. runtimeLimit' = PrevLimit /\ UNCHANGED <<memCrossed, memCanceled, memLimit>> BY <1>7 DEF StopRestores
  <2>3. SUFFICES ASSUME ~memCrossed PROVE LimitOnItsWay' BY <2>2 DEF LimitOnItsWay
  <2>4. memCanceled BY <2>1 DEF WaitsCanceled
  <2> QED BY <2>1, <2>2, <2>3, <2>4 DEF LimitOnItsWay
<1>8. CASE MonitorEnds
  <2>1. /\ memCall[MonitorLoop].at = "idle" /\ memCall'[MonitorLoop].at = "none"
        /\ \A v \in MemProcs : v # MonitorLoop => memCall'[v] = memCall[v]
    <3>1. PICK r : MemGoes(MonitorLoop, "idle", r) /\ r.at = "none" /\ MonitorLoop \in MemProcs
      BY <1>8, <1>r DEF MonitorEnds, MemProcs
    <3> QED BY <1>r, <3>1, MeGoesOn
  <2> QED BY <1>8, <1>a, <2>1 DEF MonitorEnds
<1>9. CASE OnPause \/ UNCHANGED meVars BY <1>9, <1>a DEF OnPause, meVars
<1> QED BY <1>1, <1>2, <1>3, <1>4, <1>5, <1>6, <1>7, <1>8, <1>9 DEF MeNext

LEMMA MeStep == MeInv /\ [MeNext]_meVars => MeInv'
BY MeTyped, SaysStep, PeakStep, WaitStep, MonitorStep, LimitStep DEF MeInv, MeSay

\* Among the decisions taken one is the newest.
LEMMA NewestExists ==
    ASSUME NEW n \in Nat, NEW S \in SUBSET (0..n), S # {}
    PROVE  \E m \in S : \A x \in S : x <= m
<1> DEFINE R == OpToRel(<, Nat)
           T == {n - x : x \in S}
<1>1. T \subseteq Nat /\ T # {}
  <2>1. \A x \in S : n - x \in Nat OBVIOUS
  <2> QED BY <2>1
<1>2. IsWellFoundedOn(R, Nat) BY NatLessThanWellFounded
<1>3. \A x, y \in Nat : x < y => <<x, y>> \in R BY DEF OpToRel
<1> HIDE DEF R
<1>4. PICK t \in T : \A e \in T : ~(<<e, t>> \in R) BY <1>1, <1>2, WFMin
<1>5. PICK m \in S : t = n - m BY <1>4
<1>6. \A x \in S : ~(n - x < n - m) BY <1>1, <1>3, <1>4, <1>5
<1>7. \A x \in S : x <= m
  <2> SUFFICES ASSUME NEW x \in S PROVE x <= m OBVIOUS
  <2>1. x \in Nat /\ m \in Nat /\ ~(n - x < n - m) BY <1>6
  <2> QED BY <2>1
<1> QED BY <1>7

LEMMA MeStarts == MeInit => MeInv
<1> SUFFICES ASSUME MeInit PROVE MeInv OBVIOUS
<1>1. \A u \in MemProcs : memCall[u].at = (IF u = MonitorLoop THEN "none" ELSE "idle")
  <2>1. MemRest.at = "idle" /\ [MemRest EXCEPT !.at = "none"].at = "none" BY DEF MemRest
  <2> QED BY <2>1 DEF MeInit
<1>2. MonitorLoop \in MemProcs /\ MonitorLoop \notin MemUsers /\ MemUsers \subseteq MemProcs
  BY MemAssumption DEF MemProcs
<1>3. memCall \in [MemProcs -> [at : MeSteps, val : Nat, pause : BOOLEAN]]
  <2>1. MemRest \in [at : MeSteps, val : Nat, pause : BOOLEAN]
        /\ [MemRest EXCEPT !.at = "none"] \in [at : MeSteps, val : Nat, pause : BOOLEAN]
    BY DEF MemRest, MeSteps
  <2> QED BY <2>1 DEF MeInit
<1>4. MeTypes
  <2>1. hasOnPause \in BOOLEAN /\ paused \in BOOLEAN /\ memStarted \in BOOLEAN
        /\ memCanceled \in BOOLEAN /\ memCrossed \in BOOLEAN BY DEF MeInit
  <2>2. checkID \in Nat /\ currentUsage \in Nat /\ peakUsage \in Nat /\ memWg \in Int /\ memLimit \in MemLimits
    BY DEF MeInit
  <2> QED BY <1>3, <2>1, <2>2 DEF MeInit, MeTypes
<1>5. \A a : a \notin {"none", "idle"} => InStep({a}) = {} BY <1>1 DEF InStep
<1>6. SaysOnce /\ NewestDecides /\ PeakCovers BY <1>1 DEF MeInit, SaysOnce, NewestDecides, PeakCovers, Deciding
<1>7. InStep({"runtime"}) = {} /\ InStep({"stopped"}) = {} /\ InStep({"add"}) = {} BY <1>5
<1>8. LimitOnItsWay /\ StoppedAlone BY <1>7 DEF MeInit, LimitOnItsWay, StoppedAlone
<1>9. OneMonitor
  <2>1. memCall[MonitorLoop].at = "none" /\ memWg = 0 BY <1>1, <1>2 DEF MeInit
  <2>2. \A u \in MemUsers : memCall[u].at # "none" BY <1>1, <1>2
  <2> QED BY <1>7, <2>1, <2>2 DEF OneMonitor
<1> QED BY <1>1, <1>4, <1>6, <1>8, <1>9 DEF MeInv, WaitsCanceled

LEMMA MeHolds == MeInv => LimiterSound
<1> SUFFICES ASSUME MeInv PROVE LimiterSound OBVIOUS
<1>1. ASSUME memSays # {}
      PROVE  paused = (CHOOSE d \in memSays : \A e \in memSays : e.id <= d.id).pause
  <2>1. checkID \in Nat /\ \A d \in memSays : d.id \in Nat /\ d.id <= checkID
    BY DEF MeInv, MeTypes, SaysOnce
  <2>2. {d.id : d \in memSays} \in SUBSET (0..checkID) /\ {d.id : d \in memSays} # {} BY <1>1, <2>1
  <2>3. \E m \in {d.id : d \in memSays} : \A x \in {d.id : d \in memSays} : x <= m
    BY <2>1, <2>2, NewestExists
  <2>4. \E d \in memSays : \A e \in memSays : e.id <= d.id BY <2>3
  <2> QED BY <2>4 DEF MeInv, NewestDecides
<1> QED BY <1>1 DEF LimiterSound, MeInv, PeakCovers, LimitOnItsWay, StoppedAlone

\* mem.go, checkMemoryUsage, UpdateLimit, Start and Stop: paused is the newest decision, the
\* peak covers what was measured, and unless calls cross the runtime has the limit it should
\* and Stop leaves no monitor, for any callers, usages and limits.
THEOREM LimiterIsSound == MeSpec => []LimiterSound
BY MeStarts, MeHolds, MeStep, PTL DEF MeSpec

-----------------------------------------------------------------------------
(* The languages: what a call of T has a right to is there for it wherever *)
(* it has got to, and no two codes ever have one language.                 *)

Loaded == 1..MaxLoads
LoPlaces == {"idle", "set", "find", "read", "find default", "read default", "peek", "make", "answer"}
Translating == LoPlaces \ {"idle", "set"}
Sayings == [at : LoPlaces, lang : Tongues, word : Words \cup {"none"}, of : Loaded \cup {0}, text : Nat,
            due : {"own", "default", "key"}]
LoTypes ==
    /\ loads \in 0..MaxLoads /\ currentLang \in Tongues /\ torn \in BOOLEAN
    /\ languages \in [Tongues -> 0..loads]
    /\ translations \in [Loaded -> [Words -> Nat]]
    /\ templates \in [Loaded -> SUBSET (Words \X Nat)]
    /\ templateCount \in [Loaded -> Nat]
    /\ clearing \in SUBSET Loaded
    /\ saying \in [Speakers -> Sayings]
OneCodeEach == \A c, d \in Tongues : languages[c] = languages[d] /\ languages[c] # 0 => c = d
CurrentThere ==
    /\ currentLang # DefaultLang /\ ~torn => languages[currentLang] # 0
    /\ \A s \in Speakers : saying[s].at = "set" /\ ~torn => languages[saying[s].lang] # 0

\* Where a call of T is, and in which language.
Says(say) ==
    /\ say.at \in Translating => say.word \in Words
    /\ say.at \notin Translating => say.due = "key"
    /\ say.at \in {"read", "read default", "peek", "make"} => say.of # 0
    /\ say.at \in {"peek", "make"} => say.text # 0
    /\ say.at \in {"find default", "read default"} => say.due # "own"
    /\ say.at = "read default" => say.of = languages[DefaultLang]
\* What it has a right to is there.
Granted(say) ==
    /\ say.due = "own" =>
        /\ languages[say.lang] # 0 /\ translations[languages[say.lang]][say.word] # 0
        /\ say.at # "find" => say.of = languages[say.lang]
    /\ say.due = "default" =>
        /\ say.lang # DefaultLang
        /\ languages[DefaultLang] # 0 /\ translations[languages[DefaultLang]][say.word] # 0
    /\ say.due # "key" /\ say.at = "answer" => say.text # 0
CallsGranted == \A s \in Speakers : Says(saying[s]) /\ Granted(saying[s])
TemplatesCounted ==
    \A l \in Loaded :
        /\ IsFiniteSet(templates[l]) /\ templateCount[l] = Cardinality(templates[l])
        /\ templateCount[l] <= MaxTemplates
LoInv == LoTypes /\ OneCodeEach /\ CurrentThere /\ CallsGranted /\ TemplatesCounted

\* A call goes on, and nothing else changes but templates.
LEMMA SayingStep ==
    ASSUME LoInv, NEW s \in Speakers, NEW say \in Sayings, saying' = [saying EXCEPT ![s] = say],
           Says(say), Granted(say), say.at = "set" => languages[say.lang] # 0,
           UNCHANGED <<languages, translations, loads, torn>>, currentLang' \in Tongues, clearing' \in SUBSET Loaded,
           templates' \in [Loaded -> SUBSET (Words \X Nat)], templateCount' \in [Loaded -> Nat], TemplatesCounted',
           currentLang' # DefaultLang /\ ~torn => languages[currentLang'] # 0
    PROVE  LoInv'
<1>1. LoTypes /\ OneCodeEach /\ CurrentThere /\ CallsGranted  BY DEF LoInv
<1>2. saying' \in [Speakers -> Sayings] /\ \A u \in Speakers : saying'[u] = IF u = s THEN say ELSE saying[u]
  BY <1>1 DEF LoTypes
<1>3. LoTypes'  BY <1>1, <1>2 DEF LoTypes
<1>4. OneCodeEach'  BY <1>1 DEF OneCodeEach
<1>5. CurrentThere'  BY <1>1, <1>2 DEF CurrentThere
<1>6. CallsGranted'
  <2> SUFFICES ASSUME NEW u \in Speakers PROVE Says(saying[u])' /\ Granted(saying[u])'  BY DEF CallsGranted
  <2>1. PICK v : v = saying'[u]  OBVIOUS
  <2>2. Says(v) /\ Granted(v)  BY <1>1, <1>2, <2>1 DEF CallsGranted
  <2>3. Says(v)' /\ Granted(v)'  BY <2>2 DEF Says, Granted
  <2> QED BY <2>1, <2>3 DEF Says, Granted
<1> QED BY <1>3, <1>4, <1>5, <1>6 DEF LoInv

LEMMA SayingHas ==
    ASSUME LoInv, NEW s \in Speakers, NEW say, say = saying[s]
    PROVE  /\ say \in Sayings /\ Says(say) /\ Granted(say)
           /\ languages \in [Tongues -> Loaded \cup {0}] /\ DefaultLang \in Tongues /\ currentLang \in Tongues
           /\ clearing \in SUBSET Loaded
           /\ templates \in [Loaded -> SUBSET (Words \X Nat)] /\ templateCount \in [Loaded -> Nat]
           /\ currentLang # DefaultLang /\ ~torn => languages[currentLang] # 0
<1>1. 0..loads \subseteq Loaded \cup {0}  BY LocaleAssumption DEF LoInv, LoTypes, Loaded
<1> QED BY <1>1, LocaleAssumption DEF LoInv, LoTypes, CallsGranted, CurrentThere

LEMMA SilentSays == Silent \in Sayings /\ Says(Silent) /\ Granted(Silent)
BY LocaleAssumption DEF Silent, Sayings, Says, Granted, LoPlaces, Translating

LEMMA SetLanguageKeeps == ASSUME LoInv, NEW s \in Speakers, NEW c \in Tongues, SetLanguage(s, c) PROVE LoInv'
<1>1. PICK say : say = IF languages[c] = 0 THEN Silent ELSE [Silent EXCEPT !.at = "set", !.lang = c]  OBVIOUS
<1>2. /\ saying' = [saying EXCEPT ![s] = say]
      /\ UNCHANGED <<languages, translations, templates, templateCount, currentLang, loads, clearing, torn>>
  BY <1>1 DEF SetLanguage, LoGoes
<1>3. say \in Sayings /\ Says(say) /\ Granted(say) /\ (say.at = "set" => languages[say.lang] # 0)
  <2>1. CASE languages[c] = 0  BY <1>1, <2>1, SilentSays DEF Silent
  <2>2. CASE languages[c] # 0
    BY <1>1, <2>2, SilentSays DEF Silent, Sayings, Says, Granted, LoPlaces, Translating
  <2> QED BY <2>1, <2>2
<1>4. TemplatesCounted'  BY <1>2 DEF LoInv, TemplatesCounted
<1> QED BY <1>2, <1>3, <1>4, SayingHas, SayingStep

LEMMA SetCurrentKeeps == ASSUME LoInv, NEW s \in Speakers, SetCurrent(s) PROVE LoInv'
<1>1. /\ saying' = [saying EXCEPT ![s] = Silent] /\ saying[s].at = "set" /\ currentLang' = saying[s].lang
      /\ UNCHANGED <<languages, translations, templates, templateCount, loads, clearing, torn>>
  BY DEF SetCurrent, LoGoes
<1>2. saying[s].lang \in Tongues /\ (~torn => languages[saying[s].lang] # 0)
  BY <1>1, SayingHas DEF LoInv, CurrentThere, Sayings
<1>3. TemplatesCounted'  BY <1>1 DEF LoInv, TemplatesCounted
<1> QED BY <1>1, <1>2, <1>3, SilentSays, SayingHas, SayingStep DEF Silent

LEMMA TranslateKeeps == ASSUME LoInv, NEW s \in Speakers, NEW w \in Words, Translate(s, w) PROVE LoInv'
<1>1. PICK say : say = [at |-> "find", lang |-> currentLang, word |-> w, of |-> 0, text |-> 0,
                        due |-> Due(currentLang, w)]
  OBVIOUS
<1>2. /\ saying' = [saying EXCEPT ![s] = say]
      /\ UNCHANGED <<languages, translations, templates, templateCount, currentLang, loads, clearing, torn>>
  BY <1>1 DEF Translate, LoGoes
<1>3. say \in Sayings /\ Says(say) /\ Granted(say)
  <2>1. Due(currentLang, w) \in {"own", "default", "key"}  BY DEF Due
  <2>2. say \in Sayings  BY <1>1, <2>1, SayingHas DEF Sayings, LoPlaces, Loaded
  <2>3. say.lang = currentLang /\ say.word = w /\ say.at = "find" /\ say.due = Due(currentLang, w)  BY <1>1
  <2>4. Granted(say)  BY <2>3 DEF Granted, Due
  <2>5. Says(say)  BY <2>3 DEF Says, Translating, LoPlaces
  <2> QED BY <2>2, <2>4, <2>5
<1>4. say.at = "find"  BY <1>1
<1>5. TemplatesCounted'  BY <1>2 DEF LoInv, TemplatesCounted
<1> QED BY <1>2, <1>3, <1>4, <1>5, SayingHas, SayingStep

LEMMA FindLanguageKeeps == ASSUME LoInv, NEW s \in Speakers, FindLanguage(s) PROVE LoInv'
<1>0. PICK y : y = saying[s]  OBVIOUS
<1>l. PICK l : l = languages[AskedIn(y)]  OBVIOUS
<1>1. PICK say : say = [y EXCEPT !.of = l,
                    !.at = IF l = 0 THEN Missing(y) ELSE IF y.at = "find" THEN "read" ELSE "read default"]
  OBVIOUS
<1>2. /\ saying' = [saying EXCEPT ![s] = say] /\ y.at \in {"find", "find default"}
      /\ UNCHANGED <<languages, translations, templates, templateCount, currentLang, loads, clearing, torn>>
  BY <1>0, <1>1, <1>l DEF FindLanguage, LoGoes
<1>3. y \in Sayings /\ Says(y) /\ Granted(y)  BY <1>0, SayingHas
<1>4. AskedIn(y) = IF y.at = "find" THEN y.lang ELSE DefaultLang  BY <1>2 DEF AskedIn
<1>5. l \in Loaded \cup {0}  BY <1>3, <1>4, <1>l, SayingHas DEF Sayings
<1>6. /\ say \in Sayings /\ say.of = l /\ say.lang = y.lang /\ say.word = y.word /\ say.due = y.due /\ say.text = y.text
      /\ say.at = IF l = 0 THEN Missing(y) ELSE IF y.at = "find" THEN "read" ELSE "read default"
  BY <1>1, <1>3, <1>5 DEF Sayings, LoPlaces, Missing
<1>7. Missing(y) = IF y.at = "find" /\ y.lang # DefaultLang THEN "find default" ELSE "answer"
  BY <1>2 DEF Missing
<1>8. Says(say) /\ Granted(say) /\ say.at # "set"
  <2>1. y.word \in Words  BY <1>2, <1>3 DEF Says, Translating, LoPlaces
  <2>2. CASE y.at = "find"
    <3>1. l = languages[y.lang] /\ (y.due = "own" => l # 0) /\ (l = 0 /\ y.due = "default" => say.at = "find default")
      BY <1>3, <1>4, <1>6, <1>7, <1>l, <2>2 DEF Granted
    <3>2. say.at \in {"read", "find default", "answer"} /\ (say.at # "read" => l = 0) /\ (say.at = "read" => l # 0)
      BY <1>6, <1>7, <2>2
    <3>3. Says(say)  BY <1>6, <2>1, <3>1, <3>2 DEF Says, Translating, LoPlaces
    <3>4. Granted(say)
      <4>1. y.due = "own" => say.of = languages[say.lang]  BY <1>6, <3>1
      <4>2. say.due = "own" => say.at = "read"  BY <1>6, <3>1, <3>2
      <4>3. say.due = "default" => say.at # "answer"  BY <1>6, <3>1, <3>2
      <4> QED BY <1>3, <1>6, <4>1, <4>2, <4>3 DEF Granted, Sayings
    <3> QED BY <3>2, <3>3, <3>4
  <2>3. CASE y.at = "find default"
    <3>1. l = languages[DefaultLang] /\ y.due # "own" /\ (y.due = "default" => l # 0)
      BY <1>3, <1>4, <1>l, <2>3 DEF Granted, Says
    <3>2. say.at = IF l = 0 THEN "answer" ELSE "read default"  BY <1>6, <1>7, <2>3
    <3>3. Says(say)  BY <1>6, <2>1, <3>1, <3>2 DEF Says, Translating, LoPlaces
    <3>4. Granted(say)  BY <1>3, <1>6, <3>1, <3>2 DEF Granted, Sayings
    <3> QED BY <3>2, <3>3, <3>4
  <2> QED BY <1>2, <2>2, <2>3
<1>9. TemplatesCounted'  BY <1>2 DEF LoInv, TemplatesCounted
<1> QED BY <1>2, <1>6, <1>8, <1>9, SayingHas, SayingStep

LEMMA ReadTextKeeps == ASSUME LoInv, NEW s \in Speakers, ReadText(s) PROVE LoInv'
<1>0. PICK y : y = saying[s]  OBVIOUS
<1>l. PICK text : text = translations[y.of][y.word]  OBVIOUS
<1>1. PICK say : say = [y EXCEPT !.text = text, !.of = IF text = 0 THEN 0 ELSE y.of,
                    !.at = IF text = 0 THEN Missing(y) ELSE "peek"]
  OBVIOUS
<1>2. /\ saying' = [saying EXCEPT ![s] = say] /\ y.at \in {"read", "read default"}
      /\ UNCHANGED <<languages, translations, templates, templateCount, currentLang, loads, clearing, torn>>
  BY <1>0, <1>1, <1>l DEF ReadText, LoGoes
<1>3. y \in Sayings /\ Says(y) /\ Granted(y)  BY <1>0, SayingHas
<1>4. y.of \in Loaded /\ y.word \in Words  BY <1>2, <1>3 DEF Says, Sayings, Translating, LoPlaces
<1>5. text \in Nat  BY <1>4, <1>l DEF LoInv, LoTypes
<1>6. /\ say \in Sayings /\ say.lang = y.lang /\ say.word = y.word /\ say.due = y.due /\ say.text = text
      /\ say.of = (IF text = 0 THEN 0 ELSE y.of) /\ say.at = IF text = 0 THEN Missing(y) ELSE "peek"
  BY <1>1, <1>3, <1>4, <1>5 DEF Sayings, LoPlaces, Missing
<1>7. Missing(y) = IF y.at = "read" /\ y.lang # DefaultLang THEN "find default" ELSE "answer"
  BY <1>2 DEF Missing
<1>8. /\ y.due = "own" => text # 0 /\ y.of = languages[y.lang]
      /\ y.due = "default" /\ y.at = "read default" => text # 0
      /\ y.due = "default" => y.lang # DefaultLang
  BY <1>2, <1>3, <1>l DEF Granted, Says
<1>9. Says(say) /\ Granted(say) /\ say.at # "set"
  <2>1. CASE text # 0
    <3>1. say.at = "peek" /\ say.of = y.of /\ y.of # 0  BY <1>4, <1>6, <2>1 DEF Loaded
    <3>2. Says(say)  BY <1>4, <1>6, <2>1, <3>1 DEF Says, Translating, LoPlaces
    <3>3. Granted(say)  BY <1>3, <1>6, <1>8, <3>1 DEF Granted
    <3> QED BY <3>1, <3>2, <3>3
  <2>2. CASE text = 0
    <3>1. y.due # "own" /\ (y.due = "default" => say.at = "find default")  BY <1>2, <1>6, <1>7, <1>8, <2>2
    <3>2. say.at \in {"find default", "answer"}  BY <1>6, <1>7, <2>2
    <3>3. Says(say)  BY <1>4, <1>6, <3>1, <3>2 DEF Says, Translating, LoPlaces
    <3>4. Granted(say)  BY <1>3, <1>6, <3>1, <3>2 DEF Granted, Sayings
    <3> QED BY <3>2, <3>3, <3>4
  <2> QED BY <2>1, <2>2
<1>10. TemplatesCounted'  BY <1>2 DEF LoInv, TemplatesCounted
<1> QED BY <1>2, <1>6, <1>9, <1>10, SayingHas, SayingStep

LEMMA PeekTemplateKeeps == ASSUME LoInv, NEW s \in Speakers, PeekTemplate(s) PROVE LoInv'
<1>0. PICK y : y = saying[s]  OBVIOUS
<1>1. PICK say : say = [y EXCEPT !.at = IF <<y.word, y.text>> \in templates[y.of] THEN "answer" ELSE "make"]  OBVIOUS
<1>2. /\ saying' = [saying EXCEPT ![s] = say] /\ y.at = "peek"
      /\ UNCHANGED <<languages, translations, templates, templateCount, currentLang, loads, clearing, torn>>
  BY <1>0, <1>1 DEF PeekTemplate, LoGoes
<1>3. y \in Sayings /\ Says(y) /\ Granted(y)  BY <1>0, SayingHas
<1>4. /\ say \in Sayings /\ say.lang = y.lang /\ say.word = y.word /\ say.due = y.due /\ say.text = y.text /\ say.of = y.of
      /\ say.at \in {"make", "answer"}
  BY <1>1, <1>3 DEF Sayings, LoPlaces
<1>5. Says(say) /\ Granted(say)  BY <1>2, <1>3, <1>4 DEF Says, Granted, Translating, LoPlaces
<1>6. TemplatesCounted'  BY <1>2 DEF LoInv, TemplatesCounted
<1> QED BY <1>2, <1>4, <1>5, <1>6, SayingHas, SayingStep

\* A full language loses one template for the new one.
LEMMA MakeTemplateKeeps == ASSUME LoInv, NEW s \in Speakers, MakeTemplate(s) PROVE LoInv'
<1>0. PICK y : y = saying[s]  OBVIOUS
<1>1. PICK say : say = [y EXCEPT !.at = "answer"]  OBVIOUS
<1>l. PICK l : l = y.of  OBVIOUS
<1>t. PICK t : t = <<y.word, y.text>>  OBVIOUS
<1>2. /\ saying' = [saying EXCEPT ![s] = say] /\ y.at = "make"
      /\ UNCHANGED <<languages, translations, currentLang, loads, clearing, torn>>
  BY <1>0, <1>1 DEF MakeTemplate, LoGoes
<1>3. y \in Sayings /\ Says(y) /\ Granted(y)  BY <1>0, SayingHas
<1>4. /\ say \in Sayings /\ say.lang = y.lang /\ say.word = y.word /\ say.due = y.due /\ say.text = y.text /\ say.of = y.of
      /\ say.at = "answer"
  BY <1>1, <1>3 DEF Sayings, LoPlaces
<1>5. Says(say) /\ Granted(say)  BY <1>2, <1>3, <1>4 DEF Says, Granted, Translating, LoPlaces
<1>6. l \in Loaded /\ t \in Words \X Nat  BY <1>2, <1>3, <1>l, <1>t DEF Says, Sayings, Translating, LoPlaces
<1>7. templates \in [Loaded -> SUBSET (Words \X Nat)] /\ templateCount \in [Loaded -> Nat]  BY SayingHas
<1>8. /\ IsFiniteSet(templates[l]) /\ templateCount[l] = Cardinality(templates[l]) /\ templateCount[l] \in Nat
      /\ templateCount[l] <= MaxTemplates
  BY <1>6, <1>7 DEF LoInv, TemplatesCounted
<1>9. /\ templates' \in [Loaded -> SUBSET (Words \X Nat)] /\ templateCount' \in [Loaded -> Nat]
      /\ TemplatesCounted'
  <2>1. CASE t \in templates[l]
    <3>1. UNCHANGED <<templates, templateCount>>  BY <1>0, <1>l, <1>t, <2>1 DEF MakeTemplate, Makes
    <3> QED BY <1>7, <3>1 DEF LoInv, TemplatesCounted
  <2>2. CASE t \notin templates[l]
    <3>1. PICK gone \in IF templateCount[l] >= MaxTemplates /\ templates[l] # {} THEN {{u} : u \in templates[l]} ELSE {{}} :
                /\ templates' = [templates EXCEPT ![l] = (templates[l] \ gone) \cup {t}]
                /\ templateCount' = [templateCount EXCEPT ![l] = templateCount[l] + 1 - Cardinality(gone)]
      BY <1>0, <1>l, <1>t, <2>2 DEF MakeTemplate, Makes
    <3>2. \/ gone = {} /\ templateCount[l] < MaxTemplates
          \/ \E u \in templates[l] : gone = {u}
      <4>1. CASE templateCount[l] >= MaxTemplates
        <5>1. templates[l] # {}  BY <1>8, <4>1, LocaleAssumption, FS_EmptySet
        <5> QED BY <3>1, <4>1, <5>1
      <4>2. CASE ~ (templateCount[l] >= MaxTemplates)
        <5>1. gone = {}  BY <3>1, <4>2
        <5> QED BY <1>8, <4>2, <5>1, LocaleAssumption
      <4> QED BY <4>1, <4>2
    <3>3. /\ IsFiniteSet(templates[l] \ gone) /\ Cardinality(templates[l] \ gone) = templateCount[l] - Cardinality(gone)
          /\ Cardinality(gone) \in 0..templateCount[l]
          /\ templateCount[l] + 1 - Cardinality(gone) <= MaxTemplates
      <4>1. CASE gone = {} /\ templateCount[l] < MaxTemplates
        <5>1. templates[l] \ gone = templates[l] /\ Cardinality(gone) = 0  BY <4>1, FS_EmptySet
        <5> QED BY <1>8, <4>1, <5>1, LocaleAssumption
      <4>2. CASE \E u \in templates[l] : gone = {u}
        <5>1. PICK u \in templates[l] : gone = {u}  BY <4>2
        <5>2. Cardinality(gone) = 1  BY <5>1, FS_Singleton
        <5>3. IsFiniteSet(templates[l] \ {u}) /\ Cardinality(templates[l] \ {u}) = Cardinality(templates[l]) - 1
          BY <1>8, <5>1, FS_RemoveElement
        <5>4. Cardinality(templates[l] \ {u}) \in Nat  BY <5>3, FS_CardinalityType
        <5> QED BY <1>8, <5>1, <5>2, <5>3, <5>4, LocaleAssumption
      <4> QED BY <3>2, <4>1, <4>2
    <3>4. PICK kept : kept = (templates[l] \ gone) \cup {t}  OBVIOUS
    <3>5. IsFiniteSet(kept) /\ Cardinality(kept) = templateCount[l] + 1 - Cardinality(gone)
      <4>1. t \notin templates[l] \ gone  BY <2>2
      <4>2. IsFiniteSet(kept) /\ Cardinality(kept) = Cardinality(templates[l] \ gone) + 1
        BY <3>3, <3>4, <4>1, FS_AddElement
      <4> QED BY <1>8, <3>3, <4>2
    <3>6. kept \in SUBSET (Words \X Nat)  BY <1>6, <1>7, <3>4
    <3>7. PICK count : count = templateCount[l] + 1 - Cardinality(gone)  OBVIOUS
    <3>8. count \in Nat /\ count = Cardinality(kept) /\ count <= MaxTemplates  BY <1>8, <3>3, <3>5, <3>7
    <3>9. templates' = [templates EXCEPT ![l] = kept] /\ templateCount' = [templateCount EXCEPT ![l] = count]
      BY <3>1, <3>4, <3>7
    <3> QED BY <1>6, <1>7, <3>5, <3>6, <3>8, <3>9 DEF LoInv, TemplatesCounted
  <2> QED BY <2>1, <2>2
<1> QED BY <1>2, <1>4, <1>5, <1>9, SayingHas, SayingStep

LEMMA SayTextKeeps == ASSUME LoInv, NEW s \in Speakers, SayText(s) PROVE LoInv'
<1>1. /\ saying' = [saying EXCEPT ![s] = Silent]
      /\ UNCHANGED <<languages, translations, templates, templateCount, currentLang, loads, clearing, torn>>
  BY DEF SayText, LoGoes
<1>2. TemplatesCounted'  BY <1>1 DEF LoInv, TemplatesCounted
<1> QED BY <1>1, <1>2, SilentSays, SayingHas, SayingStep DEF Silent

\* What was loaded stays, and a new language has a number that nobody had.
LEMMA LoadLanguageKeeps == ASSUME LoInv, NEW c \in Tongues, NEW words, LoadLanguage(c, words) PROVE LoInv'
<1>0. LoTypes /\ OneCodeEach /\ CurrentThere /\ CallsGranted /\ TemplatesCounted  BY DEF LoInv
<1>1. PICK l : l = IF languages[c] = 0 THEN loads + 1 ELSE languages[c]  OBVIOUS
<1>2. /\ loads < MaxLoads /\ loads' = loads + 1
      /\ languages' = [languages EXCEPT ![c] = l]
      /\ translations' = [translations EXCEPT ![l] = [w \in Words |-> IF w \in words THEN loads + 1 ELSE translations[l][w]]]
      /\ UNCHANGED <<templates, templateCount, currentLang, clearing, saying, torn>>
  BY <1>1 DEF LoadLanguage
<1>3. loads \in Nat /\ MaxLoads \in Nat /\ loads + 1 \in Nat /\ loads + 1 # 0 /\ loads + 1 \in Loaded
  BY <1>0, <1>2, LocaleAssumption DEF LoTypes, Loaded
<1>4. l \in Loaded /\ l \in 0..(loads + 1) /\ l # 0 /\ \A d \in Tongues : languages[d] \in 0..loads /\ languages[d] # loads + 1
  BY <1>0, <1>1, <1>2, <1>3 DEF LoTypes, Loaded
<1>5. \A d \in Tongues : languages'[d] = IF d = c THEN l ELSE languages[d]  BY <1>0, <1>2 DEF LoTypes
<1>6. LoTypes'
  <2>1. languages' \in [Tongues -> 0..loads']  BY <1>0, <1>2, <1>3, <1>4 DEF LoTypes
  <2>2. translations' \in [Loaded -> [Words -> Nat]]
    <3>1. PICK row : row = [w \in Words |-> IF w \in words THEN loads + 1 ELSE translations[l][w]]  OBVIOUS
    <3>2. row \in [Words -> Nat]  BY <1>0, <1>3, <1>4, <3>1 DEF LoTypes
    <3>3. translations' = [translations EXCEPT ![l] = row]  BY <1>2, <3>1
    <3> QED BY <1>0, <1>4, <3>2, <3>3 DEF LoTypes
  <2> QED BY <1>0, <1>2, <1>3, <2>1, <2>2 DEF LoTypes
<1>7. \A d \in Tongues : languages[d] # 0 => languages'[d] = languages[d]  BY <1>1, <1>5
<1>8. \A k \in Loaded, w \in Words : translations[k][w] # 0 => translations'[k][w] # 0
  BY <1>0, <1>2, <1>3, <1>4 DEF LoTypes
<1>9. OneCodeEach'
  <2>1. \A d \in Tongues : d # c => languages[d] # l \/ l = 0
    BY <1>0, <1>1, <1>4 DEF OneCodeEach
  <2> QED BY <1>0, <1>4, <1>5, <2>1 DEF OneCodeEach
<1>10. CurrentThere'
  <2>1. currentLang \in Tongues /\ \A s \in Speakers : saying[s].lang \in Tongues  BY <1>0 DEF LoTypes, Sayings
  <2> QED BY <1>0, <1>2, <1>7, <2>1 DEF CurrentThere
<1>11. CallsGranted'
  <2> SUFFICES ASSUME NEW s \in Speakers PROVE Says(saying[s])' /\ Granted(saying[s])'  BY DEF CallsGranted
  <2>1. PICK say : say = saying[s]  OBVIOUS
  <2>2. say \in Sayings /\ Says(say) /\ Granted(say) /\ DefaultLang \in Tongues  BY <2>1, SayingHas
  <2>3. say.lang \in Tongues /\ languages[say.lang] \in Loaded \cup {0} /\ languages[DefaultLang] \in Loaded \cup {0}
    BY <2>2, SayingHas DEF Sayings
  <2>4. say.due # "key" => say.word \in Words  BY <2>2 DEF Says
  <2>5. Granted(say)'
    BY <1>7, <1>8, <2>2, <2>3, <2>4 DEF Granted, Loaded
  <2>6. Says(say)'
    <3>1. say.at = "read default" => languages'[DefaultLang] = languages[DefaultLang]  BY <1>7, <2>2 DEF Says
    <3> QED BY <2>2, <3>1 DEF Says
  <2> QED BY <1>2, <2>1, <2>5, <2>6 DEF Says, Granted
<1>12. TemplatesCounted'  BY <1>0, <1>2 DEF TemplatesCounted
<1> QED BY <1>6, <1>9, <1>10, <1>11, <1>12 DEF LoInv

\* Calls for the language that goes lose their right to it, and fall back.
LEMMA RemoveLanguageKeeps == ASSUME LoInv, NEW c \in Tongues, RemoveLanguage(c) PROVE LoInv'
<1>0. LoTypes /\ OneCodeEach /\ CurrentThere /\ CallsGranted /\ TemplatesCounted  BY DEF LoInv
<1>1. /\ c # DefaultLang /\ languages[c] # 0 /\ languages' = [languages EXCEPT ![c] = 0]
      /\ currentLang' = (IF currentLang = c THEN DefaultLang ELSE currentLang)
      /\ saying' = [s \in Speakers |-> Lessened(saying[s], c)]
      /\ torn' = (torn \/ \E s \in Speakers : saying[s].at = "set" /\ saying[s].lang = c)
      /\ UNCHANGED <<translations, templates, templateCount, loads, clearing>>
  BY DEF RemoveLanguage, CurrentWithout
<1>2. \A d \in Tongues : languages'[d] = IF d = c THEN 0 ELSE languages[d]  BY <1>0, <1>1 DEF LoTypes
<1>3. \A s \in Speakers :
        /\ saying'[s] \in Sayings /\ saying'[s].at = saying[s].at /\ saying'[s].lang = saying[s].lang
        /\ saying'[s].word = saying[s].word /\ saying'[s].of = saying[s].of /\ saying'[s].text = saying[s].text
        /\ saying'[s].due = IF saying[s].lang = c /\ saying[s].due = "own"
                            THEN IF languages[DefaultLang] # 0 /\ translations[languages[DefaultLang]][saying[s].word] # 0
                                 THEN "default" ELSE "key"
                            ELSE saying[s].due
  <2> SUFFICES ASSUME NEW s \in Speakers
               PROVE  /\ saying'[s] \in Sayings /\ saying'[s].at = saying[s].at /\ saying'[s].lang = saying[s].lang
                      /\ saying'[s].word = saying[s].word /\ saying'[s].of = saying[s].of /\ saying'[s].text = saying[s].text
                      /\ saying'[s].due = IF saying[s].lang = c /\ saying[s].due = "own"
                            THEN IF languages[DefaultLang] # 0 /\ translations[languages[DefaultLang]][saying[s].word] # 0
                                 THEN "default" ELSE "key"
                            ELSE saying[s].due
    OBVIOUS
  <2>1. saying[s] \in Sayings /\ saying'[s] = Lessened(saying[s], c)  BY <1>0, <1>1 DEF LoTypes
  <2> QED BY <2>1 DEF Lessened, Sayings
<1>4. LoTypes'
  <2>1. saying' \in [Speakers -> Sayings]
    <3>1. \A s \in Speakers : saying'[s] \in Sayings  BY <1>3
    <3> QED BY <1>1, <3>1
  <2>2. languages' \in [Tongues -> 0..loads]  BY <1>0, <1>1 DEF LoTypes
  <2> QED BY <1>0, <1>1, <2>1, <2>2, LocaleAssumption DEF LoTypes
<1>5. OneCodeEach'  BY <1>0, <1>2 DEF OneCodeEach
<1>6. CurrentThere'
  <2>1. currentLang \in Tongues /\ \A s \in Speakers : saying[s].lang \in Tongues  BY <1>0 DEF LoTypes, Sayings
  <2>2. \A s \in Speakers : saying'[s].at = "set" /\ ~ torn' => saying[s].lang # c  BY <1>1, <1>3
  <2>3. ~ torn' => ~ torn  BY <1>1
  <2>4. currentLang' # DefaultLang /\ ~ torn' => languages'[currentLang'] # 0
    BY <1>0, <1>1, <1>2, <2>1, <2>3 DEF CurrentThere
  <2>5. \A s \in Speakers : saying'[s].at = "set" /\ ~ torn' => languages'[saying'[s].lang] # 0
    <3> SUFFICES ASSUME NEW s \in Speakers, saying'[s].at = "set", ~ torn' PROVE languages'[saying'[s].lang] # 0
      OBVIOUS
    <3>1. saying[s].at = "set" /\ saying'[s].lang = saying[s].lang  BY <1>3
    <3>2. languages[saying[s].lang] # 0  BY <1>0, <2>3, <3>1 DEF CurrentThere
    <3>3. saying[s].lang # c /\ saying[s].lang \in Tongues  BY <2>1, <2>2
    <3> QED BY <1>2, <3>1, <3>2, <3>3
  <2> QED BY <2>4, <2>5 DEF CurrentThere
<1>7. CallsGranted'
  <2> SUFFICES ASSUME NEW s \in Speakers PROVE Says(saying[s])' /\ Granted(saying[s])'  BY DEF CallsGranted
  <2>1. PICK y : y = saying[s]  OBVIOUS
  <2>2. PICK say : say = saying'[s]  OBVIOUS
  <2>3. y \in Sayings /\ Says(y) /\ Granted(y) /\ DefaultLang \in Tongues  BY <2>1, SayingHas
  <2>4. /\ say.at = y.at /\ say.lang = y.lang /\ say.word = y.word /\ say.of = y.of /\ say.text = y.text
        /\ say.due = IF y.lang = c /\ y.due = "own"
                     THEN IF languages[DefaultLang] # 0 /\ translations[languages[DefaultLang]][y.word] # 0
                          THEN "default" ELSE "key"
                     ELSE y.due
    BY <1>3, <2>1, <2>2
  <2>5. languages'[DefaultLang] = languages[DefaultLang]  BY <1>1, <1>2, <2>3
  <2>6. y.lang \in Tongues /\ (y.lang # c => languages'[y.lang] = languages[y.lang])  BY <1>2, <2>3 DEF Sayings
  <2>7. Says(say)'  BY <2>3, <2>4, <2>5 DEF Says
  <2>8. Granted(say)'
    <3>1. say.due = "own" => y.due = "own" /\ y.lang # c  BY <2>4
    <3>2. say.due = "default" => /\ y.lang # DefaultLang /\ languages[DefaultLang] # 0
                                 /\ translations[languages[DefaultLang]][y.word] # 0
      BY <1>1, <2>3, <2>4 DEF Granted
    <3>3. say.due # "key" => y.due # "key"  BY <2>4
    <3> QED BY <1>1, <2>3, <2>4, <2>5, <2>6, <3>1, <3>2, <3>3 DEF Granted
  <2> QED BY <2>2, <2>7, <2>8 DEF Says, Granted
<1>8. TemplatesCounted'  BY <1>0, <1>1 DEF TemplatesCounted
<1> QED BY <1>4, <1>5, <1>6, <1>7, <1>8 DEF LoInv

LEMMA ClearingKeeps ==
    ASSUME LoInv, ClearTemplateCache \/ \E l \in clearing : ClearTemplates(l)
    PROVE  LoInv'
<1>0. LoTypes /\ OneCodeEach /\ CurrentThere /\ CallsGranted /\ TemplatesCounted  BY DEF LoInv
<1>1. UNCHANGED <<languages, translations, currentLang, loads, saying, torn>>  BY DEF ClearTemplateCache, ClearTemplates
<1>2. OneCodeEach' /\ CurrentThere' /\ CallsGranted'
  BY <1>0, <1>1 DEF OneCodeEach, CurrentThere, CallsGranted, Says, Granted
<1>3. CASE ClearTemplateCache
  <2>1. clearing' = {languages[c] : c \in Tongues} \ {0} /\ UNCHANGED <<templates, templateCount>>
    BY <1>3 DEF ClearTemplateCache
  <2>2. clearing' \in SUBSET Loaded
    <3>1. \A c \in Tongues : languages[c] \in Loaded \cup {0}  BY <1>0, LocaleAssumption DEF LoTypes, Loaded
    <3> QED BY <2>1, <3>1
  <2>3. LoTypes' /\ TemplatesCounted'  BY <1>0, <1>1, <2>1, <2>2 DEF LoTypes, TemplatesCounted
  <2> QED BY <1>2, <2>3 DEF LoInv
<1>4. CASE \E l \in clearing : ClearTemplates(l)
  <2>1. PICK l \in clearing : ClearTemplates(l)  BY <1>4
  <2>2. /\ clearing' = clearing \ {l} /\ templates' = [templates EXCEPT ![l] = {}]
        /\ templateCount' = [templateCount EXCEPT ![l] = 0]
    BY <2>1 DEF ClearTemplates
  <2>3. IsFiniteSet({}) /\ Cardinality({}) = 0  BY FS_EmptySet
  <2>4. LoTypes'  BY <1>0, <1>1, <2>2 DEF LoTypes
  <2>5. TemplatesCounted'  BY <1>0, <2>2, <2>3, LocaleAssumption DEF LoTypes, TemplatesCounted
  <2> QED BY <1>2, <2>4, <2>5 DEF LoInv
<1> QED BY <1>3, <1>4

LEMMA LoStep == LoInv /\ [LoNext]_loVars => LoInv'
<1> SUFFICES ASSUME LoInv, [LoNext]_loVars PROVE LoInv'  OBVIOUS
<1>1. CASE \E c \in Tongues : RemoveLanguage(c) \/ \E words \in SUBSET Words \ {{}} : LoadLanguage(c, words)
  BY <1>1, RemoveLanguageKeeps, LoadLanguageKeeps
<1>2. CASE \E s \in Speakers :
             \/ \E c \in Tongues : SetLanguage(s, c)
             \/ \E w \in Words : Translate(s, w)
             \/ SetCurrent(s) \/ FindLanguage(s) \/ ReadText(s) \/ PeekTemplate(s) \/ MakeTemplate(s) \/ SayText(s)
  BY <1>2, SetLanguageKeeps, TranslateKeeps, SetCurrentKeeps, FindLanguageKeeps, ReadTextKeeps, PeekTemplateKeeps,
     MakeTemplateKeeps, SayTextKeeps
<1>3. CASE ClearTemplateCache \/ \E l \in clearing : ClearTemplates(l)  BY <1>3, ClearingKeeps
<1>4. CASE UNCHANGED loVars
  BY <1>4 DEF loVars, LoInv, LoTypes, OneCodeEach, CurrentThere, CallsGranted, TemplatesCounted, Says, Granted
<1> QED BY <1>1, <1>2, <1>3, <1>4 DEF LoNext

LEMMA LoInvSound == LoInv => LocaleSound
<1> SUFFICES ASSUME LoInv PROVE LocaleSound  OBVIOUS
<1>1. ASSUME NEW s \in Speakers, saying[s].at = "answer"
      PROVE  /\ saying[s].due = "own" => Source(saying[s]) = "own"
             /\ saying[s].due = "default" => Source(saying[s]) # "key"
  <2>1. PICK y : y = saying[s]  OBVIOUS
  <2>2. y \in Sayings /\ Granted(y) /\ y.at = "answer" /\ DefaultLang \in Tongues  BY <1>1, <2>1, SayingHas
  <2>3. y.due = "own" /\ y.lang # DefaultLang => y.of # languages[DefaultLang]
    BY <2>2 DEF Granted, LoInv, OneCodeEach, Sayings
  <2>4. y.due # "key" => y.text # 0  BY <2>2 DEF Granted
  <2> QED BY <2>1, <2>3, <2>4 DEF Source
<1>2. currentLang # DefaultLang /\ ~torn => languages[currentLang] # 0  BY DEF LoInv, CurrentThere
<1> QED BY <1>1, <1>2 DEF LocaleSound, LoInv, TemplatesCounted, Loaded

LEMMA LoInvBegins == LoInit => LoInv
<1> SUFFICES ASSUME LoInit PROVE LoInv  OBVIOUS
<1>1. LoTypes
  <2>1. 0 \in 0..loads /\ loads \in 0..MaxLoads  BY LocaleAssumption DEF LoInit
  <2>2. templates \in [Loaded -> SUBSET (Words \X Nat)] /\ templateCount \in [Loaded -> Nat]  BY DEF LoInit, Loaded
  <2>3. translations \in [Loaded -> [Words -> Nat]]  BY DEF LoInit, Loaded
  <2>4. saying \in [Speakers -> Sayings]  BY SilentSays DEF LoInit
  <2> QED BY <2>1, <2>2, <2>3, <2>4, LocaleAssumption DEF LoInit, LoTypes
<1>2. \A s \in Speakers : saying[s] = Silent /\ saying[s].at = "idle"  BY DEF LoInit, Silent
<1>3. CallsGranted  BY <1>2, SilentSays DEF CallsGranted
<1>4. TemplatesCounted
  <2>1. IsFiniteSet({}) /\ Cardinality({}) = 0  BY FS_EmptySet
  <2> QED BY <2>1, LocaleAssumption DEF LoInit, TemplatesCounted, Loaded
<1>5. OneCodeEach /\ CurrentThere  BY <1>2 DEF LoInit, OneCodeEach, CurrentThere
<1> QED BY <1>1, <1>3, <1>4, <1>5 DEF LoInv

\* i18n.go, T and the calls that load, remove, choose and clear beside it: a word is answered in
\* its language if that has it, else in the default one, never bare if either has it; the
\* current language exists, and templateCount is the number of templates: for any languages,
\* words, callers, loads and MaxTemplates, with the exceptions that LocaleSound names.
THEOREM TranslationsSound == LoSpec => []LocaleSound
<1> QED BY LoInvBegins, LoStep, LoInvSound, PTL DEF LoSpec
=============================================================================
