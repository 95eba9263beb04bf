------------------------- MODULE HostLifecycleProofs -------------------------
(***************************************************************************)
(* Proofs about HostLifecycle.                                             *)
(*                                                                         *)
(* The watchdog: for every watchdog time and every length of the rounds of *)
(* the two loops which leave the watchdog enough time.                     *)
(*                                                                         *)
(* Settings and pins: for every finite set of players and every set of     *)
(* pins.  The rule by which makeValid() grants pins is recursive; that one *)
(* function obeys it is shown turn by turn, up to the first turn without   *)
(* one.  From there on only the rule is used: two who were granted the     *)
(* same pin are one, and who keeps a pin keeps it when asked again.        *)
(***************************************************************************)
EXTENDS HostLifecycle, FiniteSetTheorems, NaturalsInduction, WellFoundedInduction, TLAPS

LEMMA CoresType == Core0 \in Cores /\ Core1 \in Cores /\ Core0 # Core1 /\ Cores = {Core0, Core1}
BY DEF Cores, Core0, Core1

LEMMA TimesType ==
  /\ WatchdogTime \in Nat \ {0} /\ RebootDelay \in Nat \ {0} /\ LongestRound \in Nat \ {0}
  /\ LongestSave \in Nat /\ WatchdogTime > 2 * LongestRound + LongestSave
BY LifecycleAssumption, TimingAssumption

LEMMA WatchdogStarts == LifeInit => WatchdogInv
<1> SUFFICES ASSUME LifeInit PROVE WatchdogInv
  OBVIOUS
<1> USE CoresType, TimesType DEF LifeInit
<1>1. Places
  BY DEF Places, Core0Places, Core1Places, At
<1>2. ClockType
  BY DEF ClockType, FreshWatchdog, At
<1>3. FedInTime
  BY DEF FedInTime, At
<1> QED BY <1>1, <1>2, <1>3 DEF WatchdogInv

LEMMA RoundsFit ==
  ASSUME WatchdogInv, ~At(Core0, "starting")
  PROVE  /\ round[Core1] \in 0 .. LongestRound
         /\ ~At(Core0, "erased") => round[Core0] \in 0 .. LongestRound
         /\ At(Core0, "erased") => round[Core0] \in 0 .. LongestSave
BY CoresType, TimesType DEF WatchdogInv, ClockType, Longest

\* A step which moves neither core nor the clock keeps the invariant.
LEMMA ClockKept ==
  ASSUME WatchdogInv,
         UNCHANGED <<environment, pc, clock>>, count' \in [Things -> Nat],
         count'["hangs"] = count["hangs"]
  PROVE  WatchdogInv'
BY DEF WatchdogInv, Places, ClockType, Longest, FedInTime, Unfed, At, clock

\* A program which starts anew has time enough, whatever it was.
LEMMA RestartKept ==
  ASSUME WatchdogInv,
         Restarts, UNCHANGED <<environment, clock>>, count' \in [Things -> Nat]
  PROVE  WatchdogInv'
<1> USE CoresType DEF WatchdogInv
<1>1. Places'
  BY DEF Places, Restarts, At, Core0Places, Core1Places
<1>2. ClockType'
  BY DEF ClockType, clock, Restarts, At
<1>3. FedInTime'
  BY DEF FedInTime, Restarts, At
<1> QED BY <1>1, <1>2, <1>3

\* The erasure begins with the watchdog at most two rounds old.
LEMMA EraseKept ==
  ASSUME WatchdogInv, NEW toSave,
         Erase(toSave), pc[Core0] \in {"looking", "idle"},
         UNCHANGED <<environment, alive, watchdog, count>>
  PROVE  WatchdogInv'
<1> USE CoresType, TimesType DEF WatchdogInv, Erase
<1>1. Places'
  BY DEF Places, At, Core0Places, Core1Places
<1>2. ClockType'
  <2>1. round' \in [Cores -> Nat] /\ round'[Core0] = 0 /\ round'[Core1] = round[Core1]
    BY DEF ClockType
  <2>2. round[Core1] <= LongestRound
    BY RoundsFit DEF At
  <2> QED BY <2>1, <2>2 DEF ClockType, Longest
<1>3. FedInTime'
  <2> SUFFICES ASSUME environment.clock, count.hangs = 0
               PROVE  Unfed' <= 2 * LongestRound + round'[Core0]
    BY <1>1 DEF FedInTime, At, Places
  <2>1. round'[Core0] = 0 /\ Unfed' = Unfed
    BY DEF ClockType, Unfed
  <2>2. Unfed \in Int /\ round[Core0] \in 0 .. LongestRound /\ round[Core1] \in 0 .. LongestRound
    BY RoundsFit DEF ClockType, Unfed, At
  <2>3. IF alive THEN Unfed <= LongestRound + round[Core1] ELSE Unfed <= round[Core0]
    BY DEF FedInTime, At
  <2> QED BY <2>1, <2>2, <2>3
<1> QED BY <1>1, <1>2, <1>3

LEMMA CountsKept ==
  ASSUME WatchdogInv, NEW thing \in Things, Counts(thing)
  PROVE  /\ count' \in [Things -> Nat]
         /\ thing # "hangs" => count'["hangs"] = count["hangs"]
         /\ thing = "hangs" => count'["hangs"] > 0
BY DEF WatchdogInv, Places, Counts, Things

LEMMA TickKept == ASSUME WatchdogInv, Tick, UNCHANGED environment PROVE WatchdogInv'
<1> USE CoresType, TimesType DEF WatchdogInv, Tick
<1>1. Places'
  BY DEF Places, At
<1>2. \A c \in Cores : round'[c] = IF Running(c) THEN round[c] + 1 ELSE 0
  OBVIOUS
<1>3. ClockType'
  <2>1. round' \in [Cores -> Nat] /\ \A c \in Cores : round'[c] <= Longest(c)
    BY DEF ClockType, Longest
  <2>3. \A c \in Cores : Longest(c)' = Longest(c)
    BY DEF Longest, At
  <2>2. watchdog' \in [time: Nat \ {0}, left: Nat] /\ watchdog'.time = watchdog.time
    BY DEF ClockType
  <2> QED BY <2>1, <2>2, <2>3 DEF ClockType
<1>4. FedInTime'
  <2> SUFFICES ASSUME count["hangs"] = 0, environment.clock, ~At(Core0, "starting")
               PROVE  FedInTime'
    BY DEF FedInTime, At
  <2>1. Unfed' = Unfed + 1 /\ Unfed \in Int
    BY DEF ClockType, Unfed
  <2>2. round'[Core0] = round[Core0] + 1
    BY <1>2 DEF Running, Places, Core0Places, At
  <2>3. ~At(Core0, "erased") => round'[Core1] = round[Core1] + 1
    BY <1>2 DEF Running, Places, Core0Places, Core1Places, At
  <2>4. /\ round[Core0] \in Nat /\ round[Core1] \in 0 .. LongestRound
        /\ ~At(Core0, "erased") => round[Core0] \in 0 .. LongestRound
    BY RoundsFit DEF ClockType
  <2> QED BY <2>1, <2>2, <2>3, <2>4 DEF FedInTime, At
<1> QED BY <1>1, <1>3, <1>4

LEMMA WatchdogKept ==
  ASSUME WatchdogInv, [LifeNext]_<<environment, lifeSteps>>
  PROVE  WatchdogInv'
<1> USE CoresType, TimesType DEF lifeVars, boots, detection, clock
<1>0. count \in [Things -> Nat]
  BY DEF WatchdogInv, Places
<1>1. CASE UNCHANGED <<environment, lifeSteps>>
  BY <1>0, <1>1, ClockKept DEF lifeSteps
<1> SUFFICES ASSUME LifeNext PROVE WatchdogInv'
  BY <1>1
<1>2. UNCHANGED environment
  BY DEF LifeNext
<1>3. CASE Boot
  <2> USE DEF WatchdogInv
  <2>1. /\ UNCHANGED count
        /\ alive' = TRUE /\ watchdog' = FreshWatchdog /\ round' = [c \in Cores |-> 0]
    BY <1>3 DEF Boot
  <2>2. pc' \in [Cores -> {"looking", "idle"}] /\ pc'[Core1] = "idle"
    BY <1>3 DEF Boot
  <2>3. Places'
    BY <2>1, <2>2 DEF Places, At, Core0Places, Core1Places
  <2>4. ClockType'
    BY <1>2, <2>1 DEF ClockType, FreshWatchdog, Longest
  <2>5. FedInTime'
    BY <2>1, <2>2 DEF FedInTime, Unfed, FreshWatchdog, At
  <2> QED BY <2>3, <2>4, <2>5
<1>4. ASSUME NEW i \in Players, See(i) PROVE WatchdogInv'
  BY <1>0, <1>2, <1>4, ClockKept DEF See
<1>5. CASE Detect
  BY <1>0, <1>2, <1>5, ClockKept DEF Detect
<1>6. ASSUME pc[Core0] \in {"looking", "idle"}, DetectReboots, UNCHANGED <<alive, watchdog, count>>
      PROVE WatchdogInv'
  <2>1. CASE BecameNow # {}
    BY <1>2, <1>6, <2>1, EraseKept DEF DetectReboots
  <2>2. CASE BecameNow = {}
    BY <1>0, <1>2, <1>6, <2>2, RestartKept DEF DetectReboots
  <2> QED BY <2>1, <2>2
<1>7. CASE DetectLate
  BY <1>6, <1>7 DEF DetectLate, Idle
<1>8. CASE LookEnds
  <2>0. pc[Core0] = "looking" /\ UNCHANGED count
    BY <1>8 DEF LookEnds, At
  <2>1. CASE News
    BY <1>6, <1>8, <2>0, <2>1 DEF LookEnds, DetectReboots
  <2>2. CASE ~News
    <3> USE DEF WatchdogInv
    <3>1. pc' = [pc EXCEPT ![Core0] = "idle"] /\ UNCHANGED clock
      BY <1>8, <2>2 DEF LookEnds, Goes
    <3>2. Places'
      BY <2>0, <3>1 DEF Places, At, Core0Places, Core1Places
    <3>3. ClockType'
      BY <1>2, <2>0, <3>1 DEF ClockType, Longest, At, Places
    <3>4. FedInTime'
      BY <1>2, <2>0, <3>1 DEF FedInTime, Unfed, At, Places
    <3> QED BY <3>2, <3>3, <3>4
  <2> QED BY <2>1, <2>2
<1>9. CASE ProcessSaveRequests
  BY <1>2, <1>9, EraseKept DEF ProcessSaveRequests, Idle
<1>10. CASE Program
  BY <1>0, <1>2, <1>10, RestartKept DEF Program
<1>11. CASE Beat0
  <2> USE <1>11 DEF WatchdogInv, Beat0
  <2>1. Places'
    BY DEF Places, At
  <2>2. ClockType'
    BY <1>2 DEF ClockType, Longest, At
  <2>3. FedInTime'
    <3>1. Unfed' = Unfed /\ Unfed \in Int /\ round'[Core1] = round[Core1]
      BY DEF Unfed, ClockType
    <3>2. round[Core0] \in 0 .. LongestRound /\ round[Core1] \in 0 .. LongestRound
      BY RoundsFit DEF At
    <3> QED BY <1>2, <3>1, <3>2 DEF FedInTime, At
  <2> QED BY <2>1, <2>2, <2>3
<1>12. CASE Beat1
  <2> USE <1>12 DEF WatchdogInv, Beat1
  <2>1. Places'
    BY DEF Places, At
  <2>2. ClockType'
    <3>1. /\ round' \in [Cores -> Nat]
          /\ ~At(Core0, "starting")' => \A c \in Cores : round'[c] <= Longest(c)'
      BY DEF ClockType, Longest, At
    <3>2. watchdog' \in [time: Nat \ {0}, left: Nat] /\ watchdog'.time = watchdog.time
      BY DEF ClockType
    <3>3. watchdog.left > 0 => watchdog'.left > 0
      BY DEF ClockType
    <3> QED BY <1>2, <3>1, <3>2, <3>3 DEF ClockType
  <2>3. FedInTime'
    <3>1. /\ round'[Core0] = round[Core0] /\ round[Core0] \in Nat /\ alive' = FALSE
          /\ ~At(Core0, "starting") => round[Core0] <= Longest(Core0)
      BY DEF ClockType
    <3>2. ~At(Core0, "erased") \/ count["hangs"] # 0 \/ ~At(Core0, "starting")
      BY DEF At
    <3>3. CASE alive
      <4>1. Unfed' = 0
        BY <3>3 DEF Unfed, ClockType
      <4> QED BY <1>2, <3>1, <4>1 DEF FedInTime, At
    <3>4. CASE ~alive
      <4>1. Unfed' = Unfed
        BY <3>4 DEF Unfed
      <4> QED BY <1>2, <3>1, <3>4, <4>1 DEF FedInTime, At
    <3> QED BY <3>3, <3>4
  <2> QED BY <2>1, <2>2, <2>3
<1>13. CASE Tick
  BY <1>2, <1>13, TickKept
<1>14. CASE Bite
  BY <1>0, <1>2, <1>14, RestartKept DEF Bite
<1>15. CASE Command
  <2>1. count' \in [Things -> Nat] /\ count'["hangs"] = count["hangs"]
    BY <1>0, <1>15, CountsKept DEF Command, Things
  <2> QED BY <1>2, <1>15, <2>1, ClockKept DEF Command
<1>16. ASSUME NEW c \in Cores, Hang(c) PROVE WatchdogInv'
  <2> USE DEF WatchdogInv
  <2>1. count' \in [Things -> Nat] /\ count'["hangs"] > 0
    BY <1>16, CountsKept DEF Hang, Things
  <2>2. pc' = [pc EXCEPT ![c] = "hung"] /\ pc[c] = "idle" /\ UNCHANGED clock
    BY <1>16 DEF Hang, Goes, Idle
  <2>3. Places'
    BY <2>1, <2>2 DEF Places, At, Core0Places, Core1Places
  <2>4. ClockType'
    BY <1>2, <2>2 DEF ClockType, Longest, At
  <2>5. FedInTime'
    BY <2>1 DEF FedInTime
  <2> QED BY <2>3, <2>4, <2>5
<1>17. CASE UsbReboot
  <2> USE DEF WatchdogInv
  <2>1. count' \in [Things -> Nat] /\ count'["hangs"] = count["hangs"]
    BY <1>17, CountsKept DEF UsbReboot, Things
  <2>2. ~environment.clock
    <3>1. count["reboots"] < environment["reboots"] /\ count["reboots"] \in Nat
      BY <1>0, <1>17 DEF UsbReboot, Counts, Things
    <3>2. environment.clock => environment["reboots"] = 0
      BY RebootsAssumption DEF ClockType
    <3> QED BY <3>1, <3>2
  <2>3. Places'
    BY <1>17, <2>1 DEF UsbReboot, Places, At
  <2>4. ClockType'
    <3>1. watchdog' = [time |-> RebootDelay, left |-> RebootDelay] /\ UNCHANGED <<alive, round>>
      BY <1>17 DEF UsbReboot, ClockType
    <3>2. pc' = pc
      BY <1>17 DEF UsbReboot
    <3> QED BY <1>2, <2>2, <3>1, <3>2 DEF ClockType, Longest, At
  <2>5. FedInTime'
    BY <1>2, <2>2 DEF FedInTime
  <2> QED BY <2>3, <2>4, <2>5
<1>18. CASE PowerCut
  <2>1. count' \in [Things -> Nat]
    BY <1>18, CountsKept DEF PowerCut, Things
  <2> QED BY <1>2, <1>18, <2>1, RestartKept DEF PowerCut
<1>19. ASSUME NEW i \in Players, Plug(i) PROVE WatchdogInv'
  <2>1. count' \in [Things -> Nat] /\ count'["hangs"] = count["hangs"]
    BY <1>19, CountsKept DEF Plug, Things
  <2> QED BY <1>2, <1>19, <2>1, ClockKept DEF Plug
<1> QED
  BY <1>3, <1>4, <1>5, <1>7, <1>8, <1>9, <1>10, <1>11, <1>12, <1>13, <1>14, <1>15, <1>16, <1>17,
     <1>18, <1>19 DEF LifeNext, LifeSystem

\* While no core stops the watchdog never resets the program, whatever its time, if it is
\* longer than two rounds of the loops and a save together: heartbeat() feeds it once for
\* each two rounds, and save_settings_memory() may begin just before it is fed.
THEOREM NeverReset == LifeSpec => []NoFalseReset
<1>1. LifeInit => WatchdogInv
  BY WatchdogStarts
<1>2. WatchdogInv /\ [LifeNext]_<<environment, lifeSteps>> => WatchdogInv'
  BY WatchdogKept
<1>3. WatchdogInv => NoFalseReset
  <2> SUFFICES ASSUME WatchdogInv, watchdog.left = 0, ~At(Core0, "starting"), count["hangs"] = 0
               PROVE  FALSE
    BY DEF NoFalseReset, WatchdogInv, Places, Things
  <2> USE CoresType, TimesType DEF WatchdogInv
  <2>1. environment.clock /\ Unfed = WatchdogTime
    BY DEF ClockType, Unfed
  <2>2. /\ round[Core1] \in 0 .. LongestRound
        /\ ~At(Core0, "erased") => round[Core0] \in 0 .. LongestRound
        /\ At(Core0, "erased") => round[Core0] \in 0 .. LongestSave
    BY RoundsFit
  <2> QED BY <2>1, <2>2 DEF FedInTime
<1> QED BY <1>1, <1>2, <1>3, PTL DEF LifeSpec

-----------------------------------------------------------------------------
(* Who is granted a pin *)

LEMMA LeastNumber ==
  ASSUME NEW T \in SUBSET Nat, T # {}
  PROVE  \E m \in T : \A k \in T : m <= k
<1>1. IsWellFoundedOn(OpToRel(<, Nat), Nat)
  BY NatLessThanWellFounded
<1>2. PICK m \in T : \A k \in T : ~ (<<k, m>> \in OpToRel(<, Nat))
  BY <1>1, WFMin
<1>3. ASSUME NEW k \in T PROVE m <= k
  <2>1. k \in Nat /\ m \in Nat /\ ~ (k < m)
    BY <1>2 DEF OpToRel
  <2> QED BY <2>1
<1> QED BY <1>3

LEMMA PlayersBounded == \E bound \in Nat : \A i \in Players : i < bound
<1>1. PICK n \in Nat : ExistsBijection(1 .. n, Players)
  BY PlayersAssumption, FS_NatBijection
<1>2. PICK f : f \in [1 .. n -> Players] /\ \A i \in Players : \E x \in 1 .. n : f[x] = i
  BY <1>1 DEF ExistsBijection, Bijection, Surjection
<1> DEFINE Bounded(m) == \E bound \in Nat : \A x \in 1 .. m : f[x] < bound
           T == {m \in 0 .. n : ~Bounded(m)}
<1>3. T = {}
  <2> SUFFICES ASSUME T # {} PROVE FALSE
    OBVIOUS
  <2>1. PICK m \in T : \A k \in T : m <= k
    <3>1. T \in SUBSET Nat
      OBVIOUS
    <3> HIDE DEF T
    <3> QED BY <3>1, LeastNumber
  <2>2. m # 0
    <3>1. \A x \in 1 .. 0 : f[x] < 0
      OBVIOUS
    <3>2. Bounded(0)
      BY <3>1
    <3>3. ~Bounded(m)
      BY <2>1
    <3> HIDE DEF Bounded
    <3> QED BY <3>2, <3>3
  <2>3. m \in 1 .. n /\ m - 1 \in 0 .. n /\ m - 1 \notin T
    <3>1. m \in 0 .. n /\ n \in Nat /\ \A k \in T : m <= k
      BY <2>1
    <3> HIDE DEF T
    <3>2. m \in 1 .. n /\ m - 1 \in 0 .. n /\ ~ (m <= m - 1)
      BY <2>2, <3>1
    <3> QED BY <3>1, <3>2
  <2>4. PICK b \in Nat : \A x \in 1 .. m - 1 : f[x] < b
    <3>1. Bounded(m - 1)
      BY <2>3
    <3> QED BY <3>1
  <2>5. f[m] \in Nat /\ \A x \in 1 .. m - 1 : f[x] \in Nat
    <3>1. Players \subseteq Nat /\ m \in 1 .. n /\ f \in [1 .. n -> Players] /\ n \in Nat
      BY <1>2, <2>3, PlayersAssumption
    <3>2. \A x \in 1 .. m - 1 : x \in 1 .. n
      BY ONLY <3>1
    <3>3. \A x \in 1 .. n : f[x] \in Nat
      BY ONLY <3>1
    <3> QED BY ONLY <3>1, <3>2, <3>3
  <2>6. \A x \in 1 .. m : f[x] < b + f[m] + 1
    <3> TAKE x \in 1 .. m
    <3>1. CASE x = m
      BY <2>4, <2>5, <3>1
    <3>2. CASE x \in 1 .. m - 1
      BY <2>4, <2>5, <3>2
    <3> QED BY <2>3, <3>1, <3>2
  <2>7. b + f[m] + 1 \in Nat
    BY <2>4, <2>5
  <2>8. Bounded(m)
    BY <2>6, <2>7
  <2> QED BY <2>8
<1>4. PICK bound \in Nat : \A x \in 1 .. n : f[x] < bound
  BY <1>3
<1> QED BY <1>2, <1>4

\* When an ask has its turn.
Turn(k) == 4 * (k[1] + 1) + k[2]

LEMMA AskCases ==
  ASSUME NEW s, NEW k \in Asks(s)
  PROVE  /\ \/ k = <<NoPlayer, 1>> \/ k = <<NoPlayer, 2>>
            \/ \E i \in InvolvedPlayers(s) : k = <<i, Dir>> \/ k = <<i, A>> \/ k = <<i, B>>
         /\ k[1] \in Players \cup {NoPlayer} /\ k[2] \in 1 .. 3 /\ Turn(k) \in Nat
         /\ k[1] # NoPlayer => k[1] \in InvolvedPlayers(s) /\ <<k[1], A>> \in Asks(s)
<1>1. \/ k = <<NoPlayer, 1>> \/ k = <<NoPlayer, 2>>
      \/ \E i \in InvolvedPlayers(s) : k = <<i, Dir>> \/ k = <<i, A>> \/ k = <<i, B>>
  BY DEF Asks, LedUses
<1>2. /\ k[1] \in Players \cup {NoPlayer} /\ k[2] \in 1 .. 3
      /\ k[1] # NoPlayer => k[1] \in InvolvedPlayers(s)
  BY <1>1, PlayersAssumption DEF InvolvedPlayers, Dir, A, B, NoPlayer
<1>3. Turn(k) \in Nat
  <2>1. k[1] \in Int /\ k[1] + 1 \in Nat /\ k[2] \in Nat
    <3>1. k[1] \in Nat \/ k[1] = -1
      BY <1>2, PlayersAssumption DEF NoPlayer
    <3>2. k[2] \in 1 .. 3
      BY <1>2
    <3> QED BY ONLY <3>1, <3>2
  <2> QED BY ONLY <2>1 DEF Turn
<1> QED BY <1>1, <1>2, <1>3 DEF Asks

LEMMA AskedBy ==
  ASSUME NEW s
  PROVE  /\ \A k \in LedUses : k \in Asks(s)
         /\ \A i \in InvolvedPlayers(s) :
              <<i, Dir>> \in Asks(s) /\ <<i, A>> \in Asks(s) /\ <<i, B>> \in Asks(s)
BY DEF Asks

\* The turns follow the order of the code, a line's second pin that of the first.
LEMMA TurnsOrdered ==
  ASSUME NEW s, NEW j \in Asks(s), NEW k \in Asks(s)
  PROVE  /\ Earlier(j, k) => Turn(j) < Turn(k)
         /\ j = k \/ Earlier(j, k) \/ Earlier(k, j)
         /\ k[1] # NoPlayer /\ k[2] = B => Turn(<<k[1], A>>) < Turn(k)
<1>1. /\ j[1] \in Int /\ j[2] \in 1 .. 3 /\ k[1] \in Int /\ k[2] \in 1 .. 3
      /\ j = <<j[1], j[2]>> /\ k = <<k[1], k[2]>>
  <2>1. /\ j[1] \in Players \cup {NoPlayer} /\ j[2] \in 1 .. 3
        /\ k[1] \in Players \cup {NoPlayer} /\ k[2] \in 1 .. 3
    BY AskCases
  <2>2. j = <<j[1], j[2]>> /\ k = <<k[1], k[2]>>
    BY DEF Asks, LedUses
  <2> QED BY <2>1, <2>2, PlayersAssumption DEF NoPlayer
<1>2. Earlier(j, k) => Turn(j) < Turn(k)
  BY <1>1 DEF Earlier, Turn
<1>3. j = k \/ Earlier(j, k) \/ Earlier(k, j)
  BY <1>1 DEF Earlier
<1>4. k[1] # NoPlayer /\ k[2] = B => Turn(<<k[1], A>>) < Turn(k)
  BY <1>1 DEF Turn, A, B
<1> QED BY <1>2, <1>3, <1>4

\* When the ask k is granted, by what the earlier ones were.
MayHave(s, granted, k) ==
  \/ PinOf(s, k) < 0
  \/ /\ PinOf(s, k) \in Pins
     /\ (k[1] # NoPlayer /\ k[2] = B) => granted[<<k[1], A>>]
     /\ \A j \in Asks(s) : Earlier(j, k) /\ PinOf(s, j) = PinOf(s, k) => ~granted[j]

\* The first turns are decided.
Decides(s, granted, n) ==
  /\ granted \in [Asks(s) -> BOOLEAN]
  /\ \A k \in Asks(s) : Turn(k) < n => (granted[k] <=> MayHave(s, granted, k))

LEMMA NextTurn ==
  ASSUME NEW s, NEW n \in Nat, NEW granted, Decides(s, granted, n)
  PROVE  \E next : Decides(s, next, n + 1)
<1> DEFINE next == [k \in Asks(s) |-> IF Turn(k) = n THEN MayHave(s, granted, k)
                                      ELSE granted[k]]
<1>1. next \in [Asks(s) -> BOOLEAN]
  BY DEF Decides, MayHave
<1>2. \A k \in Asks(s) : Turn(k) < n => next[k] = granted[k]
  BY AskCases
<1>3. ASSUME NEW k \in Asks(s), Turn(k) < n + 1
      PROVE  MayHave(s, next, k) <=> MayHave(s, granted, k)
  <2>1. \A j \in Asks(s) : Earlier(j, k) => next[j] = granted[j]
    <3> SUFFICES ASSUME NEW j \in Asks(s), Earlier(j, k) PROVE Turn(j) < n
      BY <1>2
    <3>1. Turn(j) < Turn(k)
      BY TurnsOrdered
    <3>2. Turn(j) \in Nat /\ Turn(k) \in Nat
      BY AskCases
    <3> QED BY ONLY <1>3, <3>1, <3>2, n \in Nat
  <2>2. k[1] # NoPlayer /\ k[2] = B => next[<<k[1], A>>] = granted[<<k[1], A>>]
    <3> SUFFICES ASSUME k[1] # NoPlayer, k[2] = B
                 PROVE  <<k[1], A>> \in Asks(s) /\ Turn(<<k[1], A>>) < n
      BY <1>2
    <3>1. <<k[1], A>> \in Asks(s) /\ Turn(<<k[1], A>>) < Turn(k)
      BY AskCases, TurnsOrdered
    <3>2. Turn(<<k[1], A>>) \in Nat /\ Turn(k) \in Nat
      BY <3>1, AskCases
    <3> QED BY <1>3, <3>1, <3>2
  <2> HIDE DEF next
  <2> QED BY <2>1, <2>2 DEF MayHave
<1>4. ASSUME NEW k \in Asks(s), Turn(k) < n + 1
      PROVE  next[k] <=> MayHave(s, next, k)
  <2>1. CASE Turn(k) = n
    <3>1. next[k] = MayHave(s, granted, k)
      BY <2>1
    <3> QED BY <1>3, <1>4, <3>1
  <2>2. CASE Turn(k) < n
    BY <1>2, <1>3, <1>4, <2>2 DEF Decides
  <2>3. Turn(k) = n \/ Turn(k) < n
    <3>1. Turn(k) \in Nat
      BY AskCases
    <3> QED BY ONLY <1>4, <3>1, n \in Nat
  <2> QED BY <2>1, <2>2, <2>3
<1> HIDE DEF next
<1>5. Decides(s, next, n + 1)
  BY <1>1, <1>4 DEF Decides
<1> QED BY <1>5

LEMMA TurnsDecided ==
  ASSUME NEW s, NEW n \in Nat
  PROVE  \E granted : Decides(s, granted, n)
<1> DEFINE T == {m \in Nat : ~\E granted : Decides(s, granted, m)}
<1> SUFFICES T = {}
  OBVIOUS
<1> SUFFICES ASSUME T # {} PROVE FALSE
  OBVIOUS
<1>1. PICK m \in T : \A k \in T : m <= k
  <2>1. T \in SUBSET Nat
    OBVIOUS
  <2> HIDE DEF T
  <2> QED BY <2>1, LeastNumber
<1>2. m # 0
  <2>1. \A k \in Asks(s) : ~ (Turn(k) < 0)
    <3> SUFFICES ASSUME NEW k \in Asks(s) PROVE ~ (Turn(k) < 0)
      OBVIOUS
    <3>1. Turn(k) \in Nat
      BY AskCases
    <3> QED BY ONLY <3>1
  <2>2. Decides(s, [k \in Asks(s) |-> FALSE], 0)
    BY <2>1 DEF Decides
  <2> QED BY <2>2
<1>3. m - 1 \in Nat /\ m - 1 \notin T
  BY <1>1, <1>2
<1>4. \E granted : Decides(s, granted, m - 1)
  BY <1>3
<1>5. \E granted : Decides(s, granted, m - 1 + 1)
  BY <1>3, <1>4, NextTurn
<1>6. m - 1 + 1 = m
  BY <1>1
<1> QED BY <1>1, <1>5, <1>6

\* What Granted is: every ask is decided by its rule.
LEMMA GrantedRule ==
  ASSUME NEW s
  PROVE  \A k \in Asks(s) : Granted(s)[k] <=> MayHave(s, Granted(s), k)
<1>1. PICK bound \in Nat : \A i \in Players : i < bound
  BY PlayersBounded
<1>2. \A k \in Asks(s) : Turn(k) < 4 * (bound + 1)
  <2> SUFFICES ASSUME NEW k \in Asks(s) PROVE Turn(k) < 4 * (bound + 1)
    OBVIOUS
  <2>1. k[1] \in Players \cup {NoPlayer} /\ k[2] \in 1 .. 3
    BY AskCases
  <2>2. k[1] \in Int /\ k[1] < bound /\ k[2] \in Int /\ k[2] < 4
    <3>1. k[1] = -1 \/ (k[1] \in Nat /\ k[1] < bound)
      BY <1>1, <2>1, PlayersAssumption DEF NoPlayer
    <3> QED BY ONLY <2>1, <3>1, bound \in Nat
  <2> QED BY ONLY <1>1, <2>2 DEF Turn
<1>3. PICK granted : Decides(s, granted, 4 * (bound + 1))
  BY TurnsDecided
<1>4. granted = [k \in Asks(s) |-> MayHave(s, granted, k)]
  <2>1. \A k \in Asks(s) : granted[k] = MayHave(s, granted, k)
    BY <1>2, <1>3 DEF Decides, MayHave
  <2> QED BY <1>3, <2>1 DEF Decides
<1>5. Granted(s) = CHOOSE g : g = [k \in Asks(s) |-> MayHave(s, g, k)]
  BY DEF Granted, MayHave
<1>6. Granted(s) = [k \in Asks(s) |-> MayHave(s, Granted(s), k)]
  BY <1>4, <1>5
<1> QED BY <1>6

-----------------------------------------------------------------------------
(* What makeValid() leaves *)

\* The settings makeValid() goes through: with disable, players without lines are out.
Considered(given, disable) ==
  [given EXCEPT !.modes = [i \in Players |->
     IF disable /\ given.gpioA[i] < 0 THEN "disable" ELSE given.modes[i]]]

Kept(s, k) == k \in Asks(s) => Granted(s)[k]

HasBus(s, i) == Kept(s, <<i, A>>) /\ Kept(s, <<i, B>>)

LEMMA ModesType == {"disable", "enable", "static", "dynamic", "noDisable"} \subseteq Modes
<1>1. DOMAIN ModeNames = 1 .. 5
  BY DEF ModeNames
<1>2. /\ ModeNames[1] = "disable" /\ ModeNames[2] = "enable" /\ ModeNames[3] = "static"
      /\ ModeNames[4] = "dynamic" /\ ModeNames[5] = "noDisable"
  BY DEF ModeNames
<1>3. \A n \in 1 .. 5 : ModeNames[n] \in Modes
  BY <1>1 DEF Modes, Range
<1> QED BY <1>2, <1>3

LEMMA SettingsParts ==
  ASSUME NEW s \in SettingsType
  PROVE  /\ \A i \in Players : s.modes[i] \in Modes \cup {"none"} /\ s.gpioA[i] \in Int /\ s.gpioDir[i] \in Int
         /\ s.usbLedGpio \in Int /\ s.simpleUsbLedGpio \in Int
BY DEF SettingsType

LEMMA ConsideredIs ==
  ASSUME NEW given \in SettingsType, NEW disable \in BOOLEAN
  PROVE  LET s == Considered(given, disable)
         IN  /\ s \in SettingsType
             /\ \A i \in Players :
                  s.modes[i] = IF disable /\ given.gpioA[i] < 0 THEN "disable"
                               ELSE given.modes[i]
             /\ s.gpioA = given.gpioA /\ s.gpioDir = given.gpioDir
             /\ s.usbLedGpio = given.usbLedGpio
             /\ s.simpleUsbLedGpio = given.simpleUsbLedGpio
BY ModesType DEF Considered, SettingsType

LEMMA CorrectedIs ==
  ASSUME NEW s, NEW i
  PROVE  /\ Corrected(s, i) = "disable" <=> s.modes[i] = "disable"
         /\ i \in InvolvedPlayers(s) => Corrected(s, i) # "none"
         /\ s.modes[i] # "none" => Corrected(s, i) = s.modes[i]
BY DEF Corrected

LEMMA MakeValidIs ==
  ASSUME NEW given \in SettingsType, NEW disable \in BOOLEAN
  PROVE  LET s == Considered(given, disable)
             v == makeValid(given, disable)
         IN  /\ v \in SettingsType
             /\ \A i \in Players :
                  /\ v.modes[i] = IF disable /\ ~(HasBus(s, i) /\ Kept(s, <<i, Dir>>))
                                  THEN "disable" ELSE Corrected(s, i)
                  /\ v.gpioA[i] = IF HasBus(s, i) THEN given.gpioA[i] ELSE NoPin
                  /\ v.gpioDir[i] = IF Kept(s, <<i, Dir>>) THEN given.gpioDir[i] ELSE NoPin
             /\ v.usbLedGpio = IF Kept(s, <<NoPlayer, 1>>) THEN given.usbLedGpio ELSE NoPin
             /\ v.simpleUsbLedGpio =
                  IF Kept(s, <<NoPlayer, 2>>) THEN given.simpleUsbLedGpio ELSE NoPin
<1> DEFINE s == Considered(given, disable)
           v == makeValid(given, disable)
<1>1. /\ s \in SettingsType
      /\ s.gpioA = given.gpioA /\ s.gpioDir = given.gpioDir
      /\ s.usbLedGpio = given.usbLedGpio /\ s.simpleUsbLedGpio = given.simpleUsbLedGpio
  BY ConsideredIs
<1>2. v = [modes |-> [i \in Players |->
                        IF /\ disable
                           /\ \/ \/ <<i, A>> \in Asks(s) /\ ~Granted(s)[<<i, A>>]
                                 \/ <<i, B>> \in Asks(s) /\ ~Granted(s)[<<i, B>>]
                              \/ <<i, Dir>> \in Asks(s) /\ ~Granted(s)[<<i, Dir>>]
                        THEN "disable" ELSE Corrected(s, i)],
           gpioA |-> [i \in Players |->
                        IF \/ <<i, A>> \in Asks(s) /\ ~Granted(s)[<<i, A>>]
                           \/ <<i, B>> \in Asks(s) /\ ~Granted(s)[<<i, B>>]
                        THEN NoPin ELSE s.gpioA[i]],
           gpioDir |-> [i \in Players |->
                          IF <<i, Dir>> \in Asks(s) /\ ~Granted(s)[<<i, Dir>>]
                          THEN NoPin ELSE s.gpioDir[i]],
           usbLedGpio |-> IF <<NoPlayer, 1>> \in Asks(s) /\ ~Granted(s)[<<NoPlayer, 1>>]
                          THEN NoPin ELSE s.usbLedGpio,
           simpleUsbLedGpio |-> IF <<NoPlayer, 2>> \in Asks(s) /\ ~Granted(s)[<<NoPlayer, 2>>]
                                THEN NoPin ELSE s.simpleUsbLedGpio]
  BY Zenon DEF makeValid, Considered
<1> HIDE DEF s, v
<1>3. \A k : (k \in Asks(s) /\ ~Granted(s)[k]) <=> ~Kept(s, k)
  BY DEF Kept
<1>4. \A i \in Players :
        /\ v.modes[i] = IF disable /\ ~(HasBus(s, i) /\ Kept(s, <<i, Dir>>))
                        THEN "disable" ELSE Corrected(s, i)
        /\ v.gpioA[i] = IF HasBus(s, i) THEN s.gpioA[i] ELSE NoPin
        /\ v.gpioDir[i] = IF Kept(s, <<i, Dir>>) THEN s.gpioDir[i] ELSE NoPin
  <2> TAKE i \in Players
  <2>1. v.modes[i] = IF /\ disable
                        /\ \/ \/ <<i, A>> \in Asks(s) /\ ~Granted(s)[<<i, A>>]
                              \/ <<i, B>> \in Asks(s) /\ ~Granted(s)[<<i, B>>]
                           \/ <<i, Dir>> \in Asks(s) /\ ~Granted(s)[<<i, Dir>>]
                     THEN "disable" ELSE Corrected(s, i)
    BY <1>2
  <2>2. v.gpioA[i] = IF \/ <<i, A>> \in Asks(s) /\ ~Granted(s)[<<i, A>>]
                        \/ <<i, B>> \in Asks(s) /\ ~Granted(s)[<<i, B>>]
                     THEN NoPin ELSE s.gpioA[i]
    BY <1>2
  <2>3. v.gpioDir[i] = IF <<i, Dir>> \in Asks(s) /\ ~Granted(s)[<<i, Dir>>]
                       THEN NoPin ELSE s.gpioDir[i]
    BY <1>2
  <2> QED BY ONLY <1>3, <2>1, <2>2, <2>3 DEF HasBus
<1>5. /\ v.usbLedGpio = IF Kept(s, <<NoPlayer, 1>>) THEN s.usbLedGpio ELSE NoPin
      /\ v.simpleUsbLedGpio = IF Kept(s, <<NoPlayer, 2>>) THEN s.simpleUsbLedGpio ELSE NoPin
  <2>1. /\ v.usbLedGpio = IF <<NoPlayer, 1>> \in Asks(s) /\ ~Granted(s)[<<NoPlayer, 1>>]
                          THEN NoPin ELSE s.usbLedGpio
        /\ v.simpleUsbLedGpio = IF <<NoPlayer, 2>> \in Asks(s) /\ ~Granted(s)[<<NoPlayer, 2>>]
                                THEN NoPin ELSE s.simpleUsbLedGpio
    BY <1>2
  <2> QED BY ONLY <1>3, <2>1
<1>6. v \in SettingsType
  <2>0. \A i \in Players : Corrected(s, i) \in Modes \cup {"none"}
    BY <1>1, ModesType, SettingsParts DEF Corrected
  <2>1. NoPin \in Int /\ "disable" \in Modes
    BY ModesType DEF NoPin
  <2>2. /\ v.modes \in [Players -> Modes \cup {"none"}] /\ v.gpioA \in [Players -> Int]
        /\ v.gpioDir \in [Players -> Int] /\ v.usbLedGpio \in Int /\ v.simpleUsbLedGpio \in Int
    BY <1>1, <1>2, <2>0, <2>1, SettingsParts
  <2>3. v = [modes |-> v.modes, gpioA |-> v.gpioA, gpioDir |-> v.gpioDir,
             usbLedGpio |-> v.usbLedGpio, simpleUsbLedGpio |-> v.simpleUsbLedGpio]
    BY <1>2
  <2> QED BY ONLY <2>2, <2>3 DEF SettingsType
<1> QED BY <1>1, <1>4, <1>5, <1>6 DEF s, v

LEMMA PinOfIs ==
  ASSUME NEW s
  PROVE  /\ PinOf(s, <<NoPlayer, 1>>) = s.usbLedGpio
         /\ PinOf(s, <<NoPlayer, 2>>) = s.simpleUsbLedGpio
         /\ \A i \in Players :
              /\ PinOf(s, <<i, Dir>>) = s.gpioDir[i]
              /\ PinOf(s, <<i, A>>) = s.gpioA[i]
              /\ PinOf(s, <<i, B>>) = s.gpioA[i] + 1
<1>1. \A i \in Players : i # NoPlayer
  BY PlayersAssumption DEF NoPlayer
<1>2. PinOf(s, <<NoPlayer, 1>>) = s.usbLedGpio /\ PinOf(s, <<NoPlayer, 2>>) = s.simpleUsbLedGpio
  BY DEF PinOf
<1>3. ASSUME NEW i \in Players
      PROVE  /\ PinOf(s, <<i, Dir>>) = s.gpioDir[i]
             /\ PinOf(s, <<i, A>>) = s.gpioA[i]
             /\ PinOf(s, <<i, B>>) = s.gpioA[i] + 1
  BY <1>1 DEF PinOf, Dir, A, B
<1> QED BY <1>2, <1>3

\* Two asks that were granted have two pins.
LEMMA GrantedApart ==
  ASSUME NEW s, NEW j \in Asks(s), NEW k \in Asks(s), Granted(s)[j], Granted(s)[k],
         PinOf(s, j) = PinOf(s, k), ~(PinOf(s, k) < 0)
  PROVE  j = k
<1>1. MayHave(s, Granted(s), j) /\ MayHave(s, Granted(s), k)
  BY GrantedRule
<1>2. ~Earlier(j, k) /\ ~Earlier(k, j)
  BY <1>1 DEF MayHave
<1> QED BY <1>2, TurnsOrdered

LEMMA GrantedExists ==
  ASSUME NEW s, NEW k \in Asks(s), Granted(s)[k], ~(PinOf(s, k) < 0)
  PROVE  PinOf(s, k) \in Pins
BY GrantedRule DEF MayHave

\* Who uses a pin after makeValid() as dpp_hw_init() calls it was granted it.
LEMMA UsersWereGranted ==
  ASSUME NEW given \in SettingsType, NEW players \in SUBSET Players,
         \A i \in players : makeValid(given, TRUE).modes[i] # "disable",
         NEW k \in Uses(makeValid(given, TRUE), players)
  PROVE  LET s == Considered(given, TRUE)
             v == makeValid(given, TRUE)
         IN  k \in Asks(s) /\ Granted(s)[k] /\ PinOf(v, k) = PinOf(s, k) /\ ~(PinOf(v, k) < 0)
<1> DEFINE s == Considered(given, TRUE)
           v == makeValid(given, TRUE)
<1>0. TRUE \in BOOLEAN
  OBVIOUS
<1>1. /\ s \in SettingsType
      /\ \A i \in Players : s.modes[i] = IF given.gpioA[i] < 0 THEN "disable" ELSE given.modes[i]
      /\ s.gpioA = given.gpioA /\ s.gpioDir = given.gpioDir
      /\ s.usbLedGpio = given.usbLedGpio /\ s.simpleUsbLedGpio = given.simpleUsbLedGpio
  BY <1>0, ConsideredIs
<1>2. /\ v \in SettingsType
      /\ \A i \in Players :
           /\ v.modes[i] = IF HasBus(s, i) /\ Kept(s, <<i, Dir>>) THEN Corrected(s, i) ELSE "disable"
           /\ v.gpioA[i] = IF HasBus(s, i) THEN given.gpioA[i] ELSE NoPin
           /\ v.gpioDir[i] = IF Kept(s, <<i, Dir>>) THEN given.gpioDir[i] ELSE NoPin
      /\ v.usbLedGpio = IF Kept(s, <<NoPlayer, 1>>) THEN given.usbLedGpio ELSE NoPin
      /\ v.simpleUsbLedGpio = IF Kept(s, <<NoPlayer, 2>>) THEN given.simpleUsbLedGpio ELSE NoPin
  BY <1>0, MakeValidIs
<1> HIDE DEF s, v
<1>3. NoPin < 0 /\ NoPin \in Int
  BY DEF NoPin
<1>4. ASSUME NEW i \in players
      PROVE  /\ i \in Players /\ i \in InvolvedPlayers(s) /\ s.gpioA[i] \in Nat
             /\ v.gpioA[i] = s.gpioA[i] /\ v.gpioDir[i] = s.gpioDir[i]
             /\ HasBus(s, i) /\ Kept(s, <<i, Dir>>)
  <2>1. v.modes[i] # "disable" /\ i \in Players
    BY <1>4 DEF v
  <2>2. HasBus(s, i) /\ Kept(s, <<i, Dir>>) /\ s.modes[i] # "disable"
    BY ONLY <1>2, <2>1, CorrectedIs
  <2>3. ~(s.gpioA[i] < 0) /\ s.gpioA[i] \in Int
    BY <1>1, <2>1, <2>2, SettingsParts
  <2>4. s.gpioA[i] \in Nat /\ s.gpioA[i] >= 0
    BY ONLY <2>3
  <2>5. i \in InvolvedPlayers(s)
    BY ONLY <2>1, <2>2, <2>4 DEF InvolvedPlayers
  <2>6. v.gpioA[i] = s.gpioA[i] /\ v.gpioDir[i] = s.gpioDir[i]
    BY ONLY <1>1, <1>2, <2>1, <2>2
  <2> QED BY <2>1, <2>2, <2>4, <2>5, <2>6
<1>5. ASSUME k \in LedUses, PinOf(v, k) >= 0
      PROVE  k \in Asks(s) /\ Kept(s, k) /\ PinOf(v, k) = PinOf(s, k) /\ ~(PinOf(v, k) < 0)
  <2>1. k \in Asks(s)
    BY <1>5, AskedBy
  <2>2. k = <<NoPlayer, 1>> \/ k = <<NoPlayer, 2>>
    BY <1>5 DEF LedUses
  <2>3. v.usbLedGpio \in Int /\ v.simpleUsbLedGpio \in Int
    BY <1>2, SettingsParts
  <2>4. PinOf(v, k) = IF Kept(s, k) THEN PinOf(s, k) ELSE NoPin
    BY <1>1, <1>2, <2>2, PinOfIs
  <2>5. PinOf(v, k) \in Int
    BY <2>2, <2>3, PinOfIs
  <2>6. ~(PinOf(v, k) < 0)
    BY ONLY <1>5, <2>5
  <2> QED BY ONLY <1>3, <2>1, <2>4, <2>6
<1>6. ASSUME NEW i \in players, k = <<i, Dir>>, PinOf(v, k) >= 0
      PROVE  k \in Asks(s) /\ Kept(s, k) /\ PinOf(v, k) = PinOf(s, k) /\ ~(PinOf(v, k) < 0)
  <2>1. PinOf(v, k) = v.gpioDir[i] /\ PinOf(s, k) = s.gpioDir[i]
    BY <1>4, <1>6, PinOfIs
  <2>2. v.gpioDir[i] \in Int
    BY <1>2, <1>4, SettingsParts
  <2>3. ~(PinOf(v, k) < 0)
    BY ONLY <1>6, <2>1, <2>2
  <2> QED BY <1>4, <1>6, <2>1, <2>3, AskedBy
<1>7. ASSUME NEW i \in players, k = <<i, A>> \/ k = <<i, B>>
      PROVE  k \in Asks(s) /\ Kept(s, k) /\ PinOf(v, k) = PinOf(s, k) /\ ~(PinOf(v, k) < 0)
  <2>0. i \in Players /\ v.gpioA[i] = s.gpioA[i]
    BY <1>4
  <2>1. /\ PinOf(v, <<i, A>>) = s.gpioA[i] /\ PinOf(v, <<i, B>>) = s.gpioA[i] + 1
        /\ PinOf(s, <<i, A>>) = s.gpioA[i] /\ PinOf(s, <<i, B>>) = s.gpioA[i] + 1
    <3>1. PinOf(v, <<i, A>>) = v.gpioA[i] /\ PinOf(v, <<i, B>>) = v.gpioA[i] + 1
      BY <2>0, PinOfIs
    <3>2. PinOf(s, <<i, A>>) = s.gpioA[i] /\ PinOf(s, <<i, B>>) = s.gpioA[i] + 1
      BY <2>0, PinOfIs
    <3> QED BY ONLY <2>0, <3>1, <3>2
  <2>2. s.gpioA[i] \in Nat
    BY <1>4
  <2>3. PinOf(v, k) = PinOf(s, k) /\ PinOf(v, k) \in Nat
    BY ONLY <1>7, <2>1, <2>2
  <2>4. ~(PinOf(v, k) < 0)
    BY ONLY <2>3
  <2> QED BY <1>4, <1>7, <2>3, <2>4, AskedBy DEF HasBus
<1>8. \/ k \in LedUses /\ PinOf(v, k) >= 0
      \/ \E i \in players : \/ k = <<i, Dir>> /\ PinOf(v, k) >= 0
                            \/ k = <<i, A>> \/ k = <<i, B>>
  <2>1. k \in Uses(v, players)
    BY DEF v
  <2> QED BY <2>1 DEF Uses, Dir, A, B
<1> QED BY <1>5, <1>6, <1>7, <1>8 DEF Kept, s, v

\* No pin for two purposes.
LEMMA ValidIsDisjoint ==
  ASSUME NEW given \in SettingsType, NEW players \in SUBSET Players,
         \A i \in players : makeValid(given, TRUE).modes[i] # "disable"
  PROVE  LET v == makeValid(given, TRUE)
         IN  /\ \A k \in Uses(v, players) : PinOf(v, k) \in Pins
             /\ \A j, k \in Uses(v, players) : PinOf(v, j) = PinOf(v, k) => j = k
<1> DEFINE s == Considered(given, TRUE)
           v == makeValid(given, TRUE)
<1>1. \A k \in Uses(v, players) :
        k \in Asks(s) /\ Granted(s)[k] /\ PinOf(v, k) = PinOf(s, k) /\ ~(PinOf(v, k) < 0)
  BY UsersWereGranted
<1> HIDE DEF s, v
<1>2. \A k \in Uses(v, players) : PinOf(v, k) \in Pins
  BY <1>1, GrantedExists
<1>3. ASSUME NEW j \in Uses(v, players), NEW k \in Uses(v, players), PinOf(v, j) = PinOf(v, k)
      PROVE  j = k
  BY <1>1, <1>3, GrantedApart
<1> QED BY <1>2, <1>3 DEF v

\* Settings made valid once stay as they are, except that players without lines are
\* disabled.
LEMMA ValidStaysValid ==
  ASSUME NEW d \in SettingsType
  PROVE  LET saved == makeValid(d, FALSE)
             used == makeValid(saved, TRUE)
         IN  /\ \A k \in LedUses : PinOf(used, k) = PinOf(saved, k)
             /\ \A i \in Players :
                  IF saved.gpioA[i] < 0 THEN used.modes[i] = "disable"
                  ELSE /\ used.modes[i] = saved.modes[i]
                       /\ used.gpioA[i] = saved.gpioA[i] /\ used.gpioDir[i] = saved.gpioDir[i]
<1> DEFINE c == Considered(d, FALSE)
           saved == makeValid(d, FALSE)
           s == Considered(saved, TRUE)
           used == makeValid(saved, TRUE)
<1>0. FALSE \in BOOLEAN /\ TRUE \in BOOLEAN
  OBVIOUS
<1>1. /\ c \in SettingsType
      /\ \A i \in Players : c.modes[i] = d.modes[i]
      /\ c.gpioA = d.gpioA /\ c.gpioDir = d.gpioDir
      /\ c.usbLedGpio = d.usbLedGpio /\ c.simpleUsbLedGpio = d.simpleUsbLedGpio
  BY <1>0, ConsideredIs
<1>2. /\ saved \in SettingsType
      /\ \A i \in Players :
           /\ saved.modes[i] = Corrected(c, i)
           /\ saved.gpioA[i] = IF HasBus(c, i) THEN d.gpioA[i] ELSE NoPin
           /\ saved.gpioDir[i] = IF Kept(c, <<i, Dir>>) THEN d.gpioDir[i] ELSE NoPin
      /\ saved.usbLedGpio = IF Kept(c, <<NoPlayer, 1>>) THEN d.usbLedGpio ELSE NoPin
      /\ saved.simpleUsbLedGpio = IF Kept(c, <<NoPlayer, 2>>) THEN d.simpleUsbLedGpio ELSE NoPin
  BY <1>0, MakeValidIs
<1> HIDE DEF c, saved
<1>3. /\ s \in SettingsType
      /\ \A i \in Players : s.modes[i] = IF saved.gpioA[i] < 0 THEN "disable" ELSE saved.modes[i]
      /\ s.gpioA = saved.gpioA /\ s.gpioDir = saved.gpioDir
      /\ s.usbLedGpio = saved.usbLedGpio /\ s.simpleUsbLedGpio = saved.simpleUsbLedGpio
  BY <1>0, <1>2, ConsideredIs
<1>4. /\ \A i \in Players :
           /\ used.modes[i] = IF HasBus(s, i) /\ Kept(s, <<i, Dir>>) THEN Corrected(s, i)
                              ELSE "disable"
           /\ used.gpioA[i] = IF HasBus(s, i) THEN saved.gpioA[i] ELSE NoPin
           /\ used.gpioDir[i] = IF Kept(s, <<i, Dir>>) THEN saved.gpioDir[i] ELSE NoPin
      /\ used.usbLedGpio = IF Kept(s, <<NoPlayer, 1>>) THEN saved.usbLedGpio ELSE NoPin
      /\ used.simpleUsbLedGpio =
           IF Kept(s, <<NoPlayer, 2>>) THEN saved.simpleUsbLedGpio ELSE NoPin
  <2>1. saved \in SettingsType
    BY <1>2
  <2> QED BY ONLY <1>0, <2>1, MakeValidIs
<1> HIDE DEF s, used
\* Who asks now asked then and was granted what was left.
<1>5. ASSUME NEW i \in InvolvedPlayers(s)
      PROVE  /\ i \in InvolvedPlayers(c) /\ HasBus(c, i)
             /\ s.gpioA[i] = c.gpioA[i] /\ s.gpioA[i] \in Nat
             /\ s.gpioDir[i] = IF Kept(c, <<i, Dir>>) THEN c.gpioDir[i] ELSE NoPin
  <2>1. i \in Players /\ s.modes[i] # "disable" /\ s.gpioA[i] >= 0 /\ s.gpioA[i] \in Int
    BY <1>3 DEF InvolvedPlayers, SettingsType
  <2>2. ~(NoPin >= 0)
    BY DEF NoPin
  <2>3. HasBus(c, i) /\ s.gpioA[i] = c.gpioA[i] /\ s.gpioA[i] \in Nat
    <3>1. s.gpioA[i] = IF HasBus(c, i) THEN c.gpioA[i] ELSE NoPin
      BY ONLY <1>1, <1>2, <1>3, <2>1
    <3>2. s.gpioA[i] \in Nat
      BY ONLY <2>1
    <3> QED BY ONLY <2>1, <2>2, <3>1, <3>2
  <2>4. ~(saved.gpioA[i] < 0)
    BY <1>3, <2>3
  <2>5. c.modes[i] # "disable"
    BY <1>2, <1>3, <2>1, <2>4, CorrectedIs
  <2> QED BY <1>1, <1>2, <1>3, <2>1, <2>3, <2>5 DEF InvolvedPlayers
<1>6. ASSUME NEW k \in Asks(s), ~(PinOf(s, k) < 0)
      PROVE  k \in Asks(c) /\ Granted(c)[k] /\ PinOf(s, k) = PinOf(c, k)
  <2>0. NoPin < 0
    BY DEF NoPin
  <2>1. CASE k \in {<<NoPlayer, 1>>, <<NoPlayer, 2>>}
    <3>1. k \in Asks(c)
      BY <2>1, AskedBy DEF LedUses
    <3>2. Kept(c, k) /\ PinOf(s, k) = PinOf(c, k)
      BY <1>1, <1>2, <1>3, <1>6, <2>0, <2>1, PinOfIs
    <3> QED BY <3>1, <3>2 DEF Kept
  <2>2. ASSUME NEW i \in InvolvedPlayers(s), k = <<i, Dir>>
        PROVE  k \in Asks(c) /\ Kept(c, k) /\ PinOf(s, k) = PinOf(c, k)
    <3>1. i \in Players
      BY DEF InvolvedPlayers
    <3>2. PinOf(s, k) = s.gpioDir[i] /\ PinOf(c, k) = c.gpioDir[i]
      BY <2>2, <3>1, PinOfIs
    <3> QED BY <1>5, <1>6, <2>0, <2>2, <3>2, AskedBy
  <2>3. ASSUME NEW i \in InvolvedPlayers(s), k = <<i, A>> \/ k = <<i, B>>
        PROVE  k \in Asks(c) /\ Kept(c, k) /\ PinOf(s, k) = PinOf(c, k)
    <3>1. i \in Players
      BY DEF InvolvedPlayers
    <3>2. /\ PinOf(s, <<i, A>>) = s.gpioA[i] /\ PinOf(s, <<i, B>>) = s.gpioA[i] + 1
          /\ PinOf(c, <<i, A>>) = c.gpioA[i] /\ PinOf(c, <<i, B>>) = c.gpioA[i] + 1
      BY <3>1, PinOfIs
    <3>3. s.gpioA[i] = c.gpioA[i]
      BY <1>5
    <3>4. PinOf(s, k) = PinOf(c, k)
      BY ONLY <2>3, <3>2, <3>3
    <3> QED BY <1>5, <2>3, <3>4, AskedBy DEF HasBus
  <2> QED BY <2>1, <2>2, <2>3, AskCases DEF Kept
\* Hence nothing is refused now.
<1>7. ASSUME NEW k \in Asks(s), k[1] # NoPlayer /\ k[2] = B => Granted(s)[<<k[1], A>>]
      PROVE  Granted(s)[k]
  <2> SUFFICES ASSUME ~(PinOf(s, k) < 0) PROVE MayHave(s, Granted(s), k)
    BY GrantedRule DEF MayHave
  <2>1. k \in Asks(c) /\ Granted(c)[k] /\ PinOf(s, k) = PinOf(c, k)
    BY <1>6
  <2>2. PinOf(s, k) \in Pins
    BY <2>1, GrantedExists
  <2>3. ASSUME NEW j \in Asks(s), Earlier(j, k), PinOf(s, j) = PinOf(s, k)
        PROVE  FALSE
    <3>1. j \in Asks(c) /\ Granted(c)[j] /\ PinOf(s, j) = PinOf(c, j)
      BY <1>6, <2>3
    <3>2. j = k
      BY <2>1, <2>3, <3>1, GrantedApart
    <3>3. Turn(k) < Turn(k) /\ Turn(k) \in Nat
      BY <2>3, <3>2, TurnsOrdered, AskCases
    <3> QED BY <3>3
  <2> QED BY <1>7, <2>2, <2>3 DEF MayHave
<1>8. \A k \in Asks(s) : Granted(s)[k]
  <2>1. \A k \in Asks(s) : k[2] # B => Granted(s)[k]
    BY <1>7
  <2>2. ASSUME NEW k \in Asks(s), k[1] # NoPlayer, k[2] = B PROVE Granted(s)[<<k[1], A>>]
    <3>1. <<k[1], A>> \in Asks(s)
      BY <2>2, AskCases
    <3> QED BY <2>1, <3>1 DEF A, B
  <2> QED BY <1>7, <2>2
<1>9. /\ used.usbLedGpio = saved.usbLedGpio /\ used.simpleUsbLedGpio = saved.simpleUsbLedGpio
      /\ \A i \in Players :
           /\ used.modes[i] = Corrected(s, i)
           /\ used.gpioA[i] = saved.gpioA[i] /\ used.gpioDir[i] = saved.gpioDir[i]
  BY <1>4, <1>8 DEF Kept, HasBus
<1>10. \A k \in LedUses : PinOf(used, k) = PinOf(saved, k)
  BY <1>9, PinOfIs DEF LedUses
<1>11. ASSUME NEW i \in Players, ~(saved.gpioA[i] < 0) PROVE Corrected(s, i) = saved.modes[i]
  <2>1. s.modes[i] = saved.modes[i]
    BY <1>3, <1>11
  <2>2. CASE i \in InvolvedPlayers(s)
    <3>1. i \in InvolvedPlayers(c) /\ saved.modes[i] = Corrected(c, i)
      BY <1>2, <1>5, <2>2
    <3> QED BY ONLY <2>1, <3>1, CorrectedIs
  <2>3. CASE i \notin InvolvedPlayers(s)
    BY <2>1, <2>3 DEF Corrected
  <2> QED BY <2>2, <2>3
<1>12. ASSUME NEW i \in Players, saved.gpioA[i] < 0 PROVE Corrected(s, i) = "disable"
  <2>1. s.modes[i] = "disable"
    BY <1>3, <1>12
  <2> QED BY ONLY <2>1, CorrectedIs
<1>13. \A i \in Players :
         IF saved.gpioA[i] < 0 THEN used.modes[i] = "disable"
         ELSE /\ used.modes[i] = saved.modes[i]
              /\ used.gpioA[i] = saved.gpioA[i] /\ used.gpioDir[i] = saved.gpioDir[i]
  BY ONLY <1>9, <1>11, <1>12
<1> QED BY <1>10, <1>13 DEF saved, used

-----------------------------------------------------------------------------
(* The settings from start to start *)

LEMMA WithModesType ==
  ASSUME NEW s \in SettingsType, NEW players
  PROVE  WithModes(s, players) \in SettingsType
<1>1. "enable" \in Modes
  BY ModesType
<1> QED BY <1>1 DEF WithModes, SettingsType

LEMMA LoadedType ==
  /\ DefaultSettings \in SettingsType
  /\ flash \in [valid: BOOLEAN, settings: SettingsType] => Loaded \in SettingsType
<1>1. "static" \in Modes /\ NoPin \in Int /\ Pins \subseteq Int
  BY ModesType, PlayersAssumption DEF NoPin
<1>2. BusStartPin \in [Players -> Int] /\ DirPin \in [Players -> Int]
  BY <1>1, LifecycleAssumption
<1>3. DefaultSettings \in SettingsType
  BY <1>1, <1>2 DEF DefaultSettings, SettingsType
<1> QED BY <1>3 DEF Loaded

\* A command that succeeds leaves settings of the type.
LEMMA ChangedType ==
  ASSUME NEW s \in SettingsType, NEW command, command.value \in Int, command.second \in Int,
         Settings(command, TRUE).answer = "success"
  PROVE  Changed(s, command) \in SettingsType
<1>1. CASE command.kind = "P"
  <2>1. InRange(command)
    BY <1>1 DEF Settings, AnswerIf, Answer, Nothing, Flags
  <2>2. command.value \in 0 .. kNumPlayerDetectionModes - 1
    BY <1>1, <2>1 DEF InRange, Flags
  <2>3. ModeOf(command.value) \in Modes
    <3>1. command.value \in 0 .. 4 /\ ModeOf(command.value) = ModeNames[command.value + 1]
      BY <2>2 DEF ModeOf, kNumPlayerDetectionModes
    <3>2. command.value + 1 \in 1 .. 5
      BY <3>1
    <3>3. \A n \in 1 .. 5 : ModeNames[n] \in Modes
      BY DEF ModeNames, Modes, Range
    <3> QED BY <3>1, <3>2, <3>3
  <2>4. Changed(s, command) = [s EXCEPT !.modes[command.player] = ModeOf(command.value)]
    BY <1>1 DEF Changed
  <2> QED BY <2>3, <2>4 DEF SettingsType
<1>2. CASE command.kind = "I"
  <2>1. Changed(s, command) = [s EXCEPT !.gpioA[command.player] = command.value,
                                        !.gpioDir[command.player] = command.second]
    BY <1>2 DEF Changed
  <2> DEFINE first == [s EXCEPT !.gpioA[command.player] = command.value]
  <2>2. first \in SettingsType
    BY DEF SettingsType
  <2>3. Changed(s, command) = [first EXCEPT !.gpioDir[command.player] = command.second]
    BY <2>1
  <2> HIDE DEF first
  <2> QED BY <2>2, <2>3 DEF SettingsType
<1>3. CASE command.kind = "L"
  <2>1. Changed(s, command) = [s EXCEPT !.usbLedGpio = command.value]
    BY <1>3 DEF Changed
  <2> QED BY <2>1 DEF SettingsType
<1>4. CASE command.kind = "l"
  <2>1. Changed(s, command) = [s EXCEPT !.simpleUsbLedGpio = command.value]
    BY <1>4 DEF Changed
  <2> QED BY <2>1 DEF SettingsType
<1>5. CASE command.kind \in {"s", "S"}
  <2>1. Changed(s, command) = makeValid(s, FALSE)
    BY <1>5 DEF Changed
  <2>2. FALSE \in BOOLEAN
    OBVIOUS
  <2> QED BY <2>1, <2>2, MakeValidIs
<1>6. CASE command.kind \notin {"P", "I", "L", "l", "s", "S"}
  BY <1>6 DEF Changed
<1> QED BY <1>1, <1>2, <1>3, <1>4, <1>5, <1>6

LEMMA SettingsStart == LifeInit => SettingsInv
<1> SUFFICES ASSUME LifeInit PROVE SettingsInv
  OBVIOUS
<1>1. flash \in [valid: BOOLEAN, settings: SettingsType]
  BY SettingsAssumption DEF LifeInit
<1>2. /\ settings \in SettingsType /\ draft \in SettingsType
      /\ request \in [asked: BOOLEAN, clear: BOOLEAN, settings: SettingsType] /\ ~request.asked
  BY <1>1, LoadedType DEF LifeInit, NoRequest
<1>3. At(Core0, "starting") /\ ~At(Core0, "looking") /\ ~Idle(Core0)
  BY CoresType DEF LifeInit, At, Idle
<1> QED BY <1>1, <1>2, <1>3 DEF SettingsInv, PinsDisjoint, SavedIsUsed

\* A step that does not start the program leaves the pins as they were.
LEMMA SettingsMove ==
  ASSUME SettingsInv, UNCHANGED <<inUse, gamepads, watchers>>,
         flash' \in [valid: BOOLEAN, settings: SettingsType],
         settings' \in SettingsType, draft' \in SettingsType,
         request' \in [asked: BOOLEAN, clear: BOOLEAN, settings: SettingsType],
         pc'[Core0] # "starting" => pc[Core0] # "starting",
         pc'[Core0] = "looking" => ~request'.asked,
         SavedIsUsed'
  PROVE  SettingsInv'
<1>1. PinsDisjoint'
  BY DEF SettingsInv, PinsDisjoint, Nodes, At
<1> QED BY <1>1 DEF SettingsInv, At

\* Nor does one that lets settings, request and core 0 be.
LEMMA SettingsStay ==
  ASSUME SettingsInv, UNCHANGED <<flash, settings, draft, request, inUse, gamepads, watchers>>,
         pc'[Core0] = pc[Core0]
  PROVE  SettingsInv'
<1>1. SavedIsUsed'
  BY DEF SettingsInv, SavedIsUsed, Idle
<1> QED BY <1>1, SettingsMove DEF SettingsInv, At

\* Where core 0 leaves its main loop there is nothing to say of the request.
LEMMA SettingsLeave ==
  ASSUME SettingsInv, UNCHANGED <<settings, draft, inUse, gamepads, watchers>>,
         flash' \in [valid: BOOLEAN, settings: SettingsType],
         request' \in [asked: BOOLEAN, clear: BOOLEAN, settings: SettingsType],
         \/ pc'[Core0] = "starting"
         \/ pc'[Core0] \in {"erased", "hung"} /\ pc[Core0] # "starting"
  PROVE  SettingsInv'
<1>1. SavedIsUsed'
  BY DEF SavedIsUsed, Idle
<1> QED BY <1>1, SettingsMove DEF SettingsInv

LEMMA RestartsAt == Restarts => pc'[Core0] = "starting"
BY CoresType DEF Restarts

LEMMA EraseLeaves ==
  ASSUME Places, SettingsInv, NEW toSave, Erase(toSave), pc[Core0] \in {"looking", "idle"},
         toSave \in [asked: BOOLEAN, clear: BOOLEAN, settings: SettingsType],
         UNCHANGED <<settings, draft, inUse, gamepads, watchers>>
  PROVE  SettingsInv'
<1>1. pc'[Core0] = "erased" /\ request' = toSave
  BY CoresType DEF Erase, Places
<1>2. flash' \in [valid: BOOLEAN, settings: SettingsType]
  BY DEF Erase, SettingsInv
<1> QED BY <1>1, <1>2, SettingsLeave

LEMMA DetectRebootsLeaves ==
  ASSUME Places, SettingsInv, DetectReboots, pc[Core0] \in {"looking", "idle"},
         UNCHANGED <<settings, draft, inUse, gamepads, watchers>>
  PROVE  SettingsInv'
<1>1. CASE BecameNow # {}
  <2> DEFINE toSave == [asked |-> TRUE, clear |-> FALSE, settings |-> WithModes(settings, BecameNow)]
  <2>1. WithModes(settings, BecameNow) \in SettingsType
    BY WithModesType DEF SettingsInv
  <2>2. toSave \in [asked: BOOLEAN, clear: BOOLEAN, settings: SettingsType]
    BY <2>1
  <2>3. Erase(toSave)
    BY <1>1 DEF DetectReboots
  <2> HIDE DEF toSave
  <2> QED BY <2>2, <2>3, EraseLeaves
<1>2. CASE BecameNow = {}
  BY <1>2, RestartsAt, SettingsLeave DEF DetectReboots, SettingsInv
<1> QED BY <1>1, <1>2

\* dpp_hw_init(): players in use are not disabled.
LEMMA BootSettles ==
  ASSUME SettingsInv, Boot
  PROVE  SettingsInv'
<1> DEFINE valid == makeValid(Loaded, TRUE)
<1>1. Loaded \in SettingsType
  BY LoadedType DEF SettingsInv
<1>2. /\ settings' = Loaded /\ draft' = Loaded /\ inUse' = valid
      /\ request' = NoRequest /\ flash' = flash
  BY DEF Boot
<1>3. Nodes' \in SUBSET Players /\ \A i \in Nodes' : valid.modes[i] # "disable"
  BY DEF Boot, Nodes, Automatic
<1>4. pc'[Core0] \in {"looking", "idle"}
  BY CoresType DEF Boot
<1> DEFINE players == Nodes'
<1>5. /\ \A k \in Uses(valid, players) : PinOf(valid, k) \in Pins
      /\ \A j, k \in Uses(valid, players) : PinOf(valid, j) = PinOf(valid, k) => j = k
  <2>1. players \in SUBSET Players /\ \A i \in players : makeValid(Loaded, TRUE).modes[i] # "disable"
    BY <1>3
  <2> HIDE DEF players
  <2> QED BY <1>1, <2>1, ValidIsDisjoint
<1>6. PinsDisjoint'
  BY <1>2, <1>5 DEF PinsDisjoint
<1>7. /\ ~request'.asked
      /\ request' \in [asked: BOOLEAN, clear: BOOLEAN, settings: SettingsType]
  BY <1>2, LoadedType DEF NoRequest
<1>8. SavedIsUsed'
  BY <1>7 DEF SavedIsUsed
<1> QED BY <1>1, <1>2, <1>6, <1>7, <1>8 DEF SettingsInv

\* What a command asks to be saved was made valid just before.
LEMMA CommandSettles ==
  ASSUME SettingsInv, environment \in Environments, Command
  PROVE  SettingsInv'
<1>1. PICK command \in environment.wanted :
        /\ draft' = IF Settings(command, TRUE).answer = "success"
                    THEN Changed(draft, command) ELSE draft
        /\ request' = Requested(command)
  BY DEF Command
<1>2. /\ UNCHANGED <<pc, flash, settings, inUse, gamepads, watchers>> /\ Idle(Core0)
  BY DEF Command, boots
<1>3. command.value \in Int /\ command.second \in Int
  BY SettingsAssumption
<1>4. draft' \in SettingsType
  BY <1>1, <1>3, ChangedType DEF SettingsInv
<1>5. CASE ~request.asked /\ command.kind = "S"
  <2>1. Settings(command, TRUE).answer = "success"
    BY <1>5 DEF Settings, Nothing, Flags
  <2>2. draft' = makeValid(draft, FALSE)
    BY <1>1, <1>5, <2>1 DEF Changed
  <2>3. request' = [asked |-> TRUE, clear |-> FALSE, settings |-> draft']
    BY <1>1, <1>5 DEF Requested
  <2>4. request' \in [asked: BOOLEAN, clear: BOOLEAN, settings: SettingsType]
    BY <1>4, <2>3
  <2>5. request'.settings = makeValid(draft, FALSE) /\ draft \in SettingsType
    BY <2>2, <2>3 DEF SettingsInv
  <2>6. SavedIsUsed'
    BY <2>5, ValidStaysValid DEF SavedIsUsed
  <2> QED BY <1>2, <1>4, <2>4, <2>6, SettingsMove DEF SettingsInv, Idle
<1>6. CASE ~request.asked /\ command.kind = "X"
  <2>1. request' = [asked |-> TRUE, clear |-> TRUE, settings |-> DefaultSettings]
    BY <1>1, <1>6 DEF Requested, NoRequest
  <2>2. request' \in [asked: BOOLEAN, clear: BOOLEAN, settings: SettingsType]
    BY <2>1, LoadedType
  <2>3. SavedIsUsed'
    BY <2>1 DEF SavedIsUsed
  <2> QED BY <1>2, <1>4, <2>2, <2>3, SettingsMove DEF SettingsInv, Idle
<1>7. CASE request.asked \/ command.kind \notin {"S", "X"}
  <2>1. request' = request
    BY <1>1, <1>7 DEF Requested
  <2>2. SavedIsUsed'
    BY <1>2, <2>1 DEF SettingsInv, SavedIsUsed, Idle
  <2> QED BY <1>2, <1>4, <2>1, <2>2, SettingsMove DEF SettingsInv, Idle
<1> QED BY <1>5, <1>6, <1>7

LEMMA SettingsKept ==
  ASSUME WatchdogInv, SettingsInv, [LifeNext]_<<environment, lifeSteps>>
  PROVE  SettingsInv'
<1> USE CoresType DEF boots
<1>0. Places /\ environment \in Environments
  BY DEF WatchdogInv, ClockType
<1>1. CASE UNCHANGED <<environment, lifeSteps>>
  BY <1>1, SettingsStay DEF lifeSteps, lifeVars
<1> SUFFICES ASSUME LifeNext PROVE SettingsInv'
  BY <1>1
<1>2. CASE Boot
  BY <1>2, BootSettles
<1>3. ASSUME NEW i \in Players, See(i) PROVE SettingsInv'
  BY <1>3, SettingsStay DEF See
<1>4. CASE Detect
  BY <1>4, SettingsStay DEF Detect
<1>5. CASE DetectLate
  BY <1>0, <1>5, DetectRebootsLeaves DEF DetectLate, Idle
<1>6. CASE LookEnds
  <2>1. pc[Core0] = "looking" /\ UNCHANGED <<settings, inUse, draft, gamepads, watchers>>
    BY <1>6 DEF LookEnds, At
  <2>2. CASE News
    BY <1>0, <1>6, <2>1, <2>2, DetectRebootsLeaves DEF LookEnds
  <2>3. CASE ~News
    <3>1. pc'[Core0] = "idle" /\ UNCHANGED <<flash, request>>
      BY <1>0, <1>6, <2>3 DEF LookEnds, Goes, Places
    <3>2. ~request'.asked
      BY <2>1, <3>1 DEF SettingsInv, At
    <3>3. SavedIsUsed'
      BY <3>2 DEF SavedIsUsed
    <3> QED BY <2>1, <3>1, <3>3, SettingsMove DEF SettingsInv
  <2> QED BY <2>2, <2>3
<1>7. CASE ProcessSaveRequests
  BY <1>0, <1>7, EraseLeaves DEF ProcessSaveRequests, Idle, SettingsInv
<1>8. CASE Program
  <2>1. flash' \in [valid: BOOLEAN, settings: SettingsType]
    BY <1>8 DEF Program, SettingsInv
  <2> QED BY <1>8, <2>1, RestartsAt, SettingsLeave DEF Program, SettingsInv
<1>9. CASE Beat0
  BY <1>9, SettingsStay DEF Beat0
<1>10. CASE Beat1
  BY <1>10, SettingsStay DEF Beat1
<1>11. CASE Tick
  BY <1>11, SettingsStay DEF Tick
<1>12. CASE Bite
  BY <1>12, RestartsAt, SettingsLeave DEF Bite, SettingsInv, lifeVars
<1>13. CASE Command
  BY <1>0, <1>13, CommandSettles
<1>14. ASSUME NEW c \in Cores, Hang(c) PROVE SettingsInv'
  <2>1. CASE c = Core0
    <3>1. pc'[Core0] = "hung" /\ pc[Core0] # "starting"
      BY <1>0, <1>14, <2>1 DEF Hang, Goes, Idle, Places
    <3> QED BY <1>14, <3>1, SettingsLeave DEF Hang, SettingsInv
  <2>2. CASE c = Core1
    <3>1. pc'[Core0] = pc[Core0]
      BY <1>0, <1>14, <2>2 DEF Hang, Goes, Places
    <3> QED BY <1>14, <3>1, SettingsStay DEF Hang
  <2> QED BY <2>1, <2>2
<1>15. CASE UsbReboot
  BY <1>15, SettingsStay DEF UsbReboot
<1>16. CASE PowerCut
  BY <1>16, RestartsAt, SettingsLeave DEF PowerCut, SettingsInv
<1>17. ASSUME NEW i \in Players, Plug(i) PROVE SettingsInv'
  BY <1>17, SettingsStay DEF Plug
<1> QED
  BY <1>2, <1>3, <1>4, <1>5, <1>6, <1>7, <1>8, <1>9, <1>10, <1>11, <1>12, <1>13, <1>14, <1>15,
     <1>16, <1>17 DEF LifeNext, LifeSystem

\* The settings in the flash, of the handler and of the request stay settings, whatever
\* was saved, asked for or detected.
THEOREM SettingsInvariant == LifeSpec => [](WatchdogInv /\ SettingsInv)
<1>1. LifeInit => WatchdogInv /\ SettingsInv
  BY WatchdogStarts, SettingsStart
<1>2. WatchdogInv /\ SettingsInv /\ [LifeNext]_<<environment, lifeSteps>>
        => WatchdogInv' /\ SettingsInv'
  BY WatchdogKept, SettingsKept
<1> QED BY <1>1, <1>2, PTL DEF LifeSpec

\* Whatever settings the flash holds, those a command asked for among them, no pin is
\* driven for two purposes and each bus in use has its lines, for every number of players
\* and of pins: makeValid() as dpp_hw_init() calls it.
THEOREM PinsAlwaysDisjoint == LifeSpec => []PinsDisjoint
<1>1. WatchdogInv /\ SettingsInv => PinsDisjoint
  BY DEF SettingsInv
<1> QED BY <1>1, SettingsInvariant, PTL

\* What "S" saves is what the next start uses, for every number of players and of pins:
\* makeValid() of the handler and that of dpp_hw_init() agree.
THEOREM SavedAlwaysUsed == LifeSpec => []SavedIsUsed
<1>1. WatchdogInv /\ SettingsInv => SavedIsUsed
  BY DEF SettingsInv
<1> QED BY <1>1, SettingsInvariant, PTL

=============================================================================
