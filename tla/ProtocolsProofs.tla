---------------------------- MODULE ProtocolsProofs ----------------------------
(***************************************************************************)
(* Proofs about the cleaning modes, activities and times of the five       *)
(* families: what Protocols says of their tables, payloads and parsers,    *)
(* and what ModelLookup makes of the modes that the tables offer.          *)
(*                                                                         *)
(* The first part is for any durations, orders of them, extra time and     *)
(* clock, the second for any names, modes and number of attempts.          *)
(***************************************************************************)
EXTENDS Protocols, ModelLookup, TLAPS

-----------------------------------------------------------------------------
(* The inductive invariant of Protocols.                                   *)

IInv ==
  /\ TypeOK
  /\ ActivityIsRead /\ SpeedsTakeEffect /\ SpeedIsRead /\ RemainingIsRight

-----------------------------------------------------------------------------
(* The tables.                                                             *)

LEMMA CodesAre ==
  /\ \A f \in {"vr", "vortrax"} :
       /\ DOMAIN Codes(f) =
            {"wall_only", "floor_only", "smart_floor_and_walls", "floor_and_walls"}
       /\ Codes(f)["wall_only"] = 0 /\ Codes(f)["floor_only"] = 1
       /\ Codes(f)["smart_floor_and_walls"] = 2 /\ Codes(f)["floor_and_walls"] = 3
  /\ /\ DOMAIN Codes("cyclobat") =
          {"wall_only", "floor_only", "smart_floor_and_walls", "floor_and_walls"}
     /\ Codes("cyclobat")["wall_only"] = 3 /\ Codes("cyclobat")["floor_only"] = 0
     /\ Codes("cyclobat")["smart_floor_and_walls"] = 2
     /\ Codes("cyclobat")["floor_and_walls"] = 1
  /\ /\ DOMAIN Codes("cyclonext") = {"floor_only", "floor_and_walls"}
     /\ Codes("cyclonext")["floor_only"] = 1 /\ Codes("cyclonext")["floor_and_walls"] = 3
  /\ /\ DOMAIN Codes("i2d") = {"floor_only", "walls_only", "floor_and_walls"}
     /\ Codes("i2d")["floor_only"] = 0 /\ Codes("i2d")["walls_only"] = 4
     /\ Codes("i2d")["floor_and_walls"] = 3
BY DEF Codes

\* What a code makes a robot do.
LEMMA RunsAre ==
  /\ \A f \in {"vr", "vortrax"} :
       /\ Runs(f, 0) = "wall_only" /\ Runs(f, 1) = "floor_only"
       /\ Runs(f, 2) = "smart_floor_and_walls" /\ Runs(f, 3) = "floor_and_walls"
       /\ Runs(f, 4) = "custom"
  /\ /\ Runs("cyclobat", 0) = "floor_only" /\ Runs("cyclobat", 1) = "floor_and_walls"
     /\ Runs("cyclobat", 2) = "smart_floor_and_walls" /\ Runs("cyclobat", 3) = "wall_only"
  /\ Runs("cyclonext", 1) = "floor_only" /\ Runs("cyclonext", 3) = "floor_and_walls"
  /\ /\ Runs("i2d", 0) = "floor_only" /\ Runs("i2d", 3) = "floor_and_walls"
     /\ Runs("i2d", 4) = "walls_only" /\ Runs("i2d", 12) = "custom"
BY DEF Runs

\* Every code does what its name says.
LEMMA CodesRun ==
  ASSUME NEW f \in Families, NEW s \in DOMAIN Codes(f)
  PROVE  Codes(f)[s] \in 0..4 /\ Runs(f, Codes(f)[s]) = s /\ s \in Speeds
<1>1. CASE f \in {"vr", "vortrax"}
  BY <1>1, CodesAre, RunsAre DEF Speeds
<1>2. CASE f = "cyclobat"
  BY <1>2, CodesAre, RunsAre DEF Speeds
<1>3. CASE f = "cyclonext"
  BY <1>3, CodesAre, RunsAre DEF Speeds
<1>4. CASE f = "i2d"
  BY <1>4, CodesAre, RunsAre DEF Speeds
<1> QED BY <1>1, <1>2, <1>3, <1>4 DEF Families

\* Every mode that is offered has a code.
LEMMA OfferedHaveCodes ==
  ASSUME NEW f \in Families
  PROVE  Offered(f) \subseteq DOMAIN Codes(f) /\ Offered(f) \subseteq Speeds
<1>1. CASE f \in {"vr", "vortrax"}
  BY <1>1, CodesAre DEF Offered, Speeds
<1>2. CASE f = "cyclobat"
  BY <1>2, CodesAre DEF Offered, Speeds
<1>3. CASE f = "cyclonext"
  BY <1>3, CodesAre DEF Offered, Speeds
<1>4. CASE f = "i2d"
  BY <1>4, CodesAre DEF Offered, Speeds
<1> QED BY <1>1, <1>2, <1>3, <1>4 DEF Families

\* The codes a robot can have: those of its modes, and one without a name.
LEMMA CyclesAre ==
  ASSUME NEW f \in Families, NEW c \in Cycles(f)
  PROVE  /\ c \in 0..12
         /\ \/ \E s \in DOMAIN Codes(f) : c = Codes(f)[s]
            \/ f = "vr" /\ c = 4
            \/ f = "i2d" /\ c = 12
         /\ f = "i2d" => c \in {0, 3, 4, 12}
         /\ f = "vr" => c \in 0..4
         /\ f = "cyclonext" => c \in {1, 3}
         /\ f = "vortrax" => c \in 0..3
         /\ f = "cyclobat" => c \in 0..3
<1>1. \/ \E s \in DOMAIN Codes(f) : c = Codes(f)[s]
      \/ f = "vr" /\ c = 4
      \/ f = "i2d" /\ c = 12
  BY DEF Cycles
<1>2. c \in 0..12
  BY <1>1, CodesRun
<1>3. f = "i2d" => c \in {0, 3, 4, 12}
  BY <1>1, CodesAre
<1>7. f = "vr" => c \in 0..4
  BY <1>1, CodesAre
<1>4. f = "cyclonext" => c \in {1, 3}
  BY <1>1, CodesAre
<1>5. f = "vortrax" => c \in 0..3
  BY <1>1, CodesAre
<1>6. f = "cyclobat" => c \in 0..3
  BY <1>1, CodesAre
<1> QED BY <1>1, <1>2, <1>3, <1>4, <1>5, <1>6, <1>7

\* A robot that can be.
RobotOK(f, r) ==
  /\ f \in Families
  /\ r \in [doing : Doings(f), cycle : Cycles(f), last : 0..3,
            stepper : 0..MaxStepper, start : 0..MaxClock,
            error : BOOLEAN, full : BOOLEAN, learned : BOOLEAN, text : BOOLEAN]

\* A robot whose numbers its parser reads.
Readable(f, r) == r.text => f = "cyclonext"

\* The parser of each family reads what the robot does, where it is told.
LEMMA ActivityIs ==
  ASSUME NEW f, NEW r, RobotOK(f, r)
  PROVE  /\ ActivityOf(f, r) \in Activities
         /\ Readable(f, r) /\ (Faulty(r) => r.error) => ActivityOf(f, r) = Meaning(f, r)
<1>1. r.doing \in Doings(f) /\ r.text \in BOOLEAN /\ r.error \in BOOLEAN /\ f \in Families
  BY DEF RobotOK
<1>2. CASE f = "i2d"
  <2>1. r.doing \in {"cleaning", "idle", "paused", "starting", "finished", "errorD", "errorE"}
    BY <1>1, <1>2 DEF Doings
  <2>2. ActivityOf(f, r) = ActivityOfI2D(r)
    BY <1>2 DEF ActivityOf
  <2>3. ActivityOfI2D(r) = IF Cleans(r) THEN "cleaning"
                           ELSE IF r.error THEN "error" ELSE "idle"
    BY <2>1 DEF ActivityOfI2D, State, Whole, Cleans
  <2>4. "cleaning" \in Activities /\ "error" \in Activities /\ "idle" \in Activities
    BY DEF Activities
  <2>5. Meaning(f, r) = IF Cleans(r) THEN "cleaning"
                        ELSE IF r.error \/ Faulty(r) THEN "error" ELSE "idle"
    BY <1>2, <2>1 DEF Meaning, Cleans
  <2> QED BY <2>2, <2>3, <2>4, <2>5
<1>3. CASE f = "cyclonext"
  <2>1. r.doing \in {"cleaning", "idle", "paused"}
    BY <1>1, <1>3 DEF Doings
  <2>2. ActivityOf(f, r) = IF r.doing = "cleaning" THEN "cleaning" ELSE "idle"
    BY <1>3, <2>1 DEF ActivityOf, StateRead, CoerceCloudInt, State, Number, Whole
  <2> QED BY <1>3, <2>1, <2>2 DEF Meaning, Cleans, Activities
<1>4. CASE f \notin {"i2d", "cyclonext"}
  <2>1. r.doing \in {"cleaning", "idle", "paused", "returning"}
    BY <1>1, <1>4 DEF Doings
  <2>2. ActivityOf(f, r) \in {"cleaning", "returning", "idle"}
    BY <1>4 DEF ActivityOf
  <2>3. ASSUME ~r.text
        PROVE  ActivityOf(f, r) = IF r.doing = "cleaning" THEN "cleaning"
                                  ELSE IF r.doing = "returning" THEN "returning" ELSE "idle"
    BY <1>4, <2>1, <2>3 DEF ActivityOf, StateRead, State, Number, Whole
  <2> QED BY <1>1, <1>4, <2>1, <2>2, <2>3 DEF Meaning, Cleans, Activities, Readable
<1> QED BY <1>2, <1>3, <1>4

\* The digit of the mode is not touched by that of the canister.
LEMMA ModeCodeIs ==
  ASSUME NEW r, r.cycle \in {0, 3, 4, 12}, r.full \in BOOLEAN
  PROVE  ModeCode(r) = r.cycle
<1>1. CASE r.full
  BY <1>1 DEF ModeCode, ModeByte
<1>2. CASE ~r.full
  BY <1>2 DEF ModeCode, ModeByte
<1> QED BY <1>1, <1>2

\* The code of the mode reaches the tables as a number, where it is told.
LEMMA CycleReadIs ==
  ASSUME NEW f, NEW r, RobotOK(f, r)
  PROVE  /\ \E kind : CycleRead(f, r) = <<kind, r.cycle>>
         /\ Readable(f, r) \/ f = "i2d" => CycleRead(f, r) = Whole(r.cycle)
<1>1. f \in Families /\ r.cycle \in Cycles(f) /\ r.full \in BOOLEAN /\ r.text \in BOOLEAN
  BY DEF RobotOK
<1>2. CASE f = "i2d"
  BY <1>1, <1>2, CyclesAre, ModeCodeIs DEF CycleRead, Whole
<1>3. CASE f = "cyclonext"
  BY <1>1, <1>3 DEF CycleRead, CoerceCloudInt, Number, Whole
<1>4. CASE f \notin {"i2d", "cyclonext"}
  BY <1>1, <1>4 DEF CycleRead, Number, Whole, Readable
<1> QED BY <1>2, <1>3, <1>4

\* The parser of the mode reads what the robot does it in, if it has a name.
LEMMA SpeedIs ==
  ASSUME NEW f, NEW r, RobotOK(f, r), NEW parts
  PROVE  /\ SpeedOf(f, r, parts) \in Speeds \cup {None}
         /\ /\ "cycle" \in parts /\ f \in {"vr", "cyclonext", "i2d"}
            /\ Readable(f, r) /\ Runs(f, r.cycle) # "custom"
            => SpeedOf(f, r, parts) # None /\ SpeedOf(f, r, parts) = Runs(f, r.cycle)
<1>1. f \in Families /\ r.cycle \in Cycles(f)
  BY DEF RobotOK
<1> DEFINE Pick(c) == CHOOSE s \in Named(f, c) : TRUE
<1>2. \A c : Named(f, c) # {} => Pick(c) \in Speeds
  <2> SUFFICES ASSUME NEW c, Named(f, c) # {} PROVE Pick(c) \in Speeds
    OBVIOUS
  <2>1. Pick(c) \in DOMAIN Codes(f)
    BY DEF Named
  <2> QED BY <1>1, <2>1, CodesRun
<1>3. ASSUME Runs(f, r.cycle) # "custom"
      PROVE  Named(f, Whole(r.cycle)) # {} /\ Pick(Whole(r.cycle)) = Runs(f, r.cycle)
  <2>1. PICK s \in DOMAIN Codes(f) : r.cycle = Codes(f)[s]
    BY <1>1, <1>3, CyclesAre, RunsAre
  <2>2. s \in Named(f, Whole(r.cycle))
    BY <2>1 DEF Named
  <2>3. Pick(Whole(r.cycle)) \in Named(f, Whole(r.cycle))
    BY <2>2
  <2> QED BY <1>1, <2>2, <2>3, CodesRun DEF Named, Whole
<1>4. "floor_only" \in Speeds /\ None \notin Speeds
  BY DEF Speeds, None
<1> DEFINE code == CycleRead(f, r)
<1>5. SpeedOf(f, r, parts) =
        IF f \in {"vr", "cyclonext", "i2d"} /\ "cycle" \in parts /\ Named(f, code) # {}
        THEN Pick(code)
        ELSE IF f = "vr" \/ (f = "cyclonext" /\ "cycle" \in parts) THEN "floor_only" ELSE None
  BY DEF SpeedOf
<1>6. Readable(f, r) => code = Whole(r.cycle)
  BY CycleReadIs
<1> HIDE DEF code, Pick
<1> QED BY <1>2, <1>3, <1>4, <1>5, <1>6

-----------------------------------------------------------------------------
(* Durations.                                                              *)

LEMMA MinutesAre ==
  /\ \A k \in Keys : Minutes[k] \in Nat
  /\ CycleKeys \subseteq Keys /\ Learned \in Nat /\ Learned # 0
  /\ {"waterTim", "quickTim", "smartTim", "deepTim", "firstSmartTim"} \subseteq Keys
BY ProtocolsAssumption DEF CycleKeys

LEMMA ListedIs ==
  ASSUME NEW r
  PROVE  /\ \A k \in Keys : Listed(r)[k] \in Nat
         /\ \A k \in Keys \ {"smartTim"} : Listed(r)[k] = Minutes[k]
         /\ Listed(r)["smartTim"] = IF r.learned THEN Learned ELSE 0
<1>1. Minutes \in [Keys -> Nat \ {0}]
  BY ProtocolsAssumption
<1> QED BY <1>1, MinutesAre DEF Listed

LEMMA KeyMapIs ==
  /\ \A f : f # "cyclonext" =>
       /\ DOMAIN KeyMap(f) = 0..3
       /\ KeyMap(f)[0] = "waterTim" /\ KeyMap(f)[1] = "quickTim"
       /\ KeyMap(f)[2] = "smartTim" /\ KeyMap(f)[3] = "deepTim"
  /\ DOMAIN KeyMap("cyclonext") = {1, 3}
  /\ KeyMap("cyclonext")[1] = "quickTim" /\ KeyMap("cyclonext")[3] = "deepTim"
BY DEF KeyMap

\* The map that is used: the smart cycle has its first duration until one is learned.
LEMMA SmartKeyMapIs ==
  ASSUME NEW f \in Families, NEW r, r.learned \in BOOLEAN
  PROVE  /\ DOMAIN SmartKeyMap(f, r) = IF f = "cyclonext" THEN {1, 3} ELSE 0..3
         /\ f # "cyclonext" =>
              /\ SmartKeyMap(f, r)[0] = "waterTim" /\ SmartKeyMap(f, r)[1] = "quickTim"
              /\ SmartKeyMap(f, r)[2] = IF r.learned THEN "smartTim" ELSE "firstSmartTim"
              /\ SmartKeyMap(f, r)[3] = "deepTim"
         /\ f = "cyclonext" =>
              SmartKeyMap(f, r)[1] = "quickTim" /\ SmartKeyMap(f, r)[3] = "deepTim"
<1>1. CASE f = "cyclonext"
  BY <1>1, KeyMapIs DEF SmartKeyMap
<1>2. CASE f # "cyclonext" /\ r.learned
  <2>1. SmartKeyMap(f, r) = KeyMap(f)
    BY <1>2 DEF SmartKeyMap
  <2> QED BY <1>2, <2>1, KeyMapIs
<1>3. CASE f # "cyclonext" /\ ~r.learned
  <2>1. SmartKeyMap(f, r) = [KeyMap(f) EXCEPT ![2] = "firstSmartTim"]
    BY <1>3, ListedIs DEF SmartKeyMap
  <2> DEFINE m == KeyMap(f)
  <2>2. /\ DOMAIN m = 0..3 /\ m[0] = "waterTim" /\ m[1] = "quickTim" /\ m[3] = "deepTim"
        /\ SmartKeyMap(f, r) = [m EXCEPT ![2] = "firstSmartTim"]
    BY <1>3, <2>1, KeyMapIs
  <2> HIDE DEF m
  <2> QED BY <1>3, <2>2
<1> QED BY <1>1, <1>2, <1>3

\* The duration that the parsers find is that of the cycle that runs.
LEMMA CycleDurationIs ==
  ASSUME NEW r, RobotOK(family, r), family \in {"vr", "vortrax", "cyclonext"},
         Readable(family, r), Runs(family, r.cycle) # "custom"
  PROVE  CycleDuration(family, r) = Duration(family, r) /\ Duration(family, r) \in Nat
<1> DEFINE c == r.cycle
           m == SmartKeyMap(family, r)
<1>1. family \in Families /\ c \in Cycles(family) /\ r.learned \in BOOLEAN /\ c \in 0..4
  BY CyclesAre DEF RobotOK
<1>2. c \in DOMAIN m
  BY <1>1, CyclesAre, RunsAre, SmartKeyMapIs
<1>3. CycleDuration(family, r) = Listed(r)[m[c]]
  <2>1. CycleRead(family, r) = Whole(c) /\ Whole(c)[2] = c
    BY CycleReadIs DEF Whole
  <2>2. CycleDuration(family, r) = ResolveCycleDuration(Listed(r), Whole(c), m)
    BY <2>1 DEF CycleDuration
  <2> HIDE DEF m, c
  <2> QED BY <1>2, <2>1, <2>2 DEF ResolveCycleDuration
<1>4. /\ Listed(r)["waterTim"] = Minutes["waterTim"]
      /\ Listed(r)["quickTim"] = Minutes["quickTim"]
      /\ Listed(r)["deepTim"] = Minutes["deepTim"]
      /\ Listed(r)["firstSmartTim"] = Minutes["firstSmartTim"]
      /\ Listed(r)["smartTim"] = IF r.learned THEN Learned ELSE 0
  BY ListedIs, MinutesAre
<1>5. CASE c = 0 /\ family # "cyclonext"
  <2>1. m[c] = "waterTim" /\ Runs(family, c) = "wall_only"
    BY <1>1, <1>5, SmartKeyMapIs, RunsAre
  <2> QED BY <1>3, <1>4, <2>1, MinutesAre DEF Duration
<1>6. CASE c = 1
  <2>1. m[c] = "quickTim" /\ Runs(family, c) = "floor_only"
    BY <1>1, <1>6, SmartKeyMapIs, RunsAre
  <2> QED BY <1>3, <1>4, <2>1, MinutesAre DEF Duration
<1>7. CASE c = 2 /\ family # "cyclonext"
  <2>1. /\ m[c] = IF r.learned THEN "smartTim" ELSE "firstSmartTim"
        /\ Runs(family, c) = "smart_floor_and_walls"
    BY <1>1, <1>7, SmartKeyMapIs, RunsAre
  <2> QED BY <1>3, <1>4, <2>1, MinutesAre DEF Duration
<1>8. CASE c = 3
  <2>1. m[c] = "deepTim" /\ Runs(family, c) = "floor_and_walls"
    BY <1>1, <1>8, SmartKeyMapIs, RunsAre
  <2> QED BY <1>3, <1>4, <2>1, MinutesAre DEF Duration
<1>9. \/ c = 0 /\ family # "cyclonext"
      \/ c = 1
      \/ c = 2 /\ family # "cyclonext"
      \/ c = 3
  BY <1>1, <1>2, SmartKeyMapIs
<1> QED BY <1>5, <1>6, <1>7, <1>8, <1>9


\* Whatever the cycle, its duration is a number, the one the list has at its position
\* when it has no name.
LEMMA CycleDurationIsNumber ==
  ASSUME NEW r, RobotOK(family, r), order \in Orders, family # "i2d"
  PROVE  CycleDuration(family, r) \in Nat
<1>1. family \in Families /\ r.cycle \in Cycles(family) /\ r.learned \in BOOLEAN
      /\ r.cycle \in 0..12 /\ r.last \in 0..3
  BY CyclesAre DEF RobotOK
<1>2. CASE family = "cyclobat"
  <2>1. /\ Minutes["quickTim"] \in Nat /\ Minutes["deepTim"] \in Nat
        /\ Listed(r)["smartTim"] \in Nat /\ Minutes["waterTim"] \in Nat
    BY ListedIs, MinutesAre
  <2>2. CyclobatDuration(r) \in Nat
    BY <2>1 DEF CyclobatDuration, Number, Whole
  <2> QED BY <1>2, <2>2 DEF CycleDuration
<1>3. CASE family # "cyclobat"
  <2> DEFINE m == SmartKeyMap(family, r)
             c == r.cycle
  <2>4. PICK kind : CycleRead(family, r) = <<kind, c>>
    BY CycleReadIs
  <2>1. CycleDuration(family, r) = ResolveCycleDuration(Listed(r), <<kind, c>>, m)
    BY <1>3, <2>4 DEF CycleDuration
  <2>2. ASSUME c \in DOMAIN m PROVE m[c] \in Keys
    <3>1. m[c] \in {"waterTim", "quickTim", "smartTim", "deepTim", "firstSmartTim"}
      BY <1>1, <2>2, SmartKeyMapIs
    <3> QED BY <3>1, MinutesAre
  <2>3. ASSUME c < Len(order) PROVE order[c + 1] \in Keys
    <3>1. order \in Seq(Keys)
      BY ProtocolsAssumption
    <3> QED BY <1>1, <2>3, <3>1
  <2>5. <<kind, c>>[2] = c
    OBVIOUS
  <2> HIDE DEF m, c
  <2> QED BY <2>1, <2>2, <2>3, <2>5, ListedIs DEF ResolveCycleDuration
<1> QED BY <1>2, <1>3

LEMMA TimeRemainingIsNumber ==
  ASSUME NEW r, RobotOK(family, r), order \in Orders, clock \in 1..MaxClock, NEW parts
  PROVE  TimeRemaining(family, r, parts) \in Nat
<1>1. /\ r.start \in Nat /\ r.stepper \in Nat /\ clock \in Nat /\ r.learned \in BOOLEAN
      /\ family \in Families
  BY ProtocolsAssumption DEF RobotOK
<1>2. CASE family = "i2d"
  <2>1. Duration(family, r) \in Nat
    BY <1>1, MinutesAre DEF Duration
  <2>2. Left(family, r) \in Nat
    BY <1>1, <2>1 DEF Left
  <2> QED BY <1>2, <2>2 DEF TimeRemaining
<1>3. CASE family # "i2d"
  <2>1. CycleDuration(family, r) \in Nat /\ Stepper(family, r) \in Nat
    BY <1>1, <1>3, CycleDurationIsNumber DEF Stepper
  <2>2. \A a : CalculateTimes(a, r.start, CycleDuration(family, r), Stepper(family, r)) \in Nat
    BY <1>1, <2>1 DEF CalculateTimes
  <2> QED BY <1>3, <2>2 DEF TimeRemaining
<1> QED BY <1>2, <1>3

\* What is computed from a whole report is what is left of the cycle that runs.
LEMMA TimeRemainingIs ==
  ASSUME NEW r, RobotOK(family, r), Readable(family, r), clock \in 1..MaxClock,
         family \in {"vr", "vortrax", "cyclonext"}, Runs(family, r.cycle) # "custom"
  PROVE  \/ TimeRemaining(family, r, Parts) = Left(family, r)
         \/ family = "vortrax" /\ r.stepper > 0
<1>1. /\ r.start \in Nat /\ r.stepper \in Nat /\ clock \in Nat /\ family # "i2d"
      /\ r.doing \in Doings(family)
  BY ProtocolsAssumption DEF RobotOK
<1>2. CycleDuration(family, r) = Duration(family, r) /\ Duration(family, r) \in Nat
  BY CycleDurationIs
<1>3. {"start"} \cup (IF family = "cyclobat" THEN {} ELSE {"cycle"}) \subseteq Parts
      /\ "state" \in Parts
  BY DEF Parts
<1>4. TimeRemaining(family, r, Parts) =
        IF r.start > 0
        THEN CalculateTimes(ActivityOf(family, r), r.start, CycleDuration(family, r),
                            Stepper(family, r))
        ELSE 0
  BY <1>1, <1>3 DEF TimeRemaining
<1>5. ActivityOf(family, r) \in {"cleaning", "returning"} <=> Busy(r)
  <2>1. ~Faulty(r)
    BY <1>1 DEF Faulty, Doings
  <2> QED BY <1>1, <2>1, ActivityIs DEF Meaning, Busy, Cleans
<1>6. SUFFICES ASSUME family = "vortrax" => r.stepper = 0
               PROVE  TimeRemaining(family, r, Parts) = Left(family, r)
  BY <1>1
<1>7. Stepper(family, r) = r.stepper
  BY <1>6 DEF Stepper
<1>8. r.start + Duration(family, r) + r.stepper \in Nat
  BY <1>1, <1>2
<1> DEFINE end == r.start + Duration(family, r) + r.stepper
<1>9. Left(family, r) = IF Busy(r) /\ r.start > 0 /\ end > clock THEN end - clock ELSE 0
  BY DEF Left
<1>10. CalculateTimes(ActivityOf(family, r), r.start, CycleDuration(family, r),
                      Stepper(family, r)) =
         IF Busy(r) /\ clock < end THEN end - clock ELSE 0
  <2>1. ASSUME NEW a, a \in {"cleaning", "returning"} <=> Busy(r)
        PROVE  CalculateTimes(a, r.start, Duration(family, r), r.stepper) =
                 IF Busy(r) /\ clock < end THEN end - clock ELSE 0
    <3>1. CASE Busy(r)
      BY <1>1, <1>2, <2>1, <3>1 DEF CalculateTimes
    <3>2. CASE ~Busy(r)
      BY <2>1, <3>2 DEF CalculateTimes
    <3> QED BY <3>1, <3>2
  <2> DEFINE activity == ActivityOf(family, r)
  <2>2. activity \in {"cleaning", "returning"} <=> Busy(r)
    BY <1>5
  <2> HIDE DEF activity
  <2>3. CalculateTimes(activity, r.start, Duration(family, r), r.stepper) =
          IF Busy(r) /\ clock < end THEN end - clock ELSE 0
    BY <2>1, <2>2
  <2> QED BY <1>2, <1>7, <2>3 DEF activity
<1> HIDE DEF end
<1> QED BY <1>1, <1>4, <1>8, <1>9, <1>10 DEF end


-----------------------------------------------------------------------------
(* The steps.                                                              *)

\* The type of the robot.
Robots == [doing : Doings(family), cycle : Cycles(family), last : 0..3,
           stepper : 0..MaxStepper, start : 0..MaxClock,
           error : BOOLEAN, full : BOOLEAN, learned : BOOLEAN, text : BOOLEAN]

LEMMA RobotIsOK ==
  ASSUME IInv
  PROVE  RobotOK(family, robot) /\ robot \in Robots /\ order \in Orders
         /\ clock \in 1..MaxClock /\ clock \in Nat /\ clock \in 0..MaxClock
         /\ family \in Families
BY ProtocolsAssumption DEF IInv, TypeOK, RobotOK, Robots

\* The robot of a family keeps to what it can do.
LEMMA ObeyIs ==
  ASSUME NEW r \in Robots, NEW payload, clock \in 0..MaxClock
  PROVE  /\ Obey(r, payload) \in Robots
         /\ Obey(r, payload).cycle = r.cycle
<1>1. {"cleaning", "idle", "paused"} \subseteq Doings(family)
  BY DEF Doings
<1>2. CASE payload = "start"
  BY <1>1, <1>2 DEF Obey, Robots
<1>3. CASE payload = "stop"
  BY <1>1, <1>3 DEF Obey, Robots
<1>4. CASE payload = "pause"
  BY <1>1, <1>4 DEF Obey, Robots
<1>5. CASE payload = "dock"
  BY <1>1, <1>5 DEF Obey, Robots
<1>6. CASE payload \notin {"start", "stop", "pause", "dock"}
  BY <1>6 DEF Obey
<1> QED BY <1>2, <1>3, <1>4, <1>5, <1>6

\* A step after which nothing is known to have been read keeps what is said of readings.
LEMMA NothingRead ==
  ASSUME IInv, family' = family, order' = order, clock' = clock, read' = {},
         robot' \in Robots,
         vacuum' \in [activity : Activities, speed : Speeds],
         sensor' = sensor, asked' \in Speeds \cup {None}, SpeedsTakeEffect'
  PROVE  IInv'
<1>1. TypeOK'
  BY DEF IInv, TypeOK, Robots
<1>2. ActivityIsRead' /\ SpeedIsRead'
  BY DEF ActivityIsRead, SpeedIsRead
<1>3. RemainingIsRight'
  BY DEF RemainingIsRight, Parts
<1> QED BY <1>1, <1>2, <1>3 DEF IInv

\* The initial states, and the steps one by one.
LEMMA InitIs == Init => IInv
<1> SUFFICES ASSUME Init PROVE IInv
  OBVIOUS
<1>1. /\ 0 \in 0..3 /\ 0 \in 0..MaxStepper /\ 0 \in 0..MaxClock /\ 1 \in 1..MaxClock
      /\ FALSE \in BOOLEAN /\ "idle" \in Doings(family)
  BY ProtocolsAssumption DEF Doings
<1>2. robot \in Robots
  BY <1>1 DEF Init, Robots
<1>3. vacuum \in [activity : Activities, speed : Speeds]
  BY DEF Init, Activities, Speeds
<1>4. TypeOK
  BY <1>1, <1>2, <1>3 DEF Init, TypeOK, Robots
<1> QED
  BY <1>2, <1>4
  DEF Init, IInv, ActivityIsRead, SpeedsTakeEffect, SpeedIsRead, RemainingIsRight, Parts

LEMMA CommandKeeps == IInv /\ Command => IInv'
<1> SUFFICES ASSUME IInv, NEW c \in Commands, robot' = Obey(robot, Payload(family, c)),
                    read' = {}, UNCHANGED <<family, order, clock, vacuum, sensor, asked>>
             PROVE  IInv'
  BY DEF Command
<1>1. robot' \in Robots /\ robot'.cycle = robot.cycle
  BY RobotIsOK, ObeyIs
<1>2. SpeedsTakeEffect'
  BY <1>1 DEF IInv, SpeedsTakeEffect
<1>3. vacuum' \in [activity : Activities, speed : Speeds] /\ asked' \in Speeds \cup {None}
  BY DEF IInv, TypeOK
<1> QED BY <1>1, <1>2, <1>3, NothingRead

LEMMA SetSpeedKeeps == IInv /\ SetSpeed => IInv'
<1> SUFFICES ASSUME IInv, NEW s \in Offered(family), asked' = s,
                    robot' = IF s \in DOMAIN Codes(family)
                             THEN [robot EXCEPT !.cycle = Codes(family)[s]] ELSE robot,
                    vacuum' = [vacuum EXCEPT !.speed = s],
                    read' = {}, UNCHANGED <<family, order, clock, sensor>>
             PROVE  IInv'
  BY DEF SetSpeed
<1>1. robot \in Robots /\ family \in Families
  BY RobotIsOK
<1>2. s \in DOMAIN Codes(family) /\ s \in Speeds
  BY <1>1, OfferedHaveCodes
<1>3. Codes(family)[s] \in Cycles(family) /\ Runs(family, Codes(family)[s]) = s
  BY <1>1, <1>2, CodesRun DEF Cycles
<1>4. robot' \in Robots /\ robot'.cycle = Codes(family)[s]
  BY <1>1, <1>2, <1>3 DEF Robots
<1>5. SpeedsTakeEffect'
  BY <1>3, <1>4 DEF SpeedsTakeEffect
<1>6. vacuum' \in [activity : Activities, speed : Speeds]
  BY <1>2 DEF IInv, TypeOK
<1> QED BY <1>2, <1>4, <1>5, <1>6, NothingRead

LEMMA AdjustKeeps == IInv /\ Adjust => IInv'
<1> SUFFICES ASSUME IInv, NEW d \in {-1, 1}, NewStepper(family, robot, d) <= MaxStepper,
                    robot' = [robot EXCEPT !.stepper = NewStepper(family, robot, d)],
                    read' = {}, UNCHANGED <<family, order, clock, vacuum, sensor, asked>>
             PROVE  IInv'
  BY DEF Adjust
<1>1. robot \in Robots /\ MaxStepper \in Nat /\ robot.stepper \in Nat
  BY RobotIsOK, ProtocolsAssumption DEF Robots
<1>2. NewStepper(family, robot, d) \in 0..MaxStepper
  BY <1>1 DEF NewStepper
<1>3. robot' \in Robots /\ robot'.cycle = robot.cycle
  BY <1>1, <1>2 DEF Robots
<1>4. SpeedsTakeEffect'
  BY <1>3 DEF IInv, SpeedsTakeEffect
<1>5. vacuum' \in [activity : Activities, speed : Speeds] /\ asked' \in Speeds \cup {None}
  BY DEF IInv, TypeOK
<1> QED BY <1>3, <1>4, <1>5, NothingRead

LEMMA PollKeeps == IInv /\ Poll => IInv'
<1> SUFFICES
      ASSUME IInv,
             NEW parts \in {Parts} \cup {Parts \ {p} : p \in Parts \ {"robot"}} \cup {{}},
             vacuum' =
               CASE "robot" \notin parts -> vacuum
                 [] OTHER -> [activity |-> IF "state" \in parts THEN ActivityOf(family, robot)
                                           ELSE vacuum.activity,
                              speed |-> LET s == SpeedOf(family, robot, parts)
                                        IN  IF s = None THEN vacuum.speed ELSE s],
             sensor' = IF "robot" \in parts THEN TimeRemaining(family, robot, parts)
                       ELSE sensor,
             read' = parts, UNCHANGED <<family, robot, order, clock, asked>>
      PROVE  IInv'
  BY DEF Poll
<1>1. /\ RobotOK(family, robot) /\ family \in Families
      /\ clock \in 1..MaxClock /\ order \in Orders
  BY RobotIsOK
<1>2. parts \subseteq Parts /\ ("robot" \in parts \/ parts = {})
  BY DEF Parts
<1>3. /\ ActivityOf(family, robot) \in Activities
      /\ Legible /\ (Faulty(robot) => robot.error) =>
           ActivityOf(family, robot) = Meaning(family, robot)
  BY <1>1, ActivityIs DEF Readable, Legible
<1>4. vacuum.activity \in Activities /\ vacuum.speed \in Speeds
      /\ vacuum \in [activity : Activities, speed : Speeds]
  BY DEF IInv, TypeOK
<1> DEFINE speed == SpeedOf(family, robot, parts)
<1>5. /\ speed \in Speeds \cup {None}
      /\ /\ "cycle" \in parts /\ Legible /\ family \in {"vr", "cyclonext", "i2d"}
         /\ Runs(family, robot.cycle) # "custom"
         => speed # None /\ speed = Runs(family, robot.cycle)
  BY <1>1, SpeedIs DEF Readable, Legible
<1>6. ASSUME "robot" \in parts
      PROVE  vacuum' = [activity |-> IF "state" \in parts THEN ActivityOf(family, robot)
                                     ELSE vacuum.activity,
                        speed |-> IF speed = None THEN vacuum.speed ELSE speed]
  BY <1>6
<1> HIDE DEF speed
<1>7. vacuum' \in [activity : Activities, speed : Speeds]
  BY <1>2, <1>3, <1>4, <1>5, <1>6
<1>8. sensor' \in Nat
  BY <1>1, TimeRemainingIsNumber DEF IInv, TypeOK
<1>9. TypeOK'
  BY <1>2, <1>7, <1>8 DEF IInv, TypeOK
<1>10. ActivityIsRead'
  BY <1>2, <1>3, <1>6 DEF ActivityIsRead, Meaning, Legible, Faulty, Cleans
<1>11. SpeedIsRead'
  BY <1>2, <1>5, <1>6 DEF SpeedIsRead, Legible
<1>12. SpeedsTakeEffect'
  BY DEF IInv, SpeedsTakeEffect
<1>13. RemainingIsRight'
  <2> SUFFICES ASSUME parts = Parts, Legible, family \in {"vr", "vortrax", "cyclonext"},
                      Runs(family, robot.cycle) # "custom"
               PROVE  \/ TimeRemaining(family, robot, Parts) = Left(family, robot)
                      \/ family = "vortrax" /\ robot.stepper > 0
    <3>1. "robot" \in Parts
      BY DEF Parts
    <3>2. Left(family, robot)' = Left(family, robot)
      BY DEF Left, Duration
    <3> QED BY <3>1, <3>2 DEF RemainingIsRight, Legible
  <2> QED BY <1>1, TimeRemainingIs DEF Readable, Legible
<1> QED BY <1>9, <1>10, <1>11, <1>12, <1>13 DEF IInv

LEMMA PollOtherKeeps == IInv /\ PollOther => IInv'
<1> SUFFICES ASSUME IInv, PollOther PROVE IInv'
  OBVIOUS
<1>1. robot' \in Robots
  BY RobotIsOK DEF PollOther
<1>2. vacuum' \in [activity : Activities, speed : Speeds] /\ asked' \in Speeds \cup {None}
  BY DEF IInv, TypeOK, PollOther, Activities
<1>3. SpeedsTakeEffect'
  BY DEF IInv, SpeedsTakeEffect, PollOther
<1> QED BY <1>1, <1>2, <1>3, NothingRead DEF PollOther

LEMMA RobotChangesKeeps == IInv /\ RobotChanges => IInv'
<1> SUFFICES ASSUME IInv, RobotChanges PROVE IInv'
  OBVIOUS
<1>1. robot \in Robots /\ clock \in 0..MaxClock /\ family \in Families
  BY RobotIsOK
<1>2. robot' \in Robots /\ robot'.cycle = robot.cycle
  <2>1. ASSUME NEW d \in Doings(family),
               robot' = [robot EXCEPT !.doing = d,
                           !.start = IF d \in {"starting", "cleaning"} /\ ~Busy(robot)
                                     THEN clock ELSE @,
                           !.last = IF family = "cyclobat" /\ d = "idle" THEN robot.cycle ELSE @,
                           !.learned = @ \/ (d = "idle" /\ Busy(robot))]
        PROVE  robot' \in Robots /\ robot'.cycle = robot.cycle
    <3> DEFINE start == IF d \in {"starting", "cleaning"} /\ ~Busy(robot)
                        THEN clock ELSE robot.start
               last == IF family = "cyclobat" /\ d = "idle" THEN robot.cycle ELSE robot.last
               learned == robot.learned \/ (d = "idle" /\ Busy(robot))
    <3>1. start \in 0..MaxClock
      BY <1>1 DEF Robots
    <3>2. last \in 0..3
      BY <1>1, CyclesAre DEF Robots
    <3>3. learned \in BOOLEAN
      OBVIOUS
    <3>4. robot' = [robot EXCEPT !.doing = d, !.start = start, !.last = last, !.learned = learned]
      BY <2>1
    <3> HIDE DEF start, last, learned
    <3> QED BY <1>1, <3>1, <3>2, <3>3, <3>4 DEF Robots
  <2>2. ASSUME robot' = [robot EXCEPT !.full = ~@] \/ robot' = [robot EXCEPT !.error = ~@]
        PROVE  robot' \in Robots /\ robot'.cycle = robot.cycle
    BY <1>1, <2>2 DEF Robots
  <2> QED BY <2>1, <2>2 DEF RobotChanges
<1>3. SpeedsTakeEffect'
  BY <1>2 DEF IInv, SpeedsTakeEffect, RobotChanges
<1>4. vacuum' \in [activity : Activities, speed : Speeds] /\ asked' \in Speeds \cup {None}
  BY DEF IInv, TypeOK, RobotChanges
<1> QED BY <1>2, <1>3, <1>4, NothingRead DEF RobotChanges

LEMMA ModeChangesKeeps == IInv /\ ModeChanges => IInv'
<1> SUFFICES ASSUME IInv, ModeChanges PROVE IInv'
  OBVIOUS
<1>1. robot' \in Robots
  BY RobotIsOK DEF ModeChanges, Robots
<1>2. vacuum' \in [activity : Activities, speed : Speeds] /\ asked' \in Speeds \cup {None}
  BY DEF IInv, TypeOK, ModeChanges
<1>3. SpeedsTakeEffect'
  BY DEF SpeedsTakeEffect, ModeChanges
<1> QED BY <1>1, <1>2, <1>3, NothingRead DEF ModeChanges

LEMMA TimeChangesKeeps == IInv /\ TimeChanges => IInv'
<1> SUFFICES ASSUME IInv, NEW n \in 0..MaxStepper, robot' = [robot EXCEPT !.stepper = n],
                    read' = {}, UNCHANGED <<family, order, clock, vacuum, sensor, asked>>
             PROVE  IInv'
  BY DEF TimeChanges
<1>1. robot' \in Robots /\ robot'.cycle = robot.cycle
  BY RobotIsOK DEF Robots
<1>2. vacuum' \in [activity : Activities, speed : Speeds] /\ asked' \in Speeds \cup {None}
  BY DEF IInv, TypeOK
<1>3. SpeedsTakeEffect'
  BY <1>1 DEF IInv, SpeedsTakeEffect
<1> QED BY <1>1, <1>2, <1>3, NothingRead

\* Time passes: what the last poll found of the time is no longer so.
LEMMA ElapseKeeps == IInv /\ Elapse => IInv'
<1> SUFFICES ASSUME IInv, Elapse PROVE IInv'
  OBVIOUS
<1>1. clock' \in 1..MaxClock
  BY RobotIsOK, ProtocolsAssumption DEF Elapse
<1>2. TypeOK'
  BY <1>1 DEF IInv, TypeOK, Elapse
<1>3. ActivityIsRead' /\ SpeedIsRead' /\ SpeedsTakeEffect'
  BY DEF IInv, ActivityIsRead, SpeedIsRead, SpeedsTakeEffect, Meaning, Legible, Faulty,
         Cleans, Elapse
<1>4. RemainingIsRight'
  BY DEF RemainingIsRight, Parts, Elapse
<1> QED BY <1>2, <1>3, <1>4 DEF IInv

LEMMA Stutter == IInv /\ UNCHANGED vars => IInv'
<1> SUFFICES ASSUME IInv, UNCHANGED vars PROVE IInv'
  OBVIOUS
<1>1. TypeOK' /\ ActivityIsRead' /\ SpeedIsRead' /\ SpeedsTakeEffect'
  BY DEF IInv, TypeOK, ActivityIsRead, SpeedIsRead, SpeedsTakeEffect, Meaning, Legible,
         Faulty, Cleans, vars
<1>2. Left(family, robot)' = Left(family, robot)
  BY DEF Left, Duration, vars
<1>3. RemainingIsRight'
  BY <1>2 DEF IInv, RemainingIsRight, Legible, vars
<1> QED BY <1>1, <1>3 DEF IInv

\* The invariant holds of every behaviour.
LEMMA Invariance == Spec => []IInv
<1>1. IInv /\ [Next]_vars => IInv'
  BY CommandKeeps, SetSpeedKeeps, AdjustKeeps, PollKeeps, PollOtherKeeps,
     RobotChangesKeeps, ModeChangesKeeps, TimeChangesKeeps, ElapseKeeps, Stutter DEF Next
<1> QED BY <1>1, InitIs, PTL DEF Spec

\* Types: what is shown is an activity and a mode that exist, and a time that is a
\* number, for every cycle and every order of the list.
THEOREM TypeCorrect == Spec => []TypeOK
<1>1. IInv => TypeOK
  BY DEF IInv
<1> QED BY <1>1, Invariance, PTL

\* A poll that finds the state shows what the robot does, for each of the five parsers
\* and each state they know: of cyclonext for numbers and strings, of the others for
\* numbers only, and of i2d not for the error states whose error byte is 0
\* (parse_status of protocols/, _coerce_cloud_int).
THEOREM ActivityIsWhatTheRobotDoes == Spec => []ActivityIsRead
<1>1. IInv => ActivityIsRead
  BY DEF IInv
<1> QED BY <1>1, Invariance, PTL

\* What the user asks for is what the robot then runs in (set_fan_speed and
\* fan_speed_codes of protocols/, _FAN_SPEEDS_BY_DEVICE_TYPE).
THEOREM ChosenModeRuns == Spec => []SpeedsTakeEffect
<1>1. IInv => SpeedsTakeEffect
  BY DEF IInv
<1> QED BY <1>1, Invariance, PTL

\* The mode on display is the one that runs, if it has a name: of cyclonext for numbers
\* and strings, of vr for numbers only (parse_status of vr, cyclonext and i2d).
THEOREM ModeOnDisplayRuns == Spec => []SpeedIsRead
<1>1. IInv => SpeedIsRead
  BY DEF IInv
<1> QED BY <1>1, Invariance, PTL

\* The remaining time does not depend on the order in which the cloud lists the
\* durations, nor on how long they are, nor for cyclonext on how the cycle is written
\* (resolve_cycle_duration, calculate_times).  Of vortrax without the extra time, which
\* its parser leaves out, and of vr and vortrax for numbers only.
THEOREM TimeIsThatOfTheCycle == Spec => []RemainingIsRight
<1>1. IInv => RemainingIsRight
  BY DEF IInv
<1> QED BY <1>1, Invariance, PTL

-----------------------------------------------------------------------------
(* ModelLookup, for the modes of some family.                              *)

\* A name is known only while no attempt counts: a fetch that fails next to the one
\* that succeeded is never the last of the attempts.
NamedMeansReset == (model \in Names) => attempts = 0

\* What was heard of the features is what the robot advertises, and is used.
FeaturesAreHeard == heard => features = advertised
InformedIsNarrowed == source = "informed" => offered = Narrowed(advertised)

LookupInv == LookupTypeOK /\ NamedMeansReset /\ FeaturesAreHeard /\ InformedIsNarrowed

\* Narrowing leaves a part of the family's speeds, and never none of them: an
\* empty fan_speed_list would strip fan-speed support entirely
\* (_narrow_fan_speeds_to_features).
LEMMA NarrowedIsAChoice ==
  ASSUME NEW f
  PROVE  Narrowed(f) \in (SUBSET Modes) \ {{}}
BY ModelLookupAssumption DEF ModelLookupAssumption, Narrowed

\* What a publication shows, for a fetch that knows the features it knew before or
\* has learned what the robot advertises.
LEMMA PublishKeeps ==
  ASSUME LookupInv, NEW f \in Fetches, Publish(f),
         advertised' = advertised, heard' \in BOOLEAN, heard' => features' = advertised
  PROVE  /\ offered' \in (SUBSET Modes) \ {{}}
         /\ source' \in {Unset, "poll", "informed", "degraded", "push"}
         /\ InformedIsNarrowed'
<1>1. CASE UNCHANGED entity
  BY <1>1 DEF entity, LookupInv, LookupTypeOK, InformedIsNarrowed, Narrowed
<1>2. CASE offered' = Narrowed(features') /\ source' = IF heard' THEN "informed" ELSE "poll"
  BY <1>2, NarrowedIsAChoice DEF InformedIsNarrowed, Narrowed
<1>3. CASE UNCHANGED offered /\ source' = "degraded"
  BY <1>3 DEF LookupInv, LookupTypeOK, InformedIsNarrowed
<1> QED BY <1>1, <1>2, <1>3 DEF Publish

\* Without any attempt made, there is one left.
LEMMA SomeAttempts == 0 \in 0..MaxAttempts /\ ~(0 >= MaxAttempts)
<1>1. MaxAttempts \in Nat \ {0}
  BY ModelLookupAssumption DEF ModelLookupAssumption
<1> QED BY <1>1

\* The initial states.
LEMMA InitLookup == LookupInit => LookupInv
<1> SUFFICES ASSUME LookupInit PROVE LookupInv
  OBVIOUS
<1>1. offered \in (SUBSET Modes) \ {{}}
  BY ModelLookupAssumption DEF LookupInit, ModelLookupAssumption
<1>2. advertised \subseteq Gated \cup {Other} /\ features \in {{}, advertised}
  BY DEF LookupInit
<1>3. attempts \in 0..MaxAttempts
  BY ModelLookupAssumption DEF LookupInit, ModelLookupAssumption
<1>4. pc \in [Fetches -> {"idle", "asking", "resolving"}]
  BY DEF LookupInit
<1>5. LookupTypeOK
  BY <1>1, <1>2, <1>3, <1>4 DEF LookupInit, LookupTypeOK
<1> QED
  BY <1>5, ModelLookupAssumption
  DEF LookupInit, LookupInv, NamedMeansReset, FeaturesAreHeard, InformedIsNarrowed,
      ModelLookupAssumption, Unset

\* The steps, one by one.
LEMMA StepLookup == LookupInv /\ [LookupNext]_lookupVars => LookupInv'
<1> USE ModelLookupAssumption DEF ModelLookupAssumption
<1> SUFFICES ASSUME LookupInv, [LookupNext]_lookupVars PROVE LookupInv'
  OBVIOUS
<1>1. ASSUME NEW f \in Fetches, FetchKnown(f) PROVE LookupInv'
  <2>1. /\ UNCHANGED <<advertised, model, features, attempts, rested, pc, heard>>
        /\ Publish(f)
    BY <1>1 DEF FetchKnown, lookup
  <2>2. /\ offered' \in (SUBSET Modes) \ {{}}
        /\ source' \in {Unset, "poll", "informed", "degraded", "push"}
        /\ InformedIsNarrowed'
    BY <2>1, PublishKeeps DEF LookupInv, LookupTypeOK, FeaturesAreHeard
  <2> QED
    BY <2>1, <2>2 DEF LookupInv, LookupTypeOK, NamedMeansReset, FeaturesAreHeard
<1>2. ASSUME NEW f \in Fetches, Skip(f) PROVE LookupInv'
  <2>1. /\ UNCHANGED <<advertised, features, attempts, rested, heard>>
        /\ model' = "Unknown" /\ pc' = [pc EXCEPT ![f] = "idle"] /\ Publish(f)
    BY <1>2 DEF Skip, Store
  <2>2. /\ offered' \in (SUBSET Modes) \ {{}}
        /\ source' \in {Unset, "poll", "informed", "degraded", "push"}
        /\ InformedIsNarrowed'
    BY <2>1, PublishKeeps DEF LookupInv, LookupTypeOK, FeaturesAreHeard
  <2> QED
    BY <2>1, <2>2 DEF LookupInv, LookupTypeOK, NamedMeansReset, FeaturesAreHeard, Placeholders
<1>3. ASSUME NEW f \in Fetches, Ask(f) PROVE LookupInv'
  <2>1. attempts' \in 0..MaxAttempts
    BY <1>3 DEF Ask, ShouldRetry, LookupInv, LookupTypeOK
  <2>2. model \notin Names
    BY <1>3 DEF Ask
  <2> QED
    BY <1>3, <2>1, <2>2
    DEF Ask, LookupInv, LookupTypeOK, NamedMeansReset, FeaturesAreHeard, InformedIsNarrowed,
        Narrowed, entity
<1>4. ASSUME NEW f \in Fetches, NEW name \in Names \cup {"Not Supported"},
             Succeeded(f, name), advertised' = advertised, heard' \in BOOLEAN,
             features' \in {{}, advertised}, heard' => features' = advertised
      PROVE  LookupInv'
  <2>1. /\ model' = name /\ pc' = [pc EXCEPT ![f] = "idle"] /\ Publish(f)
        /\ attempts' = 0 /\ rested' = rested
    BY <1>4 DEF Succeeded, Store
  <2>2. /\ offered' \in (SUBSET Modes) \ {{}}
        /\ source' \in {Unset, "poll", "informed", "degraded", "push"}
        /\ InformedIsNarrowed'
    BY <1>4, <2>1, PublishKeeps
  <2>3. pc' \in [Fetches -> {"idle", "asking", "resolving"}]
    BY <2>1 DEF LookupInv, LookupTypeOK
  <2>4. model' \in Names \cup Placeholders \cup {Unset}
    BY <2>1 DEF Placeholders
  <2>7. attempts' \in 0..MaxAttempts
    BY SomeAttempts, <2>1
  <2>5. advertised' \subseteq Gated \cup {Other} /\ features' \in {{}, advertised'}
        /\ rested' \in BOOLEAN
    BY <1>4, <2>1 DEF LookupInv, LookupTypeOK
  <2>6. NamedMeansReset' /\ FeaturesAreHeard'
    BY <1>4, <2>1 DEF NamedMeansReset, FeaturesAreHeard
  <2> QED
    BY <1>4, <2>2, <2>3, <2>4, <2>5, <2>6, <2>7 DEF LookupInv, LookupTypeOK
<1>5. ASSUME NEW f \in Fetches,
             Failed(f), advertised' = advertised, heard' \in BOOLEAN,
             features' \in {{}, advertised}, heard' => features' = advertised
      PROVE  LookupInv'
  <2>1. /\ model' \in {"Unknown", model} \ {Unset}
        /\ pc' = [pc EXCEPT ![f] = "idle"] /\ Publish(f)
        /\ attempts' = attempts /\ rested' = rested
    BY <1>5 DEF Failed, Store, Unset
  <2>2. /\ offered' \in (SUBSET Modes) \ {{}}
        /\ source' \in {Unset, "poll", "informed", "degraded", "push"}
        /\ InformedIsNarrowed'
    BY <1>5, <2>1, PublishKeeps
  <2> QED
    BY <1>5, <2>1, <2>2
    DEF LookupInv, LookupTypeOK, NamedMeansReset, FeaturesAreHeard, Placeholders
<1>6. ASSUME NEW f \in Fetches, Answered(f) PROVE LookupInv'
  <2>1. PICK outcome \in Outcomes, lists \in BOOLEAN, name \in Names :
          /\ Learn(lists, outcome)
          /\ \/ Succeeded(f, name)
             \/ Succeeded(f, "Not Supported")
             \/ Failed(f)
             \/ /\ pc' = [pc EXCEPT ![f] = "resolving"]
                /\ UNCHANGED <<model, attempts, rested, entity>>
    BY <1>6 DEF Answered
  <2>2. /\ advertised' = advertised /\ heard' \in BOOLEAN
        /\ features' \in {{}, advertised} /\ (heard' => features' = advertised)
    BY <1>6, <2>1 DEF Answered, Learn, LookupInv, LookupTypeOK, FeaturesAreHeard
  <2>3. CASE /\ pc' = [pc EXCEPT ![f] = "resolving"]
             /\ UNCHANGED <<model, attempts, rested, entity>>
    <3>1. pc' \in [Fetches -> {"idle", "asking", "resolving"}]
      BY <2>3 DEF LookupInv, LookupTypeOK
    <3>2. advertised' \subseteq Gated \cup {Other}
      BY <2>2 DEF LookupInv, LookupTypeOK
    <3>4. features' \in {{}, advertised'}
      BY <2>2
    <3>3. NamedMeansReset' /\ FeaturesAreHeard' /\ InformedIsNarrowed'
      BY <2>2, <2>3
      DEF LookupInv, NamedMeansReset, FeaturesAreHeard, InformedIsNarrowed, Narrowed, entity
    <3> QED
      BY <2>2, <2>3, <3>1, <3>2, <3>3, <3>4 DEF LookupInv, LookupTypeOK, entity
  <2>4. CASE Succeeded(f, name)
    BY <2>2, <2>4, <1>4
  <2>5. CASE Succeeded(f, "Not Supported")
    BY <2>2, <2>5, <1>4
  <2>6. CASE Failed(f)
    BY <2>2, <2>6, <1>5
  <2> QED BY <2>1, <2>3, <2>4, <2>5, <2>6
<1>7. ASSUME NEW f \in Fetches, Resolved(f) PROVE LookupInv'
  <2>1. /\ advertised' = advertised /\ heard' \in BOOLEAN
        /\ features' \in {{}, advertised} /\ (heard' => features' = advertised)
    BY <1>7 DEF Resolved, LookupInv, LookupTypeOK, FeaturesAreHeard
  <2>2. CASE Failed(f)
    BY <2>1, <2>2, <1>5
  <2>3. ASSUME NEW name \in Names, Succeeded(f, name) PROVE LookupInv'
    BY <2>1, <2>3, <1>4
  <2> QED BY <1>7, <2>2, <2>3 DEF Resolved
<1>8. ASSUME NEW f \in Fetches, Cancel(f) PROVE LookupInv'
  BY <1>8
  DEF Cancel, LookupInv, LookupTypeOK, NamedMeansReset, FeaturesAreHeard, InformedIsNarrowed,
      Narrowed, lookup, entity
<1>9. CASE Push
  BY <1>9, NarrowedIsAChoice
  DEF Push, LookupInv, LookupTypeOK, NamedMeansReset, FeaturesAreHeard, InformedIsNarrowed,
      lookup
<1>10. CASE Rest
  BY <1>10
  DEF Rest, LookupInv, LookupTypeOK, NamedMeansReset, FeaturesAreHeard, InformedIsNarrowed,
      Narrowed, entity
<1>11. CASE UNCHANGED lookupVars
  BY <1>11
  DEF lookupVars, LookupInv, LookupTypeOK, NamedMeansReset, FeaturesAreHeard, InformedIsNarrowed,
      Narrowed, lookup, entity
<1> QED
  BY <1>1, <1>2, <1>3, <1>6, <1>7, <1>8, <1>9, <1>10, <1>11 DEF LookupNext, Fetch

\* The strengthened invariant holds of every behaviour.
THEOREM LookupInvariant == LookupSpec => []LookupInv
BY InitLookup, StepLookup, PTL DEF LookupSpec

\* Types, and with them: the attempts stay within max_attempts and the list of
\* speeds is never empty.
THEOREM LookupTypes == LookupSpec => []LookupTypeOK
<1>1. LookupInv => LookupTypeOK
  BY DEF LookupInv
<1> QED BY <1>1, LookupInvariant, PTL

\* Once the features are known a refresh offers what the robot advertises, for
\* every family and every set of features (_narrow_fan_speeds_to_features).
THEOREM RefreshesNarrow == LookupSpec => []PolledSpeedsAreAdvertised
<1>1. LookupInv => PolledSpeedsAreAdvertised
  BY ModelLookupAssumption
  DEF LookupInv, LookupTypeOK, InformedIsNarrowed, PolledSpeedsAreAdvertised, Narrowed,
      ModelLookupAssumption
<1> QED BY <1>1, LookupInvariant, PTL

\* A failed lookup never takes a model away that another one has found
\* (_handle_model_fetch_failure).
THEOREM ModelIsKept == LookupSpec => KnownModelStays
<1> DEFINE Kept == (model \in Names) => (model' # "Unknown")
<1>1. LookupInv /\ [LookupNext]_lookupVars => [Kept]_lookupVars
  <2> USE ModelLookupAssumption DEF ModelLookupAssumption, Placeholders
  <2> SUFFICES ASSUME LookupInv, LookupNext, model \in Names PROVE model' # "Unknown"
    OBVIOUS
  <2>1. model # Unset /\ model # "Unknown" /\ attempts = 0 /\ ~(attempts >= MaxAttempts)
    <3>1. model # Unset /\ model # "Unknown"
      OBVIOUS
    <3>2. attempts = 0
      BY DEF LookupInv, NamedMeansReset
    <3> QED BY <3>1, <3>2, SomeAttempts
  <2>2. ASSUME NEW f \in Fetches, Failed(f) PROVE model' # "Unknown"
    BY <2>1, <2>2 DEF Failed, Store
  <2>3. ASSUME NEW f \in Fetches, NEW name \in Names \cup {"Not Supported"}, Succeeded(f, name)
        PROVE  model' # "Unknown"
    BY <2>3 DEF Succeeded, Store
  <2>4. ASSUME NEW f \in Fetches, Fetch(f) PROVE model' # "Unknown"
    <3>1. CASE FetchKnown(f)
      BY <3>1, <2>1 DEF FetchKnown, lookup
    <3>2. ~Skip(f) /\ ~Ask(f)
      BY <2>1 DEF Skip, Ask
    <3>3. CASE Answered(f)
      BY <3>3, <2>1, <2>2, <2>3 DEF Answered
    <3>4. CASE Resolved(f)
      BY <3>4, <2>2, <2>3 DEF Resolved
    <3> QED BY <2>4, <3>1, <3>2, <3>3, <3>4 DEF Fetch
  <2>5. ASSUME NEW f \in Fetches, Cancel(f) PROVE model' # "Unknown"
    BY <2>1, <2>5 DEF Cancel, lookup
  <2>6. (Push \/ Rest) => model' # "Unknown"
    BY <2>1 DEF Push, Rest, lookup
  <2> QED BY <2>4, <2>5, <2>6 DEF LookupNext
<1> QED BY <1>1, LookupInvariant, PTL DEF LookupSpec, KnownModelStays

\* Whatever is narrowed, each mode that the vacuum offers has a code, with which a
\* robot of the family runs in that mode: no choice of a user is dropped.
THEOREM OfferedModesRun ==
  ASSUME NEW CONSTANT f, f \in Families, Modes = Offered(f)
  PROVE  LookupSpec => [](\A s \in offered : s \in DOMAIN Codes(f) /\ Runs(f, Codes(f)[s]) = s)
<1> DEFINE Works == \A s \in offered : s \in DOMAIN Codes(f) /\ Runs(f, Codes(f)[s]) = s
<1>1. LookupInv => Works
  <2> SUFFICES ASSUME LookupInv, NEW s \in offered
               PROVE  s \in DOMAIN Codes(f) /\ Runs(f, Codes(f)[s]) = s
    OBVIOUS
  <2>1. s \in Offered(f)
    BY DEF LookupInv, LookupTypeOK
  <2> QED BY <2>1, OfferedHaveCodes, CodesRun
<1> QED BY <1>1, LookupInvariant, PTL

=============================================================================
