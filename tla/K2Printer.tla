------------------------------ MODULE K2Printer ------------------------------
(***************************************************************************)
(* The driver of a Creality K2 (v3/bingo/node/k2.py) and its printer: a    *)
(* job uploads its file and prints its units one after the other; each is  *)
(* started over HTTP and then watched by polling, while people at the      *)
(* printer's panel cancel prints and start others.                         *)
(*                                                                         *)
(* Starting a file sets the printer's state back before the request is     *)
(* answered (Klipper's set_current_file), and is refused while it prints.  *)
(* Progress is in steps; a TELEMETRY event is worth MinDelta of them, while *)
(* a frame is taken of every milestone that a poll has come to.            *)
(***************************************************************************)
EXTENDS Integers, Sequences

CONSTANTS JobUnits,    \* the units of a job
          Steps,       \* steps of progress of a print
          MinDelta,    \* steps between two events, TELEMETRY_MIN_DELTA
          Milestones,  \* steps at which a frame is taken, FRAME_MILESTONES
          MaxPrints    \* bound: prints started at the printer

ASSUME PrinterAssumption ==
    /\ JobUnits \in Nat \ {0} /\ Steps \in Nat /\ MaxPrints \in Nat
    /\ MinDelta \in 1 .. Steps
    /\ Milestones \in Seq(0 .. (Steps - 1))
    /\ \A i, j \in DOMAIN Milestones : i < j => Milestones[i] < Milestones[j]

VARIABLES printer,   \* its state, its progress and the prints it began
          finished,  \* history: the prints it finished
          driver,    \* where run_unit is and its locals, see Idle
          evidence,  \* what was observed of the unit
          claims     \* UNIT_COMPLETE of the job: prints finished before and at it

printerVars == <<printer, finished, driver, evidence, claims>>

\* The unit, last_reported (-1.0 at first), the milestones taken, the progress and the end that
\* the last poll saw, and (history) the prints finished before it.
Idle == [at |-> "idle", unit |-> 0, reported |-> -Steps, taken |-> 0,
         seen |-> 0, done |-> FALSE, before |-> 0]

PrinterInit ==
    /\ printer = [state |-> "standby", progress |-> 0, prints |-> 0]
    /\ finished = 0
    /\ driver = Idle /\ evidence = <<>> /\ claims = <<>>

DriverStays == UNCHANGED <<driver, evidence, claims>>

-----------------------------------------------------------------------------
\* The printer, and the people at its panel.
Begun == [state |-> "standby", progress |-> 0, prints |-> printer.prints + 1]

PrintOn ==
    /\ printer.state \in {"standby", "printing"} /\ printer.prints > 0
    /\ printer.progress < Steps
    /\ printer' = [printer EXCEPT !.state = "printing", !.progress = @ + 1]
    /\ UNCHANGED finished /\ DriverStays

Finish ==
    /\ printer.state = "printing" /\ printer.progress = Steps
    /\ printer' = [printer EXCEPT !.state = "complete"]
    /\ finished' = finished + 1
    /\ DriverStays

Spoil ==
    /\ printer.state = "printing"
    /\ \E state \in {"error", "cancelled"} : printer' = [printer EXCEPT !.state = state]
    /\ UNCHANGED finished /\ DriverStays

StartAtPanel ==
    /\ printer.state # "printing" /\ printer.prints < MaxPrints
    /\ printer' = Begun
    /\ UNCHANGED finished /\ DriverStays

-----------------------------------------------------------------------------
\* A K2Error, or the operator interrupts: the job is given up.
Halted == driver' = Idle /\ UNCHANGED <<evidence, claims>>

\* prepare: the printer is ready and takes the file.
PrepareFile ==
    /\ driver.at = "idle"
    /\ driver' = [Idle EXCEPT !.at = "start", !.unit = 1]
    /\ claims' = <<>> /\ evidence' = <<>>
    /\ UNCHANGED <<printer, finished>>

\* print/start is answered.
StartUnit ==
    /\ driver.at = "start"
    /\ printer.state # "printing" /\ printer.prints < MaxPrints
    /\ printer' = Begun
    /\ driver' = [Idle EXCEPT !.at = "poll", !.unit = driver.unit, !.before = finished]
    /\ evidence' = <<>>
    /\ UNCHANGED <<finished, claims>>

\* It is refused, or it is lost, or only its answer is.
StartFails ==
    /\ driver.at = "start"
    /\ \/ UNCHANGED printer
       \/ printer.state # "printing" /\ printer.prints < MaxPrints /\ printer' = Begun
    /\ Halted
    /\ UNCHANGED finished

\* No answer to a poll, the unit took longer than its guard, or an interrupt.
PollFails ==
    /\ driver.at \in {"poll", "frames"}
    /\ Halted
    /\ UNCHANGED <<printer, finished>>

PollSpoilt ==
    /\ driver.at = "poll"
    /\ printer.state \in {"error", "cancelled"}
    /\ Halted
    /\ UNCHANGED <<printer, finished>>

\* A poll is told of when the print has moved on by enough, or is over.
Complete == printer.state = "complete"
Told == printer.progress - driver.reported >= MinDelta \/ Complete

Poll ==
    /\ driver.at = "poll"
    /\ printer.state \in {"standby", "printing", "complete"}
    /\ driver' = [driver EXCEPT !.at = "frames", !.seen = printer.progress,
                                !.done = Complete,
                                !.reported = IF Told THEN printer.progress ELSE @]
    /\ evidence' = IF Told THEN Append(evidence, [type |-> "TELEMETRY",
                                                  at |-> printer.progress])
                   ELSE evidence
    /\ UNCHANGED <<printer, finished, claims>>

\* _capture: nothing is yielded while the camera is down.
Captured(progress, camera) ==
    IF camera THEN Append(evidence, [type |-> "FRAME", at |-> progress]) ELSE evidence

\* The printer goes on while a frame is taken of each milestone that the poll
\* has come to.
Reached ==
    /\ driver.taken < Len(Milestones)
    /\ Milestones[driver.taken + 1] <= driver.seen

TakeFrame(camera) ==
    /\ driver.at = "frames" /\ Reached
    /\ evidence' = Captured(Milestones[driver.taken + 1], camera)
    /\ driver' = [driver EXCEPT !.taken = @ + 1]
    /\ UNCHANGED <<printer, finished, claims>>

PollAgain ==
    /\ driver.at = "frames" /\ ~Reached /\ ~driver.done
    /\ driver' = [driver EXCEPT !.at = "poll"]
    /\ UNCHANGED <<printer, finished, evidence, claims>>

Claim == [before |-> driver.before, after |-> finished]

\* A unit that is reported once more by the next poll.
BugClaimUnit(camera) ==
    /\ driver.at = "frames" /\ ~Reached /\ driver.done /\ Len(claims) < JobUnits
    /\ evidence' = Captured(Steps, camera)
    /\ claims' = Append(claims, Claim)
    /\ driver' = [driver EXCEPT !.at = "poll"]
    /\ UNCHANGED <<printer, finished>>

\* run_unit returns, and fabricate goes on with the next unit.
ClaimUnit(camera) ==
    /\ driver.at = "frames" /\ ~Reached /\ driver.done
    /\ evidence' = Captured(Steps, camera)
    /\ claims' = Append(claims, Claim)
    /\ driver' = IF driver.unit = JobUnits THEN Idle
                 ELSE [Idle EXCEPT !.at = "start", !.unit = driver.unit + 1]
    /\ UNCHANGED <<printer, finished>>

PrinterNext ==
    \/ PrintOn \/ Finish \/ Spoil \/ StartAtPanel
    \/ PrepareFile \/ StartUnit \/ StartFails \/ PollFails \/ PollSpoilt
    \/ Poll \/ PollAgain
    \/ \E camera \in BOOLEAN : TakeFrame(camera) \/ ClaimUnit(camera)

PrinterSpec == PrinterInit /\ [][PrinterNext]_printerVars

-----------------------------------------------------------------------------
\* Every unit a job claims is a print of its own, begun after the unit before
\* was claimed and run to its end, whatever was lost, cancelled or started at
\* the panel in between; and its frames are in the order of the milestones, each
\* after a TELEMETRY that was less than the reporting threshold short of it
\* (k2.py:199-232).
UnitsArePrinted ==
    /\ \A i \in DOMAIN claims :
          /\ claims[i].before < claims[i].after
          /\ i > 1 => claims[i - 1].after <= claims[i].before
    /\ \A i \in DOMAIN evidence : evidence[i].type = "FRAME" =>
          /\ \A n \in 1 .. (i - 1) :
                evidence[n].type = "FRAME" => evidence[n].at < evidence[i].at
          /\ \E n \in 1 .. (i - 1) :
                /\ evidence[n].type = "TELEMETRY"
                /\ evidence[i].at - evidence[n].at < MinDelta
=============================================================================
