------------------------- MODULE SwitchSourceProofs -------------------------
(* Theorems of SwitchSource, for every set of receivers and sources and     *)
(* every bound.                                                            *)
EXTENDS SwitchSource, TLAPS

USE SwitchAssumption

\* Only a request that names a receiver and a source has a job.
LEMMA Launched ==
  ASSUME IInv, NEW q \in Id, phase[q] # "none"
  PROVE  target[q] \in [receiver : Receiver, source : Source]
<1>1. status[q] # "none"
  BY DEF IInv, JobOf
<1>2. pc[q] # "unborn"
  BY <1>1 DEF IInv, Driven
<1> QED BY <1>2 DEF IInv, Driven

\* What a step leaves alone.
LEMMA ClusterStill ==
  ASSUME IInv, UNCHANGED <<target, cluster>>
  PROVE  PlayReports'
  BY DEF IInv, PlayReports, cluster

LEMMA StatusStill ==
  ASSUME IInv, UNCHANGED <<target, status>>
  PROVE  OneSwitch'
  BY DEF IInv, OneSwitch

LEMMA ConsoleStill ==
  ASSUME IInv, UNCHANGED console
  PROVE  Driven' /\ OneSwitch'
  BY DEF IInv, Driven, OneSwitch, console

\* While a job is alive its command claims nothing of it, so that a step of
\* the job belies nobody.
LEMMA CopyStill ==
  ASSUME IInv, NEW q \in Id, phase[q] \in LiveJob, UNCHANGED console,
         \A p \in Id \ {q} : /\ phase'[p] = phase[p]
                             /\ found'[p] = found[p]
                             /\ wrote'[p] = wrote[p]
  PROVE  CopyHonest'
<1>1. status[q] \in {"active", "failed"} =>
        status[q] = "failed" /\ Claim(outcome[q]) = "unsure"
  BY DEF IInv, CopyHonest
<1> QED BY ZenonT(60), <1>1 DEF IInv, CopyHonest, console

\* A request moves on.  Only Dispatch starts a command, and it has seen that
\* the receiver has none under way.
LEMMA AsksStep ==
  ASSUME IInv, NEW q \in Id, Asks(q)
  PROVE  IInv'
<1>1. ASSUME NEW r \in Receiver, NEW s \in Source, SwitchArrives(q, r, s)
     PROVE  IInv'
  <2>1. TypeOK'
    BY <1>1 DEF IInv, TypeOK, Request, Place, Driving, SwitchArrives,
        Moves, cluster
  <2>2. Driven'
    BY <1>1 DEF IInv, TypeOK, Driven, Driving, SwitchArrives, Moves,
        cluster
  <2>3. OneSwitch'
    BY <1>1 DEF IInv, TypeOK, OneSwitch, Driven, SwitchArrives, Moves,
        cluster
  <2>4. JobOf'
    BY <1>1 DEF IInv, TypeOK, JobOf, Driven, MayLive, LiveJob, Changing,
        Driving, SwitchArrives, Moves, cluster
  <2>5. PlayReports'
    BY <1>1 DEF IInv, TypeOK, PlayReports, Driven, JobOf, Changing,
        SwitchArrives, Moves, cluster
  <2>6. CopyHonest'
    BY ZenonT(60), <1>1 DEF IInv, TypeOK, CopyHonest, Driven, Driving, JobOf,
        LiveJob, Changing, SwitchArrives, Moves, cluster
  <2> QED BY <2>1, <2>2, <2>3, <2>4, <2>5, <2>6 DEF IInv
<1>2. ASSUME SidecarAnswers(q) PROVE IInv'
  <2>1. TypeOK'
    BY <1>2 DEF IInv, TypeOK, Driven, Place, Driving, SidecarAnswers,
        Moves, cluster
  <2>2. Driven'
    BY <1>2 DEF IInv, TypeOK, Driven, Driving, SidecarAnswers, Moves,
        cluster
  <2>3. OneSwitch'
    BY <1>2, StatusStill DEF SidecarAnswers
  <2>4. JobOf'
    BY <1>2 DEF IInv, TypeOK, JobOf, Driven, MayLive, LiveJob, Changing,
        Driving, SidecarAnswers, Moves, cluster
  <2>5. PlayReports'
    BY <1>2, ClusterStill DEF SidecarAnswers, cluster
  <2>6. CopyHonest'
    BY <1>2 DEF IInv, TypeOK, CopyHonest, Driven, Driving, JobOf,
        LiveJob, Changing, SidecarAnswers, Moves, cluster
  <2> QED BY <2>1, <2>2, <2>3, <2>4, <2>5, <2>6 DEF IInv
<1>3. ASSUME AnsweredAtOnce(q) PROVE IInv'
  <2>1. TypeOK'
    BY <1>3 DEF IInv, TypeOK, Place, Driving, AnsweredAtOnce, Moves,
        cluster
  <2>2. Driven'
    BY <1>3 DEF IInv, TypeOK, Driven, Driving, AnsweredAtOnce, Moves,
        cluster
  <2>3. OneSwitch'
    BY <1>3, StatusStill DEF AnsweredAtOnce
  <2>4. JobOf'
    BY <1>3 DEF IInv, TypeOK, JobOf, Driven, MayLive, LiveJob, Changing,
        Driving, AnsweredAtOnce, Moves, cluster
  <2>5. PlayReports'
    BY <1>3, ClusterStill DEF AnsweredAtOnce, cluster
  <2>6. CopyHonest'
    BY <1>3 DEF IInv, TypeOK, CopyHonest, Driven, Driving, JobOf,
        LiveJob, Changing, AnsweredAtOnce, Moves, cluster
  <2> QED BY <2>1, <2>2, <2>3, <2>4, <2>5, <2>6 DEF IInv
<1>4. ASSUME Dispatch(q) PROVE IInv'
  <2>1. TypeOK'
    BY <1>4 DEF IInv, TypeOK, Place, Driving, Status, Outcome, Event,
        Dispatch, Moves, cluster
  <2>2. Driven'
    BY <1>4 DEF IInv, TypeOK, Driven, Driving, Dispatch, Moves, cluster
  <2>3. OneSwitch'
    BY <1>4 DEF IInv, TypeOK, OneSwitch, Driven, FindActive, Dispatch,
        Moves, cluster
  <2>4. JobOf'
    BY <1>4 DEF IInv, TypeOK, JobOf, Driven, MayLive, LiveJob, Changing,
        Driving, Claim, ReadOnly, Dispatch, Moves, cluster
  <2>5. PlayReports'
    BY <1>4, ClusterStill DEF Dispatch, cluster
  <2>6. CopyHonest'
    BY <1>4 DEF IInv, TypeOK, CopyHonest, Driven, Driving, JobOf,
        LiveJob, Changing, Claim, ReadOnly, PlayReports, Dispatch,
        Moves, cluster
  <2> QED BY <2>1, <2>2, <2>3, <2>4, <2>5, <2>6 DEF IInv
<1> QED BY <1>1, <1>2, <1>3, <1>4 DEF Asks

\* An actuator moves on: it ends its command only with an outcome that its
\* job bears out.
LEMMA ActuatesStep ==
  ASSUME IInv, NEW q \in Id, Actuates(q)
  PROVE  IInv'
<1>1. ASSUME Proceeds(q) PROVE IInv'
  <2>1. TypeOK'
    BY <1>1 DEF IInv, TypeOK, Place, Driving, Proceeds, Moves, cluster
  <2>2. Driven'
    BY <1>1 DEF IInv, TypeOK, Driven, Driving, Proceeds, Moves, cluster
  <2>3. OneSwitch'
    BY <1>1, StatusStill DEF Proceeds
  <2>4. JobOf'
    BY <1>1 DEF IInv, TypeOK, JobOf, Driven, MayLive, LiveJob, Changing,
        Driving, Proceeds, Moves, cluster
  <2>5. PlayReports'
    BY <1>1, ClusterStill DEF Proceeds, cluster
  <2>6. CopyHonest'
    BY <1>1 DEF IInv, TypeOK, CopyHonest, Driven, Driving, JobOf,
        LiveJob, Changing, Proceeds, Moves, cluster
  <2> QED BY <2>1, <2>2, <2>3, <2>4, <2>5, <2>6 DEF IInv
<1>2. ASSUME CannotLaunch(q) PROVE IInv'
  <2>1. TypeOK'
    BY <1>2 DEF IInv, TypeOK, Place, Driving, Status, Outcome, Event,
        CannotLaunch, Fail, Moves, cluster
  <2>2. Driven'
    BY <1>2 DEF IInv, TypeOK, Driven, Driving, CannotLaunch, Fail,
        Moves, cluster
  <2>3. OneSwitch'
    BY <1>2 DEF IInv, TypeOK, OneSwitch, Driven, CannotLaunch, Fail,
        Moves, cluster
  <2>4. JobOf'
    BY <1>2 DEF IInv, TypeOK, JobOf, Driven, MayLive, LiveJob, Changing,
        Driving, Claim, ReadOnly, CannotLaunch, Fail, Moves, cluster
  <2>5. PlayReports'
    BY <1>2, ClusterStill DEF CannotLaunch, cluster
  <2>6. CopyHonest'
    BY <1>2 DEF IInv, TypeOK, CopyHonest, Driven, Driving, JobOf,
        LiveJob, Changing, Claim, ReadOnly, PlayReports, CannotLaunch,
        Fail, Moves, cluster
  <2> QED BY <2>1, <2>2, <2>3, <2>4, <2>5, <2>6 DEF IInv
<1>3. ASSUME TemplateMissing(q) PROVE IInv'
  <2>1. TypeOK'
    BY <1>3 DEF IInv, TypeOK, Place, Driving, Status, Outcome, Event,
        TemplateMissing, Fail, Moves, cluster
  <2>2. Driven'
    BY <1>3 DEF IInv, TypeOK, Driven, Driving, TemplateMissing, Fail,
        Moves, cluster
  <2>3. OneSwitch'
    BY <1>3 DEF IInv, TypeOK, OneSwitch, Driven, TemplateMissing, Fail,
        Moves, cluster
  <2>4. JobOf'
    BY <1>3 DEF IInv, TypeOK, JobOf, Driven, MayLive, LiveJob, Changing,
        Driving, Claim, ReadOnly, TemplateMissing, Fail, Moves, cluster
  <2>5. PlayReports'
    BY <1>3, ClusterStill DEF TemplateMissing, cluster
  <2>6. CopyHonest'
    BY <1>3 DEF IInv, TypeOK, CopyHonest, Driven, Driving, JobOf,
        LiveJob, Changing, Claim, ReadOnly, PlayReports,
        TemplateMissing, Fail, Moves, cluster
  <2> QED BY <2>1, <2>2, <2>3, <2>4, <2>5, <2>6 DEF IInv
<1>4. ASSUME Launches(q) PROVE IInv'
  <2>1. TypeOK'
    BY <1>4 DEF IInv, TypeOK, Place, Driving, Status, Outcome, Event,
        Phase, LiveJob, Changing, Launches, Fail, Moves
  <2>2. Driven'
    BY <1>4 DEF IInv, TypeOK, Driven, Driving, Launches, Fail, Moves
  <2>3. OneSwitch'
    BY <1>4 DEF IInv, TypeOK, OneSwitch, Driven, Launches, Fail, Moves
  <2>4. JobOf'
    BY <1>4 DEF IInv, TypeOK, JobOf, Driven, MayLive, LiveJob, Changing,
        Driving, Claim, ReadOnly, Launches, Fail, Moves
  <2>5. PlayReports'
    BY <1>4 DEF IInv, TypeOK, PlayReports, Driven, JobOf, Changing,
        Launches, Fail, Moves
  <2>6. CopyHonest'
    BY <1>4 DEF IInv, TypeOK, CopyHonest, Driven, Driving, JobOf,
        LiveJob, Changing, Claim, ReadOnly, PlayReports, Launches, Fail,
        Moves
  <2> QED BY <2>1, <2>2, <2>3, <2>4, <2>5, <2>6 DEF IInv
<1>5. ASSUME WatchTimesOut(q) PROVE IInv'
  <2>1. TypeOK'
    BY <1>5 DEF IInv, TypeOK, Place, Driving, Status, Outcome, Event,
        WatchTimesOut, Fail, Moves, cluster
  <2>2. Driven'
    BY <1>5 DEF IInv, TypeOK, Driven, Driving, WatchTimesOut, Fail,
        Moves, cluster
  <2>3. OneSwitch'
    BY <1>5 DEF IInv, TypeOK, OneSwitch, Driven, WatchTimesOut, Fail,
        Moves, cluster
  <2>4. JobOf'
    BY <1>5 DEF IInv, TypeOK, JobOf, Driven, MayLive, LiveJob, Changing,
        Driving, Claim, ReadOnly, WatchTimesOut, Fail, Moves, cluster
  <2>5. PlayReports'
    BY <1>5, ClusterStill DEF WatchTimesOut, cluster
  <2>6. CopyHonest'
    BY <1>5 DEF IInv, TypeOK, CopyHonest, Driven, Driving, JobOf,
        LiveJob, Changing, Claim, ReadOnly, PlayReports, WatchTimesOut,
        Fail, Moves, cluster
  <2> QED BY <2>1, <2>2, <2>3, <2>4, <2>5, <2>6 DEF IInv
<1>6. ASSUME PollFails(q) PROVE IInv'
  <2>1. TypeOK'
    BY <1>6 DEF IInv, TypeOK, Place, Driving, Status, Outcome, Event,
        PollFails, Fail, Moves, cluster
  <2>2. Driven'
    BY <1>6 DEF IInv, TypeOK, Driven, Driving, PollFails, Fail, Moves,
        cluster
  <2>3. OneSwitch'
    BY <1>6 DEF IInv, TypeOK, OneSwitch, Driven, PollFails, Fail, Moves,
        cluster
  <2>4. JobOf'
    BY <1>6 DEF IInv, TypeOK, JobOf, Driven, MayLive, LiveJob, Changing,
        Driving, Claim, ReadOnly, PollFails, Fail, Moves, cluster
  <2>5. PlayReports'
    BY <1>6, ClusterStill DEF PollFails, cluster
  <2>6. CopyHonest'
    BY <1>6 DEF IInv, TypeOK, CopyHonest, Driven, Driving, JobOf,
        LiveJob, Changing, Claim, ReadOnly, PlayReports, PollFails,
        Fail, Moves, cluster
  <2> QED BY <2>1, <2>2, <2>3, <2>4, <2>5, <2>6 DEF IInv
<1>7. ASSUME PollMalformed(q) PROVE IInv'
  <2>1. TypeOK'
    BY <1>7 DEF IInv, TypeOK, Place, Driving, Status, Outcome, Event,
        PollMalformed, Fail, Moves, cluster
  <2>2. Driven'
    BY <1>7 DEF IInv, TypeOK, Driven, Driving, PollMalformed, Fail,
        Moves, cluster
  <2>3. OneSwitch'
    BY <1>7 DEF IInv, TypeOK, OneSwitch, Driven, PollMalformed, Fail,
        Moves, cluster
  <2>4. JobOf'
    BY <1>7 DEF IInv, TypeOK, JobOf, Driven, MayLive, LiveJob, Changing,
        Driving, Claim, ReadOnly, PollMalformed, Fail, Moves, cluster
  <2>5. PlayReports'
    BY <1>7, ClusterStill DEF PollMalformed, cluster
  <2>6. CopyHonest'
    BY <1>7 DEF IInv, TypeOK, CopyHonest, Driven, Driving, JobOf,
        LiveJob, Changing, Claim, ReadOnly, PlayReports, PollMalformed,
        Fail, Moves, cluster
  <2> QED BY <2>1, <2>2, <2>3, <2>4, <2>5, <2>6 DEF IInv
<1>8. ASSUME PollLive(q) PROVE IInv'
  <2>1. TypeOK'
    BY <1>8 DEF IInv, TypeOK, Place, Driving, PollLive, cluster
  <2>2. Driven'
    BY <1>8 DEF IInv, TypeOK, Driven, Driving, PollLive, cluster
  <2>3. OneSwitch'
    BY <1>8, StatusStill DEF PollLive
  <2>4. JobOf'
    BY <1>8 DEF IInv, TypeOK, JobOf, Driven, MayLive, LiveJob, Changing,
        Driving, PollLive, cluster
  <2>5. PlayReports'
    BY <1>8, ClusterStill DEF PollLive, cluster
  <2>6. CopyHonest'
    BY <1>8 DEF IInv, TypeOK, CopyHonest, Driven, Driving, JobOf,
        LiveJob, Changing, PollLive, cluster
  <2> QED BY <2>1, <2>2, <2>3, <2>4, <2>5, <2>6 DEF IInv
<1>9. ASSUME PollSuccessful(q) PROVE IInv'
  <2>1. TypeOK'
    BY <1>9 DEF IInv, TypeOK, Place, Driving, Status, Outcome, Event,
        PollSuccessful, Moves, cluster
  <2>2. Driven'
    BY <1>9 DEF IInv, TypeOK, Driven, Driving, PollSuccessful, Moves,
        cluster
  <2>3. OneSwitch'
    BY <1>9 DEF IInv, TypeOK, OneSwitch, Driven, PollSuccessful, Moves,
        cluster
  <2>4. JobOf'
    BY <1>9 DEF IInv, TypeOK, JobOf, Driven, MayLive, LiveJob, Changing,
        Driving, Claim, ReadOnly, PollSuccessful, Moves, cluster
  <2>5. PlayReports'
    BY <1>9, ClusterStill DEF PollSuccessful, cluster
  <2>6. CopyHonest'
    BY <1>9 DEF IInv, TypeOK, CopyHonest, Driven, Driving, JobOf,
        LiveJob, Changing, Claim, ReadOnly, PlayReports, PollSuccessful,
        Moves, cluster
  <2> QED BY <2>1, <2>2, <2>3, <2>4, <2>5, <2>6 DEF IInv
<1>10. ASSUME PollUnsuccessful(q) PROVE IInv'
  <2>1. TypeOK'
    BY <1>10 DEF IInv, TypeOK, Place, Driving, PollUnsuccessful, Moves,
        cluster
  <2>2. Driven'
    BY <1>10 DEF IInv, TypeOK, Driven, Driving, PollUnsuccessful, Moves,
        cluster
  <2>3. OneSwitch'
    BY <1>10, StatusStill DEF PollUnsuccessful
  <2>4. JobOf'
    BY <1>10 DEF IInv, TypeOK, JobOf, Driven, MayLive, LiveJob,
        Changing, Driving, PollUnsuccessful, Moves, cluster
  <2>5. PlayReports'
    BY <1>10, ClusterStill DEF PollUnsuccessful, cluster
  <2>6. CopyHonest'
    BY <1>10 DEF IInv, TypeOK, CopyHonest, Driven, Driving, JobOf,
        LiveJob, Changing, PollUnsuccessful, Moves, cluster
  <2> QED BY <2>1, <2>2, <2>3, <2>4, <2>5, <2>6 DEF IInv
<1>11. ASSUME Classifies(q) PROVE IInv'
  <2>1. TypeOK'
    BY <1>11 DEF IInv, TypeOK, Place, Driving, Status, Outcome, Event,
        Changing, Classifies, Fail, Moves, cluster, Classify
  <2>2. Driven'
    BY <1>11 DEF IInv, TypeOK, Driven, Driving, Classifies, Fail, Moves,
        cluster, Classify
  <2>3. OneSwitch'
    BY <1>11 DEF IInv, TypeOK, OneSwitch, Driven, Classifies, Fail,
        Moves, cluster, Classify
  <2>4. JobOf'
    BY <1>11 DEF IInv, TypeOK, JobOf, Driven, MayLive, LiveJob,
        Changing, Driving, Claim, ReadOnly, Classifies, Fail, Moves,
        cluster, Classify
  <2>5. PlayReports'
    BY <1>11, ClusterStill DEF Classifies, cluster
  <2>6. CopyHonest'
    BY <1>11 DEF IInv, TypeOK, CopyHonest, Driven, Driving, JobOf,
        LiveJob, Changing, Event, Claim, ReadOnly, PlayReports,
        Classifies, Fail, Moves, cluster, Classify
  <2> QED BY <2>1, <2>2, <2>3, <2>4, <2>5, <2>6 DEF IInv
<1> QED BY <1>1, <1>2, <1>3, <1>4, <1>5, <1>6, <1>7, <1>8, <1>9, <1>10, <1>11 DEF Actuates

\* A job moves on.  Commands are as before; what has been said about the job
\* stays true, because a job that is over does not change.
LEMMA PlayStep ==
  ASSUME IInv, NEW q \in Id, Play(q)
  PROVE  IInv'
<1>1. ASSUME JobStarts(q) PROVE IInv'
  <2>1. TypeOK'
    BY <1>1 DEF IInv, TypeOK, Phase, LiveJob, Changing, JobStarts,
        JobTo, console
  <2>2. Driven' /\ OneSwitch'
    BY <1>1, ConsoleStill DEF JobStarts, console
  <2>3. JobOf'
    BY <1>1 DEF IInv, TypeOK, JobOf, Driven, MayLive, LiveJob, Changing,
        Driving, JobStarts, JobTo, console
  <2>4. PlayReports'
    BY <1>1 DEF IInv, TypeOK, PlayReports, Driven, JobOf, Changing,
        JobStarts, JobTo, console
  <2>5. CopyHonest'
    BY <1>1, CopyStill DEF IInv, TypeOK, JobStarts, JobTo, console,
        LiveJob, Changing
  <2> QED BY <2>1, <2>2, <2>3, <2>4, <2>5 DEF IInv
<1>2. ASSUME JobLocks(q) PROVE IInv'
  <2>1. TypeOK'
    BY <1>2, Launched DEF IInv, TypeOK, Phase, LiveJob, Changing,
        JobLocks, JobTo, console
  <2>2. Driven' /\ OneSwitch'
    BY <1>2, ConsoleStill DEF JobLocks, console
  <2>3. JobOf'
    BY <1>2 DEF IInv, TypeOK, JobOf, Driven, MayLive, LiveJob, Changing,
        Driving, JobLocks, JobTo, console
  <2>4. PlayReports'
    BY <1>2, Launched DEF IInv, TypeOK, PlayReports, Driven, JobOf,
        Changing, LiveJob, JobLocks, JobTo, console
  <2>5. CopyHonest'
    BY <1>2, CopyStill DEF IInv, TypeOK, JobLocks, JobTo, console,
        LiveJob, Changing
  <2> QED BY <2>1, <2>2, <2>3, <2>4, <2>5 DEF IInv
<1>3. ASSUME JobAdvances(q) PROVE IInv'
  <2>1. TypeOK'
    BY <1>3, Launched DEF IInv, TypeOK, Phase, LiveJob, Changing, Event,
        JobAdvances, JobTo, Writes, console
  <2>2. Driven' /\ OneSwitch'
    BY <1>3, ConsoleStill DEF JobAdvances, console
  <2>3. JobOf'
    BY <1>3 DEF IInv, TypeOK, JobOf, Driven, MayLive, LiveJob, Changing,
        Driving, JobAdvances, JobTo, Writes, console
  <2>4. PlayReports'
    BY <1>3, Launched DEF IInv, TypeOK, PlayReports, Driven, JobOf,
        Changing, LiveJob, JobAdvances, JobTo, Writes, console
  <2>5. CopyHonest'
    BY <1>3, CopyStill DEF IInv, TypeOK, JobAdvances, JobTo, Writes,
        console, LiveJob, Changing
  <2> QED BY <2>1, <2>2, <2>3, <2>4, <2>5 DEF IInv
<1>4. ASSUME JobRollsBack(q) PROVE IInv'
  <2>1. TypeOK'
    BY <1>4, Launched DEF IInv, TypeOK, Phase, LiveJob, Changing, Event,
        JobRollsBack, JobTo, Writes, console
  <2>2. Driven' /\ OneSwitch'
    BY <1>4, ConsoleStill DEF JobRollsBack, console
  <2>3. JobOf'
    BY <1>4 DEF IInv, TypeOK, JobOf, Driven, MayLive, LiveJob, Changing,
        Driving, JobRollsBack, JobTo, Writes, console
  <2>4. PlayReports'
    BY <1>4, Launched DEF IInv, TypeOK, PlayReports, Driven, JobOf,
        Changing, LiveJob, JobRollsBack, JobTo, Writes, console
  <2>5. CopyHonest'
    BY <1>4, CopyStill DEF IInv, TypeOK, JobRollsBack, JobTo, Writes,
        console, LiveJob, Changing
  <2> QED BY <2>1, <2>2, <2>3, <2>4, <2>5 DEF IInv
<1>5. ASSUME JobStops(q) PROVE IInv'
  <2>1. TypeOK'
    BY <1>5, Launched DEF IInv, TypeOK, Phase, LiveJob, Changing, Event,
        JobStops, JobTo, HalfDone, Writes, console
  <2>2. Driven' /\ OneSwitch'
    BY <1>5, ConsoleStill DEF JobStops, console
  <2>3. JobOf'
    BY <1>5 DEF IInv, TypeOK, JobOf, Driven, MayLive, LiveJob, Changing,
        Driving, JobStops, JobTo, HalfDone, Writes, console
  <2>4. PlayReports'
    BY <1>5, Launched DEF IInv, TypeOK, PlayReports, Driven, JobOf,
        Changing, LiveJob, JobStops, JobTo, HalfDone, Writes, console
  <2>5. CopyHonest'
    BY <1>5, CopyStill DEF IInv, TypeOK, JobStops, JobTo, HalfDone,
        Writes, console, LiveJob, Changing
  <2> QED BY <2>1, <2>2, <2>3, <2>4, <2>5 DEF IInv
<1> QED BY <1>1, <1>2, <1>3, <1>4, <1>5 DEF Play

\* A restart leaves jobs nobody waits for, and says nothing of them.
LEMMA RestartStep ==
  ASSUME IInv, Restart
  PROVE  IInv'
<1>1. TypeOK'
  BY DEF IInv, TypeOK, Restart, Place, Status, Outcome, Event, cluster
<1>2. Driven' /\ OneSwitch'
  BY DEF IInv, TypeOK, Driven, OneSwitch, Restart, Driving
<1>3. JobOf'
  BY DEF IInv, TypeOK, Driven, JobOf, MayLive, Restart, Status, Driving, cluster
<1>4. PlayReports'
  BY ClusterStill DEF Restart
<1>5. CopyHonest'
  BY DEF IInv, TypeOK, CopyHonest, Restart
<1> QED BY <1>1, <1>2, <1>3, <1>4, <1>5 DEF IInv

LEMMA InitHolds == Init => IInv
<1> SUFFICES ASSUME Init PROVE IInv
  OBVIOUS
<1>1. TypeOK
  BY DEF Init, TypeOK, Place, Status, Phase, Event, Outcome, Request
<1>2. Driven /\ OneSwitch /\ JobOf
  BY DEF Init, Driven, OneSwitch, JobOf, Driving, LiveJob, Changing
<1>3. PlayReports /\ CopyHonest
  BY DEF Init, PlayReports, CopyHonest
<1> QED BY <1>1, <1>2, <1>3 DEF IInv

LEMMA NextHolds == IInv /\ [Next]_vars => IInv'
<1> SUFFICES ASSUME IInv, [Next]_vars PROVE IInv'
  OBVIOUS
<1>1. CASE UNCHANGED vars
  <2>1. TypeOK' /\ Driven' /\ OneSwitch'
    BY <1>1 DEF vars, IInv, TypeOK, Driven, OneSwitch
  <2>2. JobOf' /\ PlayReports' /\ CopyHonest'
    BY <1>1 DEF vars, IInv, JobOf, MayLive, PlayReports, CopyHonest
  <2> QED BY <2>1, <2>2 DEF IInv
<1> QED BY <1>1, AsksStep, ActuatesStep, PlayStep, RestartStep DEF Next

----------------------------------------------------------------------------
\* The invariant the other theorems rest on holds in every behaviour of the
\* request, the actuator, the play and restarts.
THEOREM SwitchInductive == Spec => []IInv
  BY InitHolds, NextHolds, PTL DEF Spec

\* What the operator is told of an ended switch is true of its job.
THEOREM HonestCopy == Spec => []CopyHonest
<1>1. IInv => CopyHonest
  BY DEF IInv
<1> QED BY SwitchInductive, <1>1, PTL

\* Two jobs switch one receiver at a time only after one of them was given up
\* with a message that its result is unknown, or after a restart.
THEOREM Disclosed == Spec => []CompetitionDisclosed
<1>1. IInv => CompetitionDisclosed
  <2> SUFFICES ASSUME IInv,
                      NEW p \in Id, NEW q \in Id, p # q,
                      phase[p] \in LiveJob, phase[q] \in LiveJob,
                      target[p].receiver = target[q].receiver,
                      ~MayLive(p), ~MayLive(q)
               PROVE  FALSE
    BY DEF CompetitionDisclosed
  <2>1. pc[p] = "watch" /\ pc[q] = "watch"
    BY DEF IInv, JobOf
  <2>2. status[p] = "reconnecting" /\ status[q] = "reconnecting"
    BY <2>1 DEF IInv, Driven, Driving
  <2> QED BY <2>2 DEF IInv, OneSwitch
<1> QED BY SwitchInductive, <1>1, PTL

----------------------------------------------------------------------------
Verdict == [c \in Id |-> IF status[c] = "reconnecting" THEN "none" ELSE status[c]]
Switching == [r \in Receiver |-> FindActive(r)]

\* A step that neither starts nor ends a command is none of the contract.
LEMMA Unseen ==
  ASSUME status' = status,
         \A c \in Id : status[c] = "reconnecting" => target'[c] = target[c]
  PROVE  UNCHANGED <<Switching, Verdict>>
<1>1. \A r \in Receiver : FindActive(r)' = FindActive(r)
  BY DEF FindActive
<1> QED BY <1>1 DEF Switching, Verdict

\* A command that starts is taken up, one that ends is decided.
LEMMA Taken ==
  ASSUME IInv, NEW q \in Id, Dispatch(q)
  PROVE  Contract!Take(target[q].receiver, q)
<1> DEFINE r0 == target[q].receiver
<1>1. status[q] = "none" /\ r0 \in Receiver
  BY DEF Dispatch, IInv, Driven
<1>2. status' = [status EXCEPT ![q] = "reconnecting"] /\ target' = target
  BY DEF Dispatch
<1>3. FindActive(r0) = {} /\ FindActive(r0)' = {q}
  BY <1>1, <1>2 DEF Dispatch, FindActive, IInv, TypeOK
<1>4. \A r \in Receiver \ {r0} : FindActive(r)' = FindActive(r)
  BY <1>1, <1>2 DEF FindActive, IInv, TypeOK
<1>5. Switching' = [Switching EXCEPT ![r0] = {q}]
  BY <1>1, <1>2, <1>3, <1>4 DEF Switching
<1>6. Verdict' = Verdict /\ Verdict[q] = "none"
  BY <1>1, <1>2 DEF Verdict, IInv, TypeOK
<1>7. \A r \in Receiver : q \notin FindActive(r)
  BY <1>1 DEF FindActive
<1>8. Switching[r0] = {} /\ \A r \in Receiver : q \notin Switching[r]
  BY <1>1, <1>3, <1>7 DEF Switching
<1> QED BY <1>5, <1>6, <1>8 DEF Contract!Take, Contract!UnderWay, Switching, Verdict

LEMMA Decided ==
  ASSUME IInv, NEW q \in Id, NEW v \in {"active", "failed"},
         status[q] = "reconnecting",
         status' = [status EXCEPT ![q] = v], target' = target
  PROVE  target[q].receiver \in Receiver /\ Contract!Decide(target[q].receiver, q, v)
<1> DEFINE r0 == target[q].receiver
<1>1. r0 \in Receiver
  BY DEF IInv, Driven, Driving
<1>2. FindActive(r0) = {q} /\ FindActive(r0)' = {}
  BY DEF FindActive, IInv, TypeOK, OneSwitch
<1>3. \A r \in Receiver \ {r0} : FindActive(r)' = FindActive(r)
  BY DEF FindActive, IInv, TypeOK
<1>4. Switching' = [Switching EXCEPT ![r0] = {}] /\ Switching[r0] = {q}
  BY <1>1, <1>2, <1>3 DEF Switching
<1>5. Verdict' = [Verdict EXCEPT ![q] = v]
  BY DEF Verdict, IInv, TypeOK
<1> QED BY <1>1, <1>4, <1>5 DEF Contract!Decide, Switching, Verdict

\* The request, the actuator and the play keep the contract of switching.
THEOREM ContractKept == Spec => KeepsContract
<1>1. Init => Contract!ContractInit
  BY DEF Init, Contract!ContractInit, FindActive
<1>2. IInv /\ [Next]_vars => [Contract!ContractNext]_<<Switching, Verdict>>
  <2> SUFFICES ASSUME IInv, [Next]_vars
               PROVE  Contract!ContractNext \/ UNCHANGED <<Switching, Verdict>>
    OBVIOUS
  <2>1. CASE UNCHANGED <<status, target>>
    BY <2>1, Unseen
  <2>2. ASSUME NEW q \in Id, NEW r \in Receiver, NEW s \in Source,
               SwitchArrives(q, r, s)
        PROVE  UNCHANGED <<Switching, Verdict>>
    <3>1. status' = status /\ status[q] = "none"
      BY <2>2 DEF SwitchArrives, IInv, Driven
    <3>2. \A c \in Id \ {q} : target'[c] = target[c]
      BY <2>2 DEF SwitchArrives, IInv, TypeOK
    <3> QED BY <3>1, <3>2, Unseen
  <2>3. ASSUME NEW q \in Id, Dispatch(q)
        PROVE  Contract!ContractNext
    <3>1. target[q].receiver \in Receiver
      BY <2>3 DEF Dispatch, IInv, Driven
    <3> QED BY <2>3, <3>1, Taken DEF Contract!ContractNext
  <2>4. ASSUME NEW q \in Id, Actuates(q)
        PROVE  Contract!ContractNext \/ UNCHANGED <<status, target>>
    <3>1. target' = target
      BY <2>4 DEF Actuates, Proceeds, CannotLaunch, TemplateMissing, Launches,
         WatchTimesOut, PollFails, PollMalformed, PollLive, PollSuccessful,
         PollUnsuccessful, Classifies
    <3>2. \/ status' = status
          \/ /\ pc[q] \in Driving
             /\ \E v \in {"active", "failed"} : status' = [status EXCEPT ![q] = v]
      BY <2>4 DEF Actuates, Proceeds, CannotLaunch, TemplateMissing, Launches,
         WatchTimesOut, PollFails, PollMalformed, PollLive, PollSuccessful,
         PollUnsuccessful, Classifies, Fail, Driving
    <3>3. pc[q] \in Driving => status[q] = "reconnecting"
      BY DEF IInv, Driven
    <3> QED BY <3>1, <3>2, <3>3, Decided DEF Contract!ContractNext
  <2>5. ASSUME NEW q \in Id, Play(q)
        PROVE  UNCHANGED <<status, target>>
    BY <2>5 DEF Play, JobStarts, JobLocks, JobAdvances, JobRollsBack, JobStops, console
  <2>6. ASSUME Restart
        PROVE  Contract!ContractNext
    <3>1. Switching' = [r \in Receiver |-> {}]
      BY <2>6 DEF Restart, Switching, FindActive
    <3>2. \A c \in Id : (\E r \in Receiver : c \in Switching[r]) <=> status[c] = "reconnecting"
      BY DEF Switching, FindActive, IInv, Driven, Driving
    <3>3. Verdict' = [c \in Id |-> IF \/ \E r \in Receiver : c \in Switching[r]
                                      \/ Verdict[c] # "none"
                                   THEN "forgotten" ELSE "none"]
      BY <2>6, <3>2 DEF Restart, Verdict
    <3> QED BY <3>1, <3>3
            DEF Contract!ContractNext, Contract!Forget, Contract!UnderWay, Switching, Verdict
  <2> QED
    BY <2>1, <2>2, <2>3, <2>4, <2>5, <2>6
    DEF Next, Asks, SidecarAnswers, AnsweredAtOnce, vars
<1>3. KeepsContract <=> /\ Contract!ContractInit
                        /\ [][Contract!ContractNext]_<<Switching, Verdict>>
  BY DEF KeepsContract, Contract!ContractSpec, Switching, Verdict
<1> QED BY <1>1, <1>2, <1>3, SwitchInductive, PTL DEF Spec
=============================================================================
