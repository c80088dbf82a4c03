-------------------------- MODULE DeploymentsProofs --------------------------
(***************************************************************************)
(* Theorems about Deployments for every set of apps, artifacts, builders   *)
(* and handlers, and every number of crashes: type correctness, that the   *)
(* registry names nothing that is missing from the store or the artifact   *)
(* table, that the history is complete, and that verification rests on an  *)
(* attestation.                                                            *)
(***************************************************************************)
EXTENDS Deployments, TLAPS

-----------------------------------------------------------------------------
\* A client's request gives a handler that was idle a job.
LEMMA RequestTypes ==
    ASSUME TypeOK, NEW t \in Handlers, Request(t)
    PROVE  TypeOK'
<1> USE DEF TypeOK
<1>1. ASSUME NEW a \in Apps, NEW h \in Artifacts, NEW att \in Attached
      PROVE  NewJob(a, h, att) \in Job
  BY DEF NewJob, Job, Status
<1>2. ASSUME NEW a \in Apps, Rollback(t, a)
      PROVE  TypeOK'
  <2>1. NewJob(a, app[a], NoAttestation) \in Job
    BY <1>1, <1>2, NoAttestationAssumption DEF Rollback
  <2>2. QED
    BY <1>2, <2>1 DEF Rollback, At, GotoWith, store, tables, Steps
<1>3. ASSUME NEW a \in Apps, NEW h \in Artifacts, NEW att \in Attached, Deploy(t, a, h, att)
      PROVE  TypeOK'
  BY <1>1, <1>3 DEF Deploy, At, GotoWith, store, tables, Steps, PutSteps
<1>4. QED
  BY <1>2, <1>3 DEF Request

\* What a handler writes fits the file or the table it writes to.
LEMMA HandlerTypes ==
    ASSUME TypeOK, NEW t \in Handlers, HandlerStep(t)
    PROVE  TypeOK'
<1> USE DEF TypeOK
<1> DEFINE h == job[t].artifact
<1>1. pc[t] # "idle" => job[t] \in Job /\ h \in Artifacts /\ job[t].app \in Apps
  BY DEF Job
<1>2. CASE PutHas(t)
  BY <1>2 DEF PutHas, At, Goto, store, tables, Steps, PutSteps
<1>3. CASE OpenJam(t)
  BY <1>1, <1>3 DEF OpenJam, At, Goto, tables, Steps, PutSteps, Files, Contents
<1>4. CASE WriteJam(t)
  <2>1. Written(t, "jam_open") \subseteq Contents
    BY DEF Written, Contents
  <2>2. QED
    BY <1>1, <1>4, <2>1 DEF WriteJam, At, Goto, tables, Steps, PutSteps, Files
<1>5. CASE OpenBin(t)
  BY <1>1, <1>5 DEF OpenBin, At, Goto, tables, Steps, PutSteps, Files, Contents
<1>6. CASE WriteBin(t)
  <2>1. Written(t, "bin_open") \subseteq Contents
    BY DEF Written, Contents
  <2>2. QED
    BY <1>1, <1>6, <2>1 DEF WriteBin, At, Goto, tables, Steps, PutSteps, Files
<1>7. CASE Chmod(t)
  BY <1>1, <1>7 DEF Chmod, At, Goto, tables, Steps, PutSteps, Files
<1>8. CASE PutFails(t)
  BY <1>1, <1>8 DEF PutFails, Answered, GotoWith, tables, PutSteps
<1>9. CASE PutArtifact(t)
  BY <1>1, <1>9 DEF PutArtifact, At, Goto, store, Steps, ArtifactRow
<1>10. CASE Assess(t)
  <2> DEFINE verdict == Assessed(job[t].att, job[t].artifact)
  <2>1. job[t] \in Job
    BY <1>1, <1>10 DEF Assess, At
  <2>2. job[t].att \in Attestation
    BY <2>1, AttachedAssumption DEF Job
  <2>3. verdict.status \in Status /\ verdict.builder \in Builders \cup {NoBuilder}
    BY <2>2 DEF Assessed, Attestation, Status
  <2>4. [job[t] EXCEPT !.status = verdict.status, !.builder = verdict.builder] \in Job
    BY <2>1, <2>3 DEF Job
  <2>5. QED
    BY <1>10, <2>4 DEF Assess, At, GotoWith, store, tables, Steps
<1>11. CASE SetVerification(t)
  <2>1. job[t] \in Job /\ h \in Artifacts
    BY <1>1, <1>11 DEF SetVerification, At
  <2>2. NewJob(job[t].app, h, NoAttestation) \in Job
    BY <2>1, NoAttestationAssumption DEF NewJob, Job, Status
  <2>3. [status |-> job[t].status, builder |-> job[t].builder] \in ArtifactRow
    BY <2>1 DEF Job, ArtifactRow
  <2>4. artifact' \in [Artifacts -> ArtifactRow] /\ attested' \in SUBSET Artifacts
    BY <1>11, <2>1, <2>3 DEF SetVerification
  <2>5. job' \in [Handlers -> Job \cup {NoJob}] /\ pc' \in [Handlers -> Steps \cup {"idle"}]
    BY <1>11, <2>2 DEF SetVerification, GotoWith, Answered, Steps
  <2>6. \A u \in Handlers : pc'[u] # "idle" => job'[u] \in Job
    BY <1>11, <2>2 DEF SetVerification, GotoWith, Answered
  <2>7. QED
    BY <1>11, <2>4, <2>5, <2>6 DEF SetVerification, store
<1>12. CASE UpsertApp(t)
  BY <1>1, <1>12 DEF UpsertApp, At, Goto, store, Steps
<1>13. CASE RecordDeploy(t)
  BY <1>1, <1>13 DEF RecordDeploy, At, Answered, GotoWith, store
<1>14. CASE PreviousArtifact(t)
  <2>1. job[t] \in Job /\ history[job[t].app] \in Seq(Artifacts)
    BY <1>1, <1>14 DEF PreviousArtifact, At
  <2>2. ASSUME NEW i \in 1..Len(history[job[t].app])
        PROVE  [job[t] EXCEPT !.artifact = history[job[t].app][i]] \in Job
    <3>1. history[job[t].app][i] \in Artifacts
      BY <2>1
    <3>2. QED
      BY <2>1, <3>1 DEF Job
  <2>3. QED
    BY <1>14, <2>2 DEF PreviousArtifact, At, GotoWith, store, tables, Steps
<1>15. CASE NothingToRollBackTo(t)
  BY <1>15 DEF NothingToRollBackTo, At, Answered, GotoWith, store, tables
<1>16. CASE SetAppArtifact(t)
  BY <1>1, <1>16 DEF SetAppArtifact, At, Goto, store, Steps
<1>17. QED
  BY <1>2, <1>3, <1>4, <1>5, <1>6, <1>7, <1>8, <1>9, <1>10, <1>11, <1>12,
     <1>13, <1>14, <1>15, <1>16 DEF HandlerStep

\* Every variable keeps its type: the tables and files of src/src/registry.rs
\* and src/src/store.rs hold what their schema says, and a handler in flight
\* has a job.
THEOREM TypeCorrect == Spec => []TypeOK
<1>1. Init => TypeOK
  <2> SUFFICES ASSUME Init
               PROVE  TypeOK
    OBVIOUS
  <2>1. files \in [Artifacts -> Files] /\ artifact \in [Artifacts -> ArtifactRow]
    BY DEF Init, Files, ArtifactRow, Contents
  <2>2. app \in [Apps -> Artifacts \cup {NoArtifact}] /\ history \in [Apps -> Seq(Artifacts)]
    <3>1. <<>> \in Seq(Artifacts)
      OBVIOUS
    <3>2. QED
      BY <3>1 DEF Init
  <2>3. QED
    BY <2>1, <2>2, OwnKeysAssumption DEF Init, TypeOK
<1>2. TypeOK /\ [Next]_vars => TypeOK'
  <2> SUFFICES ASSUME TypeOK, [Next]_vars
               PROVE  TypeOK'
    OBVIOUS
  <2>1. CASE \E t \in Handlers : Request(t) \/ HandlerStep(t)
    BY <2>1, RequestTypes, HandlerTypes
  <2>2. CASE Crash \/ UNCHANGED vars
    BY <2>2, OwnKeysAssumption DEF Crash, Steps, TypeOK, vars
  <2>3. CASE \E key \in Builders : TrustAdd(key) \/ TrustRemove(key)
    BY <2>3 DEF TrustAdd, TrustRemove, store, TypeOK
  <2>4. QED
    BY <2>1, <2>2, <2>3 DEF Next
<1>3. QED
  BY <1>1, <1>2, PTL DEF Spec
-----------------------------------------------------------------------------
\* What a step of handler t leaves alone: the place and the job of the others.
LEMMA OthersStay ==
    ASSUME TypeOK, NEW t \in Handlers, HandlerStep(t) \/ Request(t), NEW u \in Handlers \ {t}
    PROVE  pc'[u] = pc[u] /\ job'[u] = job[u]
BY DEF TypeOK, HandlerStep, Request, Deploy, Rollback, PutHas, OpenJam, WriteJam, OpenBin,
       WriteBin, Chmod, PutFails, PutArtifact, Assess, SetVerification, UpsertApp,
       RecordDeploy, PreviousArtifact, NothingToRollBackTo, SetAppArtifact,
       Goto, GotoWith, Answered

\* Artifact h has its row and a binary.
Stored(h) == artifact[h].status # "no row" /\ files[h].bin # "absent"

\* Steps of a handler that needs its artifact to be stored.
NeedsStored == {"assess", "set_verification", "upsert_app",
                "previous_artifact", "set_app_artifact", "record_deploy"}

\* NothingMissing with what the handlers in flight rely on.
Grounded ==
    /\ NothingMissing
    /\ \A t \in Handlers :
          /\ pc[t] \in NeedsStored => Stored(job[t].artifact)
          /\ pc[t] \in {"bin_open", "chmod", "put_artifact"} =>
                files[job[t].artifact].bin # "absent"

\* Nothing is ever taken out of the store or the artifact table.
LEMMA StoreGrows ==
    ASSUME TypeOK, [Next]_vars, NEW h \in Artifacts
    PROVE  /\ files[h].bin # "absent" => files'[h].bin # "absent"
           /\ files[h].jam # "absent" => files'[h].jam # "absent"
           /\ artifact[h].status # "no row" => artifact'[h].status # "no row"
<1>1. ASSUME NEW t \in Handlers, HandlerStep(t)
      PROVE  /\ files[h].bin # "absent" => files'[h].bin # "absent"
             /\ files[h].jam # "absent" => files'[h].jam # "absent"
  <2> DEFINE g == job[t].artifact
  <2>2. CASE UNCHANGED files
    BY <2>2
  <2>3. files \in [Artifacts -> [jam : Contents, bin : Contents, executable : BOOLEAN]]
    BY DEF TypeOK, Files
  <2>4. ASSUME NEW contents \in {"torn", "whole"},
               files' = [files EXCEPT ![g].jam = contents]
        PROVE  /\ files[h].bin # "absent" => files'[h].bin # "absent"
               /\ files[h].jam # "absent" => files'[h].jam # "absent"
    BY <2>3, <2>4
  <2>5. ASSUME NEW contents \in {"torn", "whole"},
               files' = [files EXCEPT ![g].bin = contents]
        PROVE  /\ files[h].bin # "absent" => files'[h].bin # "absent"
               /\ files[h].jam # "absent" => files'[h].jam # "absent"
    BY <2>3, <2>5
  <2>6. CASE Chmod(t)
    <3>1. files' = [files EXCEPT ![g].executable = TRUE]
      BY <2>6 DEF Chmod
    <3>2. QED
      BY <2>3, <3>1
  <2>7. CASE OpenJam(t) \/ WriteJam(t)
    <3>1. \E contents \in {"torn", "whole"} : files' = [files EXCEPT ![g].jam = contents]
      BY <2>7 DEF OpenJam, WriteJam, Written
    <3>2. QED
      BY <2>4, <3>1
  <2>8. CASE OpenBin(t) \/ WriteBin(t)
    <3>1. \E contents \in {"torn", "whole"} : files' = [files EXCEPT ![g].bin = contents]
      BY <2>8 DEF OpenBin, WriteBin, Written
    <3>2. QED
      BY <2>5, <3>1
  <2>9. QED
    BY <1>1, <2>2, <2>6, <2>7, <2>8 DEF HandlerStep, PutHas, PutFails, PutArtifact, Assess,
       SetVerification, UpsertApp, RecordDeploy, PreviousArtifact, NothingToRollBackTo,
       SetAppArtifact, store
<1>2. ASSUME NEW t \in Handlers, HandlerStep(t)
      PROVE  artifact[h].status # "no row" => artifact'[h].status # "no row"
  <2> USE DEF TypeOK, ArtifactRow
  <2>1. CASE UNCHANGED artifact
    BY <2>1
  <2>2. CASE PutArtifact(t)
    BY <2>2 DEF PutArtifact
  <2>3. CASE SetVerification(t)
    <3>1. job[t].status # "no row"
      BY <2>3 DEF SetVerification, At, Job, Status
    <3>2. QED
      BY <2>3, <3>1 DEF SetVerification
  <2>4. QED
    BY <1>2, <2>1, <2>2, <2>3 DEF HandlerStep, PutHas, OpenJam, WriteJam, OpenBin, WriteBin,
       Chmod, PutFails, Assess, UpsertApp, RecordDeploy, PreviousArtifact,
       NothingToRollBackTo, SetAppArtifact, store, tables
<1>3. QED
  BY <1>1, <1>2 DEF Next, vars, Request, Deploy, Rollback, TrustAdd, TrustRemove, Crash,
     store, tables

\* Every step keeps Grounded.
LEMMA GroundedStep ==
    ASSUME TypeOK, Grounded, [Next]_vars
    PROVE  Grounded'
<1> DEFINE Memory(u) ==
      /\ pc[u] \in NeedsStored => Stored(job[u].artifact)
      /\ pc[u] \in {"bin_open", "chmod", "put_artifact"} => files[job[u].artifact].bin # "absent"
<1>1. \A h \in Artifacts : Stored(h) => Stored(h)'
  BY StoreGrows DEF Stored
<1>2. \A a \in Apps : \A h \in Recorded(a) \cup ({app[a]} \ {NoArtifact}) : h \in Artifacts /\ Stored(h)
  <2> TAKE a \in Apps
  <2>1. \A i \in 1..Len(history[a]) : history[a][i] \in Artifacts
    <3>1. history[a] \in Seq(Artifacts)
      BY DEF TypeOK
    <3>2. QED
      BY <3>1
  <2>2. Recorded(a) \cup ({app[a]} \ {NoArtifact}) \subseteq Artifacts
    BY <2>1 DEF TypeOK, Recorded
  <2>3. QED
    BY <2>2 DEF Grounded, NothingMissing, Stored
<1>3. \A u \in Handlers : pc[u] # "idle" => job[u].artifact \in Artifacts /\ job[u].app \in Apps
  BY DEF TypeOK, Job
<1>4. ASSUME UNCHANGED <<app, history>>
      PROVE  NothingMissing'
  BY <1>1, <1>2, <1>4 DEF NothingMissing, Recorded, Stored
<1>5. ASSUME NEW u \in Handlers, pc'[u] = pc[u], job'[u] = job[u]
      PROVE  Memory(u)'
  BY <1>1, <1>3, <1>5, StoreGrows DEF Grounded, NeedsStored
<1>6. ASSUME NEW t \in Handlers, HandlerStep(t) \/ Request(t), NothingMissing', Memory(t)'
      PROVE  Grounded'
  BY <1>5, <1>6, OthersStay DEF Grounded
<1>7. ASSUME NEW t \in Handlers, Request(t)
      PROVE  Grounded'
  <2>1. UNCHANGED <<app, history>>
    BY <1>7 DEF Request, Deploy, Rollback, tables
  <2>2. Memory(t)'
    <3>1. ASSUME NEW a \in Apps, Rollback(t, a)
          PROVE  Memory(t)'
      <4>1. PICK h \in Artifacts : h = app[a] /\ Stored(h)
        BY <1>2, <3>1 DEF Rollback
      <4>2. job'[t].artifact = h /\ pc'[t] = "previous_artifact"
        BY <3>1, <4>1 DEF Rollback, GotoWith, NewJob, TypeOK
      <4>3. QED
        BY <1>1, <4>1, <4>2 DEF NeedsStored
    <3>2. ASSUME NEW a \in Apps, NEW h \in Artifacts, NEW att \in Attached, Deploy(t, a, h, att)
          PROVE  Memory(t)'
      BY <3>2 DEF Deploy, GotoWith, TypeOK, NeedsStored
    <3>3. QED
      BY <1>7, <3>1, <3>2 DEF Request
  <2>3. QED
    BY <1>4, <1>6, <1>7, <2>1, <2>2
<1>8. ASSUME NEW t \in Handlers, HandlerStep(t)
      PROVE  Grounded'
  <2> DEFINE h == job[t].artifact
  <2>1. CASE PutHas(t) \/ OpenJam(t) \/ WriteJam(t) \/ OpenBin(t) \/ WriteBin(t) \/ Chmod(t)
    <3>1. Memory(t)'
      <4>1. pc[t] # "idle" /\ h \in Artifacts /\ job'[t] = job[t]
        BY <1>3, <2>1 DEF PutHas, OpenJam, WriteJam, OpenBin, WriteBin, Chmod, At, Goto
      <4>2. pc'[t] \notin NeedsStored
        BY <2>1 DEF PutHas, OpenJam, WriteJam, OpenBin, WriteBin, Chmod, Goto, TypeOK, NeedsStored
      <4>3. pc'[t] \in {"bin_open", "chmod", "put_artifact"} => files'[h].bin # "absent"
        <5>1. CASE files[h].bin # "absent"
          BY <4>1, <5>1, StoreGrows
        <5>2. CASE OpenBin(t)
          BY <4>1, <5>2 DEF OpenBin, TypeOK, Files
        <5>3. CASE PutHas(t)
          BY <4>1, <5>1, <5>3 DEF PutHas, Goto, TypeOK, Has
        <5>4. CASE OpenJam(t) \/ WriteJam(t)
          BY <5>4 DEF OpenJam, WriteJam, Goto, TypeOK
        <5>5. CASE WriteBin(t) \/ Chmod(t)
          BY <5>1, <5>5 DEF WriteBin, Chmod, At, Grounded
        <5>6. QED
          BY <2>1, <5>2, <5>3, <5>4, <5>5
      <4>4. QED
        BY <4>1, <4>2, <4>3
    <3>2. QED
      BY <1>4, <1>6, <1>8, <2>1, <3>1
         DEF PutHas, OpenJam, WriteJam, OpenBin, WriteBin, Chmod, tables
  <2>2. CASE PutFails(t) \/ NothingToRollBackTo(t)
    <3>1. pc'[t] = "idle" /\ UNCHANGED <<app, history>>
      BY <2>2 DEF PutFails, NothingToRollBackTo, Answered, GotoWith, tables, TypeOK
    <3>2. QED
      BY <1>4, <1>6, <1>8, <3>1 DEF NeedsStored
  <2>3. CASE PutArtifact(t)
    <3>1. h \in Artifacts /\ files[h].bin # "absent"
      BY <1>3, <2>3 DEF PutArtifact, At, Grounded
    <3>2. Stored(h)' /\ pc'[t] = "assess" /\ job'[t] = job[t]
      BY <2>3, <3>1 DEF PutArtifact, Goto, store, TypeOK, ArtifactRow, Stored
    <3>3. QED
      BY <1>4, <1>6, <1>8, <2>3, <3>2 DEF PutArtifact
  <2>4. CASE Assess(t) \/ SetVerification(t)
    <3>1. h \in Artifacts /\ Stored(h)
      BY <1>3, <2>4 DEF Assess, SetVerification, At, Grounded, NeedsStored
    <3>2. /\ pc'[t] = "idle" \/ job'[t].artifact = h
          /\ pc'[t] \in {"idle", "set_verification", "upsert_app"}
      <4>1. job[t] \in Job
        BY <2>4 DEF Assess, SetVerification, At, TypeOK
      <4>2. CASE Assess(t)
        BY <4>1, <4>2 DEF Assess, GotoWith, TypeOK, Job
      <4>3. CASE SetVerification(t)
        BY <4>3 DEF SetVerification, GotoWith, Answered, NewJob, TypeOK
      <4>4. QED
        BY <2>4, <4>2, <4>3
    <3>3. Memory(t)'
      BY <1>1, <3>1, <3>2 DEF NeedsStored
    <3>4. QED
      BY <1>4, <1>6, <1>8, <2>4, <3>3 DEF Assess, SetVerification, tables
  <2>5. CASE UpsertApp(t) \/ SetAppArtifact(t)
    <3>1. h \in Artifacts /\ Stored(h) /\ job[t].app \in Apps
      BY <1>3, <2>5 DEF UpsertApp, SetAppArtifact, At, Grounded, NeedsStored
    <3>2. Memory(t)'
      BY <1>1, <2>5, <3>1 DEF UpsertApp, SetAppArtifact, Goto, TypeOK
    <3>3. app' = [app EXCEPT ![job[t].app] = h] /\ UNCHANGED history
      BY <2>5 DEF UpsertApp, SetAppArtifact
    <3>4. NothingMissing'
      <4>1. ASSUME NEW a \in Apps
            PROVE  Recorded(a)' = Recorded(a) /\ app'[a] \in {app[a], h}
        BY <3>3 DEF Recorded, TypeOK
      <4>2. ASSUME NEW a \in Apps, NEW g \in Recorded(a)' \cup ({app'[a]} \ {NoArtifact})
            PROVE  g \in Artifacts /\ Stored(g)
        BY <1>2, <3>1, <4>1
      <4>3. QED
        BY <1>1, <4>2 DEF NothingMissing, Stored
    <3>5. QED
      BY <1>6, <1>8, <3>2, <3>4
  <2>6. CASE RecordDeploy(t)
    <3>1. h \in Artifacts /\ Stored(h) /\ job[t].app \in Apps
      BY <1>3, <2>6 DEF RecordDeploy, At, Grounded, NeedsStored
    <3>2. \A a \in Apps : Recorded(a)' \subseteq Recorded(a) \cup {h}
      BY <2>6, <3>1 DEF RecordDeploy, Recorded, TypeOK
    <3>3. NothingMissing'
      BY <1>1, <1>2, <2>6, <3>1, <3>2 DEF RecordDeploy, NothingMissing, Stored
    <3>4. pc'[t] = "idle"
      BY <2>6 DEF RecordDeploy, Answered, GotoWith, TypeOK
    <3>5. QED
      BY <1>6, <1>8, <3>3, <3>4 DEF NeedsStored
  <2>7. CASE PreviousArtifact(t)
    <3>1. /\ pc'[t] = "set_app_artifact" /\ job'[t].artifact \in Recorded(job[t].app)
          /\ job[t].app \in Apps
      BY <1>3, <2>7 DEF PreviousArtifact, At, GotoWith, Recorded, TypeOK, Job
    <3>2. Memory(t)'
      BY <1>1, <1>2, <3>1
    <3>3. QED
      BY <1>4, <1>6, <1>8, <2>7, <3>2 DEF PreviousArtifact, tables
  <2>8. QED
    BY <1>8, <2>1, <2>2, <2>3, <2>4, <2>5, <2>6, <2>7 DEF HandlerStep
<1>9. ASSUME NEW b \in Builders, TrustAdd(b) \/ TrustRemove(b)
      PROVE  Grounded'
  BY <1>4, <1>5, <1>9 DEF TrustAdd, TrustRemove, Grounded
<1>10. CASE Crash
  BY <1>4, <1>10 DEF Crash, Grounded, NeedsStored
<1>11. CASE UNCHANGED vars
  BY <1>4, <1>5, <1>11 DEF vars, Grounded
<1>12. QED
  BY <1>7, <1>8, <1>9, <1>10, <1>11 DEF Next

\* The registry never names what the store or the artifact table does not
\* have: put, put_artifact, upsert_app and record_deploy run in that order, and
\* nothing is deleted.
THEOREM RegistryGrounded == Spec => []NothingMissing
<1>1. Init => Grounded
  <2> SUFFICES ASSUME Init
               PROVE  Grounded
    OBVIOUS
  <2>1. \A a \in Apps : Recorded(a) \cup ({app[a]} \ {NoArtifact}) = {}
    <3>1. Len(<<>>) = 0
      OBVIOUS
    <3>2. \A a \in Apps : history[a] = <<>> /\ app[a] = NoArtifact
      BY DEF Init
    <3>3. \A a \in Apps : 1..Len(history[a]) = {}
      BY <3>1, <3>2
    <3>4. QED
      BY <3>2, <3>3 DEF Recorded
  <2>2. \A t \in Handlers : pc[t] = "idle"
    BY DEF Init
  <2>3. QED
    BY <2>1, <2>2 DEF Grounded, NothingMissing, NeedsStored
<1>2. Grounded => NothingMissing
  BY DEF Grounded
<1>3. QED
  BY <1>1, <1>2, TypeCorrect, GroundedStep, PTL DEF Spec
-----------------------------------------------------------------------------
\* Every step keeps HistoryComplete: whoever points an app at an artifact is
\* the one that records it next.
LEMMA HistoryStep ==
    ASSUME TypeOK, HistoryComplete, [Next]_vars
    PROVE  HistoryComplete'
<1> DEFINE Told(a) ==
      \/ app[a] \in Recorded(a)
      \/ \E t \in Handlers : pc[t] = "record_deploy" /\ job[t].app = a /\ job[t].artifact = app[a]
<1> SUFFICES ASSUME crashes' = 0, NEW a \in Apps, app'[a] # NoArtifact
             PROVE  Told(a)'
  BY DEF HistoryComplete
<1>1. ~Crash
  BY DEF Crash, TypeOK
<1>2. crashes = 0
  BY <1>1 DEF Next, vars, Request, HandlerStep, Deploy, Rollback, PutHas, OpenJam, WriteJam,
     OpenBin, WriteBin, Chmod, PutFails, PutArtifact, Assess, SetVerification, UpsertApp,
     RecordDeploy, PreviousArtifact, NothingToRollBackTo, SetAppArtifact, TrustAdd, TrustRemove
<1>3. app[a] # NoArtifact => Told(a)
  BY <1>2 DEF HistoryComplete
<1>4. ASSUME UNCHANGED <<app, history>>,
             NEW t \in Handlers, HandlerStep(t) \/ Request(t), pc[t] # "record_deploy"
      PROVE  Told(a)'
  <2>1. Recorded(a)' = Recorded(a)
    BY <1>4 DEF Recorded
  <2>2. QED
    BY <1>3, <1>4, <2>1, OthersStay
<1>5. ASSUME NEW t \in Handlers, UpsertApp(t) \/ SetAppArtifact(t)
      PROVE  Told(a)'
  <2>1. /\ app' = [app EXCEPT ![job[t].app] = job[t].artifact] /\ UNCHANGED <<history, job>>
        /\ pc'[t] = "record_deploy" /\ pc[t] # "record_deploy"
    BY <1>5 DEF UpsertApp, SetAppArtifact, At, Goto, TypeOK
  <2>2. CASE job[t].app = a
    BY <2>1, <2>2 DEF TypeOK
  <2>3. CASE job[t].app # a
    <3>1. app'[a] = app[a] /\ Recorded(a)' = Recorded(a)
      BY <2>1, <2>3 DEF TypeOK, Recorded
    <3>2. QED
      BY <1>3, <1>5, <2>1, <3>1, OthersStay DEF HandlerStep
  <2>4. QED
    BY <2>2, <2>3
<1>6. ASSUME NEW t \in Handlers, RecordDeploy(t)
      PROVE  Told(a)'
  <2>1. /\ UNCHANGED app /\ pc[t] = "record_deploy"
        /\ history' = [history EXCEPT ![job[t].app] = Append(@, job[t].artifact)]
    BY <1>6 DEF RecordDeploy, At
  <2>2. Recorded(a) \subseteq Recorded(a)'
    BY <2>1 DEF TypeOK, Recorded
  <2>3. CASE job[t].app = a /\ job[t].artifact = app[a]
    <3>1. history[a] \in Seq(Artifacts) /\ history'[a] = Append(history[a], app[a])
      BY <2>1, <2>3 DEF TypeOK
    <3>2. Len(history'[a]) = Len(history[a]) + 1 /\ history'[a][Len(history[a]) + 1] = app[a]
      BY <3>1
    <3>3. Len(history[a]) + 1 \in 1..Len(history'[a])
      BY <3>1, <3>2
    <3>4. QED
      BY <2>1, <3>2, <3>3 DEF Recorded
  <2>4. CASE ~(job[t].app = a /\ job[t].artifact = app[a])
    BY <1>3, <1>6, <2>1, <2>2, <2>4, OthersStay DEF HandlerStep
  <2>5. QED
    BY <2>3, <2>4
<1>7. ASSUME UNCHANGED <<app, history, pc, job>>
      PROVE  Told(a)'
  BY <1>3, <1>7 DEF Recorded
<1>8. ASSUME NEW t \in Handlers, HandlerStep(t) \/ Request(t)
      PROVE  Told(a)'
  <2>1. CASE \/ UpsertApp(t) \/ SetAppArtifact(t) \/ RecordDeploy(t)
    BY <1>5, <1>6, <2>1
  <2>2. CASE ~(UpsertApp(t) \/ SetAppArtifact(t) \/ RecordDeploy(t))
    <3>1. UNCHANGED <<app, history>> /\ pc[t] # "record_deploy"
      BY <1>8, <2>2 DEF HandlerStep, Request, Deploy, Rollback, PutHas, OpenJam, WriteJam,
         OpenBin, WriteBin, Chmod, PutFails, PutArtifact, Assess, SetVerification,
         PreviousArtifact, NothingToRollBackTo, tables, At, PutSteps
    <3>2. QED
      BY <1>4, <1>8, <3>1
  <2>3. QED
    BY <2>1, <2>2
<1>9. QED
  BY <1>1, <1>7, <1>8 DEF Next, vars, TrustAdd, TrustRemove

\* As long as the daemon is not killed between upsert_app and record_deploy,
\* the artifact an app points at is in its history or being recorded.
THEOREM HistoryTellsAll == Spec => []HistoryComplete
<1>1. Init => HistoryComplete
  BY DEF Init, HistoryComplete
<1>2. QED
  BY <1>1, TypeCorrect, HistoryStep, PTL DEF Spec

-----------------------------------------------------------------------------
\* Why a handler may hold the verdict "verified" (attest::assess, api.rs).
Evidence ==
    \A t \in Handlers :
        pc[t] = "set_verification" /\ job[t].status = "verified" =>
            /\ job[t].att.kind = "signed" /\ job[t].att.artifact = job[t].artifact
            /\ job[t].builder = job[t].att.builder

\* Only assess computes a verdict, and it looks at the signature, the artifact
\* and the trusted builders.
LEMMA EvidenceStep ==
    ASSUME TypeOK, Evidence, [Next]_vars
    PROVE  Evidence'
<1> DEFINE Sound(t) ==
      pc[t] = "set_verification" /\ job[t].status = "verified" =>
          /\ job[t].att.kind = "signed" /\ job[t].att.artifact = job[t].artifact
          /\ job[t].builder = job[t].att.builder
<1>1. ASSUME NEW t \in Handlers, HandlerStep(t) \/ Request(t)
      PROVE  Sound(t)'
  <2>1. CASE Assess(t)
    <3> DEFINE verdict == Assessed(job[t].att, job[t].artifact)
    <3>1. job[t] \in Job
      BY <2>1 DEF Assess, At, TypeOK
    <3>2. job[t].att \in Attestation
      BY <3>1, AttachedAssumption DEF Job
    <3>3. verdict.status = "verified" =>
             /\ job[t].att.kind = "signed" /\ job[t].att.artifact = job[t].artifact
             /\ verdict.builder = job[t].att.builder
      BY <3>2 DEF Assessed, Attestation, Binds
    <3>4. job'[t] = [job[t] EXCEPT !.status = verdict.status, !.builder = verdict.builder]
      BY <2>1 DEF Assess, GotoWith, TypeOK
    <3>5. /\ job'[t].status = verdict.status /\ job'[t].builder = verdict.builder
          /\ job'[t].att = job[t].att /\ job'[t].artifact = job[t].artifact
      BY <3>1, <3>4 DEF Job
    <3>6. QED
      BY <3>3, <3>5
  <2>2. CASE ~Assess(t)
    <3>1. pc'[t] # "set_verification"
      BY <1>1, <2>2 DEF HandlerStep, Request, Deploy, Rollback, PutHas, OpenJam, WriteJam,
         OpenBin, WriteBin, Chmod, PutFails, PutArtifact, SetVerification, UpsertApp,
         RecordDeploy, PreviousArtifact, NothingToRollBackTo, SetAppArtifact,
         Goto, GotoWith, Answered, TypeOK
    <3>2. QED
      BY <3>1
  <2>3. QED
    BY <2>1, <2>2
<1>2. ASSUME NEW t \in Handlers, HandlerStep(t) \/ Request(t)
      PROVE  Evidence'
  BY <1>1, <1>2, OthersStay DEF Evidence
<1>3. CASE UNCHANGED <<pc, job>>
  BY <1>3 DEF Evidence
<1>4. CASE Crash
  BY <1>4 DEF Crash, Evidence
<1>5. QED
  BY <1>2, <1>3, <1>4 DEF Next, vars, TrustAdd, TrustRemove

\* The step that makes an artifact verified writes the verdict of an
\* attestation of these very bytes, and names its builder.
LEMMA VerifiedStep ==
    ASSUME TypeOK, Evidence, [Next]_vars, NEW h \in Artifacts,
           artifact'[h].status = "verified", artifact'[h] # artifact[h]
    PROVE  \E t \in Handlers :
              /\ pc[t] = "set_verification" /\ job[t].artifact = h
              /\ job[t].att.kind = "signed" /\ job[t].att.artifact = h
              /\ artifact'[h].builder = job[t].att.builder
<1>1. PICK t \in Handlers : PutArtifact(t) \/ SetVerification(t)
  BY DEF Next, vars, Request, HandlerStep, Deploy, Rollback, PutHas, OpenJam, WriteJam,
     OpenBin, WriteBin, Chmod, PutFails, Assess, UpsertApp, RecordDeploy, PreviousArtifact,
     NothingToRollBackTo, SetAppArtifact, TrustAdd, TrustRemove, Crash, store, tables
<1>2. CASE PutArtifact(t)
  BY <1>2 DEF PutArtifact, TypeOK
<1>3. CASE SetVerification(t)
  <2> DEFINE new == [status |-> job[t].status, builder |-> job[t].builder]
  <2>1. pc[t] = "set_verification" /\ artifact' = [artifact EXCEPT ![job[t].artifact] = new]
    BY <1>3 DEF SetVerification, At
  <2>2. job[t].artifact = h /\ artifact'[h] = new
    BY <2>1 DEF TypeOK
  <2>3. job[t].status = "verified" /\ artifact'[h].builder = job[t].builder
    BY <2>2
  <2>4. QED
    BY <2>1, <2>2, <2>3 DEF Evidence
<1>4. QED
  BY <1>1, <1>2, <1>3

\* Verification rests on an attestation: deploy writes "verified" only from
\* assess, whatever other requests, trust changes and crashes come between.
THEOREM VerifiedRestsOnEvidence == Spec => VerifiedOnEvidence
<1>1. Init => Evidence
  BY DEF Init, Evidence
<1>2. Spec => []Evidence
  BY <1>1, TypeCorrect, EvidenceStep, PTL DEF Spec
<1>3. TypeOK /\ Evidence /\ [Next]_vars =>
        [\A h \in Artifacts :
            artifact'[h].status = "verified" /\ artifact'[h] # artifact[h] =>
                \E t \in Handlers :
                    /\ pc[t] = "set_verification" /\ job[t].artifact = h
                    /\ job[t].att.kind = "signed" /\ job[t].att.artifact = h
                    /\ artifact'[h].builder = job[t].att.builder]_vars
  BY VerifiedStep
<1>4. QED
  BY <1>2, <1>3, TypeCorrect, PTL DEF Spec, VerifiedOnEvidence

-----------------------------------------------------------------------------
(***************************************************************************)
(* The files of an artifact.  A file that is not what it should be is in   *)
(* the hands of some handler, or was left so by one that failed or was     *)
(* killed; and the kernel is there before the binary.                      *)
(***************************************************************************)
Holds(t, step, h) == pc[t] = step /\ job[t].artifact = h

\* Whose work is missing when h's files are not as put leaves them.
Accounted(h) ==
    h \notin cut =>
        /\ files[h].jam = "torn" => \E t \in Handlers : Holds(t, "jam_open", h)
        /\ files[h].bin = "torn" => \E t \in Handlers : Holds(t, "bin_open", h)
        /\ files[h].bin = "whole" /\ ~files[h].executable =>
               \E t \in Handlers : Holds(t, "chmod", h)

\* Store::put writes the kernel first.
KernelFirst(h) ==
    h \in WithKernel /\ files[h].jam = "absent" =>
        /\ files[h].bin = "absent"
        /\ \A t \in Handlers :
              pc[t] \in {"bin", "bin_open", "chmod"} => job[t].artifact # h

FilesAccounted == \A h \in Artifacts : Accounted(h) /\ KernelFirst(h)

\* A handler that does not touch h's files and leaves none of its own work on
\* them undone.
LEMMA FilesOfOthers ==
    ASSUME TypeOK, NEW t \in Handlers, HandlerStep(t) \/ Request(t),
           NEW h \in Artifacts, Accounted(h), KernelFirst(h),
           files'[h] = files[h], h \in cut => h \in cut',
           h \in cut' \/ \A step \in {"jam_open", "bin_open", "chmod"} : ~Holds(t, step, h),
           \/ h \notin WithKernel \/ pc'[t] \notin {"bin", "bin_open", "chmod"}
           \/ job'[t].artifact # h
    PROVE  Accounted(h)' /\ KernelFirst(h)'
<1>1. \A u \in Handlers \ {t} : pc'[u] = pc[u] /\ job'[u] = job[u]
  BY OthersStay
<1>2. ASSUME NEW step \in {"jam_open", "bin_open", "chmod"}, h \notin cut',
             \E u \in Handlers : Holds(u, step, h)
      PROVE  \E u \in Handlers : Holds(u, step, h)'
  BY <1>1, <1>2 DEF Holds
<1>3. Accounted(h)'
  BY <1>2 DEF Accounted
<1>4. KernelFirst(h)'
  BY <1>1 DEF KernelFirst
<1>5. QED
  BY <1>3, <1>4

\* The handler that writes h's kernel or binary: what it finds undone it takes
\* over, what it leaves undone it has noted.
LEMMA FilesOfOwn ==
    ASSUME TypeOK, FilesAccounted, NEW t \in Handlers,
           NEW h \in Artifacts, job[t].artifact = h,
           \/ OpenJam(t) \/ WriteJam(t) \/ OpenBin(t) \/ WriteBin(t) \/ Chmod(t)
    PROVE  Accounted(h)' /\ KernelFirst(h)'
<1>0. HandlerStep(t) /\ job' = job /\ cut' = cut
  BY DEF HandlerStep, OpenJam, WriteJam, OpenBin, WriteBin, Chmod, Goto
<1>1. h \in Artifacts /\ pc[t] # "idle"
  BY DEF TypeOK, Job, OpenJam, WriteJam, OpenBin, WriteBin, Chmod, At
<1>2. \A u \in Handlers \ {t} : pc'[u] = pc[u]
  BY <1>0, OthersStay
<1>3. Accounted(h) /\ KernelFirst(h)
  BY <1>1 DEF FilesAccounted
<1>4. files \in [Artifacts -> [jam : Contents, bin : Contents, executable : BOOLEAN]]
  BY DEF TypeOK, Files
<1>5. ASSUME NEW step, Holds(t, step, h)'
      PROVE  \E u \in Handlers : Holds(u, step, h)'
  BY <1>5
<1>6. ASSUME NEW step, pc[t] # step, \E u \in Handlers : Holds(u, step, h)
      PROVE  \E u \in Handlers : Holds(u, step, h)'
  BY <1>0, <1>2, <1>6 DEF Holds
<1>7. CASE OpenJam(t)
  <2>1. /\ files'[h] = [files[h] EXCEPT !.jam = "torn"]
        /\ pc[t] = "jam" /\ pc'[t] = "jam_open"
    BY <1>1, <1>7 DEF OpenJam, At, Goto, TypeOK
  <2>2. /\ files'[h].jam = "torn" /\ files'[h].bin = files[h].bin
        /\ files'[h].executable = files[h].executable
    BY <1>1, <1>4, <2>1
  <2>3. Holds(t, "jam_open", h)'
    BY <1>0, <2>1 DEF Holds
  <2>4. QED
    BY <1>0, <1>3, <1>5, <1>6, <2>1, <2>2, <2>3 DEF Accounted, KernelFirst
<1>8. CASE WriteJam(t)
  <2>1. PICK contents \in Written(t, "jam_open") :
            files'[h] = [files[h] EXCEPT !.jam = contents]
    BY <1>1, <1>8 DEF WriteJam, TypeOK
  <2>2. /\ contents \in {"torn", "whole"} /\ pc[t] = "jam_open" /\ pc'[t] = "bin"
        /\ contents = "torn" => \E u \in Handlers \ {t} : Holds(u, "jam_open", h)
    BY <1>8, <2>1 DEF WriteJam, Written, At, Goto, TypeOK, Holds
  <2>3. /\ files'[h].jam = contents /\ files'[h].bin = files[h].bin
        /\ files'[h].executable = files[h].executable
    BY <1>1, <1>4, <2>1
  <2>4. contents = "torn" => \E u \in Handlers : Holds(u, "jam_open", h)'
    BY <1>0, <1>2, <2>2 DEF Holds
  <2>5. QED
    BY <1>0, <1>3, <1>6, <2>2, <2>3, <2>4 DEF Accounted, KernelFirst
<1>9. CASE OpenBin(t)
  <2>1. /\ files'[h] = [files[h] EXCEPT !.bin = "torn"]
        /\ pc[t] = "bin" /\ pc'[t] = "bin_open"
    BY <1>1, <1>9 DEF OpenBin, At, Goto, TypeOK
  <2>2. /\ files'[h].bin = "torn" /\ files'[h].jam = files[h].jam
        /\ files'[h].executable = files[h].executable
    BY <1>1, <1>4, <2>1
  <2>3. Holds(t, "bin_open", h)'
    BY <1>0, <2>1 DEF Holds
  <2>4. h \in WithKernel => files'[h].jam # "absent"
    BY <1>3, <2>1, <2>2 DEF KernelFirst
  <2>5. QED
    BY <1>0, <1>3, <1>5, <1>6, <2>1, <2>2, <2>3, <2>4 DEF Accounted, KernelFirst
<1>10. CASE WriteBin(t)
  <2>1. PICK contents \in Written(t, "bin_open") :
            files'[h] = [files[h] EXCEPT !.bin = contents]
    BY <1>1, <1>10 DEF WriteBin, TypeOK
  <2>2. /\ contents \in {"torn", "whole"} /\ pc[t] = "bin_open" /\ pc'[t] = "chmod"
        /\ contents = "torn" => \E u \in Handlers \ {t} : Holds(u, "bin_open", h)
    BY <1>10, <2>1 DEF WriteBin, Written, At, Goto, TypeOK, Holds
  <2>3. /\ files'[h].bin = contents /\ files'[h].jam = files[h].jam
        /\ files'[h].executable = files[h].executable
    BY <1>1, <1>4, <2>1
  <2>4. contents = "torn" => \E u \in Handlers : Holds(u, "bin_open", h)'
    BY <1>0, <1>2, <2>2 DEF Holds
  <2>5. Holds(t, "chmod", h)'
    BY <1>0, <2>2 DEF Holds
  <2>6. h \in WithKernel => files'[h].jam # "absent"
    BY <1>3, <2>2, <2>3 DEF KernelFirst
  <2>7. QED
    BY <1>0, <1>3, <1>5, <1>6, <2>2, <2>3, <2>4, <2>5, <2>6 DEF Accounted, KernelFirst
<1>11. CASE Chmod(t)
  <2>1. /\ files'[h] = [files[h] EXCEPT !.executable = TRUE]
        /\ pc[t] = "chmod" /\ pc'[t] = "put_artifact"
    BY <1>1, <1>11 DEF Chmod, At, Goto, TypeOK
  <2>2. /\ files'[h].jam = files[h].jam /\ files'[h].bin = files[h].bin
        /\ files'[h].executable
    BY <1>1, <1>4, <2>1
  <2>3. h \in WithKernel => files'[h].jam # "absent"
    BY <1>3, <2>1, <2>2 DEF KernelFirst
  <2>4. QED
    BY <1>0, <1>3, <1>6, <2>1, <2>2, <2>3 DEF Accounted, KernelFirst
<1>12. QED
  BY <1>7, <1>8, <1>9, <1>10, <1>11

LEMMA FilesStep ==
    ASSUME TypeOK, FilesAccounted, [Next]_vars
    PROVE  FilesAccounted'
<1> SUFFICES ASSUME NEW h \in Artifacts
             PROVE  Accounted(h)' /\ KernelFirst(h)'
  BY DEF FilesAccounted
<1>1. Accounted(h) /\ KernelFirst(h)
  BY DEF FilesAccounted
<1>2. ASSUME NEW t \in Handlers, Request(t)
      PROVE  Accounted(h)' /\ KernelFirst(h)'
  <2>1. /\ files' = files /\ cut' = cut
        /\ pc[t] = "idle" /\ pc'[t] \in {"has", "previous_artifact"}
    BY <1>2 DEF Request, Deploy, Rollback, At, GotoWith, store, TypeOK
  <2>2. QED
    BY <1>1, <1>2, <2>1, FilesOfOthers DEF Holds
<1>3. ASSUME NEW t \in Handlers,
             \/ OpenJam(t) \/ WriteJam(t) \/ OpenBin(t) \/ WriteBin(t) \/ Chmod(t)
      PROVE  Accounted(h)' /\ KernelFirst(h)'
  <2>1. CASE job[t].artifact = h
    BY <1>3, <2>1, FilesOfOwn
  <2>2. CASE job[t].artifact # h
    <3>1. files'[h] = files[h]
      <4>1. CASE OpenJam(t)
        BY <2>2, <4>1 DEF OpenJam, TypeOK
      <4>2. CASE WriteJam(t)
        BY <2>2, <4>2 DEF WriteJam, TypeOK
      <4>3. CASE OpenBin(t)
        BY <2>2, <4>3 DEF OpenBin, TypeOK
      <4>4. CASE WriteBin(t)
        BY <2>2, <4>4 DEF WriteBin, TypeOK
      <4>5. CASE Chmod(t)
        BY <2>2, <4>5 DEF Chmod, TypeOK
      <4>6. QED
        BY <1>3, <4>1, <4>2, <4>3, <4>4, <4>5
    <3>2. HandlerStep(t) /\ job' = job /\ cut' = cut
      BY <1>3 DEF HandlerStep, OpenJam, WriteJam, OpenBin, WriteBin, Chmod, Goto
    <3>3. QED
      BY <1>1, <2>2, <3>1, <3>2, FilesOfOthers DEF Holds
  <2>3. QED
    BY <2>1, <2>2
<1>4. ASSUME NEW t \in Handlers, PutHas(t)
      PROVE  Accounted(h)' /\ KernelFirst(h)'
  <2>1. /\ HandlerStep(t) /\ files' = files /\ cut' = cut /\ job' = job
        /\ pc[t] = "has"
        /\ \/ pc'[t] \in {"put_artifact", "jam"}
           \/ pc'[t] = "bin" /\ job[t].artifact \notin WithKernel
    BY <1>4 DEF HandlerStep, PutHas, At, Goto, store, TypeOK
  <2>2. QED
    BY <1>1, <2>1, FilesOfOthers DEF Holds
\* put gave up: what was open is not accounted for any more.
<1>5. ASSUME NEW t \in Handlers, PutFails(t)
      PROVE  Accounted(h)' /\ KernelFirst(h)'
  <2>1. /\ HandlerStep(t) /\ files' = files /\ cut \subseteq cut' /\ pc'[t] = "idle"
        /\ pc[t] \in {"jam", "bin"} \/ job[t].artifact \in cut'
    BY <1>5 DEF HandlerStep, PutFails, Answered, GotoWith, TypeOK
  <2>2. QED
    BY <1>1, <2>1, FilesOfOthers DEF Holds
<1>6. ASSUME NEW t \in Handlers,
             \/ PutArtifact(t) \/ Assess(t) \/ SetVerification(t) \/ UpsertApp(t)
             \/ RecordDeploy(t) \/ PreviousArtifact(t) \/ NothingToRollBackTo(t)
             \/ SetAppArtifact(t)
      PROVE  Accounted(h)' /\ KernelFirst(h)'
  <2>1. HandlerStep(t) /\ files' = files /\ cut' = cut
    BY <1>6 DEF HandlerStep, PutArtifact, Assess, SetVerification, UpsertApp, RecordDeploy,
       PreviousArtifact, NothingToRollBackTo, SetAppArtifact, store
  <2>2. /\ pc[t] \notin {"jam_open", "bin_open", "chmod"}
        /\ pc'[t] \notin {"bin", "bin_open", "chmod"}
    BY <1>6 DEF PutArtifact, Assess, SetVerification, UpsertApp, RecordDeploy,
       PreviousArtifact, NothingToRollBackTo, SetAppArtifact, At, Goto, GotoWith,
       Answered, TypeOK
  <2>3. QED
    BY <1>1, <2>1, <2>2, FilesOfOthers DEF Holds
<1>7. ASSUME NEW b \in Builders, TrustAdd(b) \/ TrustRemove(b)
      PROVE  Accounted(h)' /\ KernelFirst(h)'
  BY <1>1, <1>7 DEF TrustAdd, TrustRemove, store, Accounted, KernelFirst, Holds
\* Whoever had a file open when the daemon was killed left it as it was.
<1>8. CASE Crash
  <2>1. /\ files' = files /\ \A t \in Handlers : pc'[t] = "idle"
        /\ cut' = cut \cup {g \in Artifacts : \E t \in Putting(g) : pc[t] \notin {"jam", "bin"}}
    BY <1>8 DEF Crash
  <2>2. \A step \in {"jam_open", "bin_open", "chmod"}, t \in Handlers :
            Holds(t, step, h) => h \in cut'
    BY <2>1 DEF Holds, Putting, PutSteps
  <2>3. Accounted(h)'
    BY <1>1, <2>1, <2>2 DEF Accounted
  <2>4. KernelFirst(h)'
    BY <1>1, <2>1 DEF KernelFirst
  <2>5. QED
    BY <2>3, <2>4
<1>9. CASE UNCHANGED vars
  BY <1>1, <1>9 DEF vars, Accounted, KernelFirst, Holds
<1>10. QED
  BY <1>2, <1>3, <1>4, <1>5, <1>6, <1>7, <1>8, <1>9 DEF Next, HandlerStep

\* A stored artifact that nobody is putting and no put of which was cut short
\* can run.
LEMMA AccountedRuns ==
    ASSUME TypeOK, NEW h \in Artifacts, Accounted(h), KernelFirst(h),
           files[h].bin # "absent", Putting(h) = {}, h \notin cut
    PROVE  Runnable(h)
<1>1. \A t \in Handlers, step \in {"jam_open", "bin_open", "chmod"} : ~Holds(t, step, h)
  BY DEF Putting, PutSteps, Holds
<1>2. files[h] \in [jam : Contents, bin : Contents, executable : BOOLEAN]
  BY DEF TypeOK, Files
<1>3. files[h].bin = "whole" /\ files[h].executable /\ files[h].jam # "torn"
  BY <1>1, <1>2 DEF Accounted, Contents
<1>4. h \in WithKernel => files[h].jam = "whole"
  BY <1>2, <1>3 DEF KernelFirst, Contents
<1>5. QED
  BY <1>3, <1>4 DEF Runnable

LEMMA FilesAlwaysAccounted == Spec => []FilesAccounted
<1>1. Init => FilesAccounted
  <2> SUFFICES ASSUME Init, NEW h \in Artifacts
               PROVE  Accounted(h) /\ KernelFirst(h)
    BY DEF FilesAccounted
  <2>1. files[h].jam = "absent" /\ files[h].bin = "absent" /\ \A t \in Handlers : pc[t] = "idle"
    BY DEF Init
  <2>2. QED
    BY <2>1 DEF Accounted, KernelFirst
<1>2. QED
  BY <1>1, TypeCorrect, FilesStep, PTL DEF Spec

\* What an app points at can run, and so can whatever a rollback may point it
\* at, however puts of one artifact overlap and wherever the daemon is killed:
\* except while a put rewrites the files, and after a put that was cut short.
THEOREM HistoryRuns ==
    Spec => [](\A a \in Apps : \A h \in Recorded(a) \cup ({app[a]} \ {NoArtifact}) :
                  Runnable(h) \/ Putting(h) # {} \/ h \in cut)
<1>1. TypeOK /\ NothingMissing /\ FilesAccounted =>
        \A a \in Apps : \A h \in Recorded(a) \cup ({app[a]} \ {NoArtifact}) :
            Runnable(h) \/ Putting(h) # {} \/ h \in cut
  <2> SUFFICES ASSUME TypeOK, NothingMissing, FilesAccounted, NEW a \in Apps,
                      NEW h \in Recorded(a) \cup ({app[a]} \ {NoArtifact}),
                      Putting(h) = {}, h \notin cut
               PROVE  Runnable(h)
    OBVIOUS
  <2>1. h \in Artifacts
    <3>1. history[a] \in Seq(Artifacts)
      BY DEF TypeOK
    <3>2. \A i \in 1..Len(history[a]) : history[a][i] \in Artifacts
      BY <3>1
    <3>3. QED
      BY <3>2 DEF TypeOK, Recorded
  <2>2. files[h].bin # "absent"
    BY DEF NothingMissing
  <2>3. QED
    BY <2>1, <2>2, AccountedRuns DEF FilesAccounted
<1>2. QED
  BY <1>1, TypeCorrect, RegistryGrounded, FilesAlwaysAccounted, PTL

\* An app row names an artifact that can run, unless a request is rewriting its
\* files or a put of it was once cut short: put writes the files before deploy
\* names them, and a put that finds both files there leaves them alone.
THEOREM DeployedRuns == Spec => []DeployedIsRunnable
<1>1. (\A a \in Apps : \A h \in Recorded(a) \cup ({app[a]} \ {NoArtifact}) :
          Runnable(h) \/ Putting(h) # {} \/ h \in cut)
        => DeployedIsRunnable
  BY DEF DeployedIsRunnable
<1>2. QED
  BY <1>1, HistoryRuns, PTL
=============================================================================
