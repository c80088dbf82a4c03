----------------------------- MODULE Deployments -----------------------------
(***************************************************************************)
(* What a deploy leaves behind: the files of the artifact store            *)
(* (src/src/store.rs), the artifact, app, deploy_history and               *)
(* trusted_builder tables (src/src/registry.rs), and the part of the       *)
(* deploy, rollback and trust handlers (src/src/api.rs) that writes them.  *)
(* A SQLite statement is atomic and survives the daemon; a file is opened, *)
(* which empties it, and written after that; several handlers run at once  *)
(* and the daemon may be killed between any two steps.  The restart that   *)
(* ends both handlers is in module Daemon.                                 *)
(*                                                                         *)
(* Hashes are model values: an artifact is its bytes, and its kernel hash  *)
(* follows from it.  Signatures are a matter of an attestation's kind.     *)
(***************************************************************************)
EXTENDS Naturals, Sequences, FiniteSets

CONSTANTS
    Apps,
    NoApp,
    Artifacts,     \* artifact hashes
    WithKernel,    \* artifacts shipped with an out.jam; the others embed it
    NoArtifact,
    Builders,      \* public keys
    NoBuilder,
    OwnKeys,       \* this host's builder key, if it has one
    Handlers,      \* bound: deploys and rollbacks served at the same time
    Attached,      \* bound: the attestations that deploys carry
    MaxDeploys,    \* bound: rows of an app's deploy_history when a deploy begins
    MaxHistory,    \* bound: rows of an app's deploy_history
    MaxCrashes     \* bound: times the daemon is killed

ASSUME NoArtifactAssumption == NoArtifact \notin Artifacts
ASSUME OwnKeysAssumption == OwnKeys \subseteq Builders
ASSUME WithKernelAssumption == WithKernel \subseteq Artifacts
ASSUME NoBuilderAssumption == NoBuilder \notin Builders
ASSUME BoundsAssumption == MaxDeploys \in Nat /\ MaxHistory \in Nat /\ MaxCrashes \in Nat

\* What a deploy request carries: nothing, text that does not parse, or a
\* statement about an artifact with a valid or an invalid signature.
Attestation ==
    [kind : {"none", "malformed", "forged", "signed"},
     builder : Builders \cup {NoBuilder}, artifact : Artifacts \cup {NoArtifact}]

ASSUME AttachedAssumption == Attached \subseteq {att \in Attestation :
    att.kind = "signed" => att.builder \in Builders}

NoAttestation == [kind |-> "none", builder |-> NoBuilder, artifact |-> NoArtifact]

ASSUME NoAttestationAssumption == NoAttestation \in Attached

Status == {"verified", "unverified", "drift"}

\* Contents of a file of an artifact directory.
Contents == {"absent", "torn", "whole"}

VARIABLES
    files,     \* files[h]: the kernel and the binary in h's directory
    artifact,  \* artifact[h]: h's row of the artifact table
    app,       \* app[a]: the artifact of a's row of the app table
    history,   \* history[a]: a's rows of deploy_history, oldest first
    trusted,   \* the trusted_builder table
    job,       \* job[t]: what handler t has read and computed
    pc,        \* pc[t]: where handler t is
    crashes,   \* times the daemon was killed
    cut,       \* artifacts with a put cut short (auxiliary)
    attested   \* artifacts that were recorded as verified (auxiliary)

vars == <<files, artifact, app, history, trusted, job, pc, crashes, cut, attested>>

Files == [jam : Contents, bin : Contents, executable : BOOLEAN]

ArtifactRow == [status : Status \cup {"null", "no row"}, builder : Builders \cup {NoBuilder}]

Job == [app : Apps, artifact : Artifacts, att : Attached,
        status : Status, builder : Builders \cup {NoBuilder}]

NoJob == [app |-> NoApp]

PutSteps == {"has", "jam", "jam_open", "bin", "bin_open", "chmod"}
Steps == PutSteps \cup {"put_artifact", "assess", "set_verification", "upsert_app",
                        "previous_artifact", "set_app_artifact", "record_deploy"}

TypeOK ==
    /\ files \in [Artifacts -> Files]
    /\ artifact \in [Artifacts -> ArtifactRow]
    /\ app \in [Apps -> Artifacts \cup {NoArtifact}]
    /\ history \in [Apps -> Seq(Artifacts)]
    /\ trusted \in SUBSET Builders
    /\ pc \in [Handlers -> Steps \cup {"idle"}]
    /\ job \in [Handlers -> Job \cup {NoJob}]
    /\ \A t \in Handlers : pc[t] # "idle" => job[t] \in Job
    /\ crashes \in Nat
    /\ cut \in SUBSET Artifacts
    /\ attested \in SUBSET Artifacts

Init ==
    /\ files = [h \in Artifacts |-> [jam |-> "absent", bin |-> "absent", executable |-> FALSE]]
    /\ artifact = [h \in Artifacts |-> [status |-> "no row", builder |-> NoBuilder]]
    /\ app = [a \in Apps |-> NoArtifact]
    /\ history = [a \in Apps |-> <<>>]
    /\ trusted = OwnKeys
    /\ job = [t \in Handlers |-> NoJob]
    /\ pc = [t \in Handlers |-> "idle"]
    /\ crashes = 0
    /\ cut = {}
    /\ attested = {}

-----------------------------------------------------------------------------
store == <<files, cut>>
tables == <<artifact, app, history, trusted, attested>>

At(t, step) == pc[t] = step
Goto(t, step) == pc' = [pc EXCEPT ![t] = step] /\ UNCHANGED job

\* Handler t goes on at step and remembers j.
GotoWith(t, step, j) ==
    /\ pc' = [pc EXCEPT ![t] = step]
    /\ job' = [job EXCEPT ![t] = j]

\* The request of handler t has been answered.
Answered(t) == GotoWith(t, "idle", NoJob)

\* Handlers that have h's files open or still to write.
Putting(h) == {t \in Handlers : pc[t] \in PutSteps \ {"has"} /\ job[t].artifact = h}

Busy == {t \in Handlers : pc[t] # "idle"}

NewJob(a, h, att) ==
    [app |-> a, artifact |-> h, att |-> att, status |-> "unverified", builder |-> NoBuilder]

\* A POST of artifact h for app a, up to store.put.
Deploy(t, a, h, att) ==
    /\ At(t, "idle")
    /\ Len(history[a]) + Cardinality(Busy) < MaxDeploys
    /\ GotoWith(t, "has", NewJob(a, h, att))
    /\ UNCHANGED <<store, tables, crashes>>

-----------------------------------------------------------------------------
\* Store::put.

\* Faulty variant: the kernel alone tells that the artifact is there.
HasKernelFile(h) == files[h].jam # "absent"

\* Both files exist, whatever is in them: never so without a kernel.
Has(h) == files[h].bin # "absent" /\ files[h].jam # "absent"

PutHas(t) ==
    LET h == job[t].artifact
    IN  /\ At(t, "has")
        /\ Goto(t, IF Has(h) THEN "put_artifact"
                   ELSE IF h \in WithKernel THEN "jam" ELSE "bin")
        /\ UNCHANGED <<store, tables, crashes>>

\* fs::write opens the kernel, which creates or empties it, ...
OpenJam(t) ==
    /\ At(t, "jam")
    /\ files' = [files EXCEPT ![job[t].artifact].jam = "torn"]
    /\ Goto(t, "jam_open")
    /\ UNCHANGED <<tables, crashes, cut>>

\* What is in a file after a write: when another handler has opened it again
\* in the meantime, the bytes may be there or not.
Written(t, step) ==
    IF \E u \in Handlers \ {t} : At(u, step) /\ job[u].artifact = job[t].artifact
    THEN {"torn", "whole"} ELSE {"whole"}

\* ... and writes the bytes.
WriteJam(t) ==
    /\ At(t, "jam_open")
    /\ \E contents \in Written(t, "jam_open") :
           files' = [files EXCEPT ![job[t].artifact].jam = contents]
    /\ Goto(t, "bin")
    /\ UNCHANGED <<tables, crashes, cut>>

OpenBin(t) ==
    /\ At(t, "bin")
    /\ files' = [files EXCEPT ![job[t].artifact].bin = "torn"]
    /\ Goto(t, "bin_open")
    /\ UNCHANGED <<tables, crashes, cut>>

WriteBin(t) ==
    /\ At(t, "bin_open")
    /\ \E contents \in Written(t, "bin_open") :
           files' = [files EXCEPT ![job[t].artifact].bin = contents]
    /\ Goto(t, "chmod")
    /\ UNCHANGED <<tables, crashes, cut>>

\* Faulty variant: the mode is left as it is.
SkipChmod(t) ==
    /\ At(t, "chmod")
    /\ Goto(t, "put_artifact")
    /\ UNCHANGED <<store, tables, crashes>>

Chmod(t) ==
    /\ At(t, "chmod")
    /\ files' = [files EXCEPT ![job[t].artifact].executable = TRUE]
    /\ Goto(t, "put_artifact")
    /\ UNCHANGED <<tables, crashes, cut>>

\* A file operation fails (no space, or the binary of a running process is
\* opened for writing): the request is answered with an error.
PutFails(t) ==
    LET h == job[t].artifact
    IN  /\ pc[t] \in PutSteps \ {"has"}
        /\ cut' = IF pc[t] \in {"jam", "bin"} THEN cut ELSE cut \cup {h}
        /\ Answered(t)
        /\ UNCHANGED <<files, tables, crashes>>

-----------------------------------------------------------------------------
\* Registry writes of deploy.

\* INSERT OR REPLACE: a row that was there loses its status and its builder.
PutArtifact(t) ==
    /\ At(t, "put_artifact")
    /\ artifact' = [artifact EXCEPT ![job[t].artifact] =
           [status |-> "null", builder |-> NoBuilder]]
    /\ Goto(t, "assess")
    /\ UNCHANGED <<store, app, history, trusted, attested, crashes>>

\* Faulty variant: whatever a trusted builder has signed is good.
BindsAnything(att, h) == att.artifact \in Artifacts

Binds(att, h) == att.artifact = h

\* Faulty variant: a deploy without an attestation leaves no verdict.
AssessedOrNull(att, h) ==
    [status |-> IF att.kind = "none" THEN "null" ELSE "drift", builder |-> att.builder]

\* attest::assess and what deploy makes of a missing or malformed attestation.
Assessed(att, h) ==
    CASE att.kind = "none"                 -> [status |-> "unverified", builder |-> NoBuilder]
      [] att.kind \in {"malformed", "forged"} -> [status |-> "drift", builder |-> NoBuilder]
      [] att.kind = "signed" ->
            [status |-> IF ~Binds(att, h) THEN "drift"
                        ELSE IF att.builder \in trusted THEN "verified" ELSE "unverified",
             builder |-> att.builder]

Assess(t) ==
    LET verdict == Assessed(job[t].att, job[t].artifact)
    IN  /\ At(t, "assess")
        /\ GotoWith(t, "set_verification",
               [job[t] EXCEPT !.status = verdict.status, !.builder = verdict.builder])
        /\ UNCHANGED <<store, tables, crashes>>

\* set_artifact_verification keeps a verified row from being downgraded.  A
\* request with a bad icon is refused only after that; any other goes on, with
\* no further use of its attestation.
SetVerification(t) ==
    LET h == job[t].artifact
        new == [status |-> job[t].status, builder |-> job[t].builder]
        kept == artifact[h].status = "verified" /\ new.status # "verified"
    IN  /\ At(t, "set_verification")
        /\ artifact' = IF kept THEN artifact ELSE [artifact EXCEPT ![h] = new]
        /\ attested' = IF new.status = "verified" THEN attested \cup {h} ELSE attested
        /\ \/ GotoWith(t, "upsert_app", NewJob(job[t].app, h, NoAttestation))
           \/ Answered(t)
        /\ UNCHANGED <<store, app, history, trusted, crashes>>

UpsertApp(t) ==
    /\ At(t, "upsert_app")
    /\ app' = [app EXCEPT ![job[t].app] = job[t].artifact]
    /\ Goto(t, "record_deploy")
    /\ UNCHANGED <<store, artifact, history, trusted, attested, crashes>>

\* Faulty variant: the history is not written.
SkipRecord(t) ==
    /\ At(t, "record_deploy")
    /\ Answered(t)
    /\ UNCHANGED <<store, tables, crashes>>

\* The last write of deploy and of rollback.
RecordDeploy(t) ==
    /\ At(t, "record_deploy")
    /\ history' = [history EXCEPT ![job[t].app] = Append(@, job[t].artifact)]
    /\ Answered(t)
    /\ UNCHANGED <<store, artifact, app, trusted, attested, crashes>>

-----------------------------------------------------------------------------
\* Rollback: the artifact of the row as it was read is in job[t].artifact until
\* the one to go back to has been looked up.
Rollback(t, a) ==
    /\ At(t, "idle")
    /\ app[a] # NoArtifact
    /\ Len(history[a]) + Cardinality(Busy) < MaxHistory
    /\ GotoWith(t, "previous_artifact", NewJob(a, app[a], NoAttestation))
    /\ UNCHANGED <<store, tables, crashes>>

\* Position i of history s holds the most recent artifact that is not h.
LastOther(s, i, h) ==
    /\ i \in 1..Len(s) /\ s[i] # h
    /\ \A j \in (i + 1)..Len(s) : s[j] = h

PreviousArtifact(t) ==
    LET past == history[job[t].app]
    IN  /\ At(t, "previous_artifact")
        /\ \E i \in 1..Len(past) :
               /\ LastOther(past, i, job[t].artifact)
               /\ GotoWith(t, "set_app_artifact", [job[t] EXCEPT !.artifact = past[i]])
        /\ UNCHANGED <<store, tables, crashes>>

\* 409: the app has run only one artifact.
NothingToRollBackTo(t) ==
    LET past == history[job[t].app]
    IN  /\ At(t, "previous_artifact")
        /\ \A i \in 1..Len(past) : ~LastOther(past, i, job[t].artifact)
        /\ Answered(t)
        /\ UNCHANGED <<store, tables, crashes>>

SetAppArtifact(t) ==
    /\ At(t, "set_app_artifact")
    /\ app' = [app EXCEPT ![job[t].app] = job[t].artifact]
    /\ Goto(t, "record_deploy")
    /\ UNCHANGED <<store, artifact, history, trusted, attested, crashes>>

-----------------------------------------------------------------------------
\* POST and DELETE of /api/v1/trust.
TrustAdd(b) ==
    /\ trusted' = trusted \cup {b}
    /\ UNCHANGED <<store, artifact, app, history, attested, job, pc, crashes>>

TrustRemove(b) ==
    /\ trusted' = trusted \ {b}
    /\ UNCHANGED <<store, artifact, app, history, attested, job, pc, crashes>>

\* The daemon is killed and started again: every handler is gone, the tables
\* and the files stay, and Daemon::new trusts the host's own key again.
Crash ==
    /\ crashes < MaxCrashes
    /\ crashes' = crashes + 1
    /\ cut' = cut \cup {h \in Artifacts : \E t \in Putting(h) : pc[t] \notin {"jam", "bin"}}
    /\ trusted' = trusted \cup OwnKeys
    /\ pc' = [t \in Handlers |-> "idle"]
    /\ job' = [t \in Handlers |-> NoJob]
    /\ UNCHANGED <<files, artifact, app, history, attested>>

-----------------------------------------------------------------------------
HandlerStep(t) ==
    \/ PutHas(t) \/ OpenJam(t) \/ WriteJam(t) \/ OpenBin(t) \/ WriteBin(t)
    \/ Chmod(t) \/ PutFails(t)
    \/ PutArtifact(t) \/ Assess(t) \/ SetVerification(t) \/ UpsertApp(t) \/ RecordDeploy(t)
    \/ PreviousArtifact(t) \/ NothingToRollBackTo(t) \/ SetAppArtifact(t)

Request(t) ==
    \E a \in Apps :
        \/ Rollback(t, a)
        \/ \E h \in Artifacts, att \in Attached : Deploy(t, a, h, att)

Next ==
    \/ \E t \in Handlers : Request(t) \/ HandlerStep(t)
    \/ \E b \in Builders : TrustAdd(b) \/ TrustRemove(b)
    \/ Crash

Spec == Init /\ [][Next]_vars

-----------------------------------------------------------------------------
Recorded(a) == {history[a][i] : i \in 1..Len(history[a])}

\* Whatever the registry names can be used: the artifact of an app and every
\* artifact a rollback may go back to has its row (the LEFT JOIN of list_apps
\* finds a kernel hash) and a binary in the store, wherever the daemon is
\* killed and whichever requests overlap.
NothingMissing ==
    \A a \in Apps : \A h \in Recorded(a) \cup ({app[a]} \ {NoArtifact}) :
        artifact[h].status # "no row" /\ files[h].bin # "absent"

\* The kernel and binary of h are complete and can be executed.
Runnable(h) ==
    /\ files[h].bin = "whole" /\ files[h].executable
    /\ h \in WithKernel => files[h].jam = "whole"

\* An app row names an artifact that can run, unless a request is rewriting
\* its files at this moment or a put of it was once cut short.
DeployedIsRunnable ==
    \A a \in Apps :
        app[a] # NoArtifact =>
            \/ Runnable(app[a])
            \/ Putting(app[a]) # {} \/ app[a] \in cut

\* An artifact becomes verified only by a deploy of these very bytes with a
\* valid attestation of a builder, and the row names that builder.
VerifiedOnEvidence ==
    [][\A h \in Artifacts :
          artifact'[h].status = "verified" /\ artifact'[h] # artifact[h] =>
              \E t \in Handlers :
                  /\ pc[t] = "set_verification" /\ job[t].artifact = h
                  /\ job[t].att.kind = "signed" /\ job[t].att.artifact = h
                  /\ artifact'[h].builder = job[t].att.builder]_vars

\* The history tells every artifact an app was pointed at, so that a rollback
\* can find it, except one that is being recorded or was lost to a crash.
HistoryComplete ==
    crashes = 0 =>
        \A a \in Apps :
            app[a] # NoArtifact =>
                \/ app[a] \in Recorded(a)
                \/ \E t \in Handlers : /\ pc[t] = "record_deploy"
                                       /\ job[t].app = a /\ job[t].artifact = app[a]

\* "Verified is sticky" (registry.rs): with nothing in flight, an artifact that
\* was once verified still is.
VerifiedSticky ==
    Busy = {} => \A h \in attested : artifact[h].status = "verified"
=============================================================================
