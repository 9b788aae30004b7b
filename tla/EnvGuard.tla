------------------------------- MODULE EnvGuard -------------------------------
(***************************************************************************)
(* The environment of one r2-bundle service: its files config.env and      *)
(* secret.env, the requests that edit them, the ConfigMap and the Secret   *)
(* in the cluster that others edit too, the baseline of what was applied,  *)
(* and the deploy that reads the files, guards, applies and rolls out.     *)
(*                                                                         *)
(* The files hold at most one key.  A file's content is the text after     *)
(* its =, the cluster holds the value that is parsed from it.              *)
(***************************************************************************)
EXTENDS Naturals, FiniteSets, EnvFiles

CONSTANTS
    Val,        \* values that are typed, and that others write into the cluster
    Raw,        \* texts that are put as they are
    None,       \* the file, object or baseline without the key
    Bad,        \* a file that does not parse
    Missing,    \* no file, no object, no pod template
    Failed,     \* kubectl answered with an error
    Slot,       \* bound: edits and editors open
    Modes,      \* the values of envGuard that are used: off, warn, block
    MaxEvents   \* bound: edits, deploys, edits by others and restarts

ASSUME EnvAssumption ==
    /\ Modes \subseteq {"off", "warn", "block"} /\ Modes # {}
    /\ IsFiniteSet(Slot)
    /\ \A v \in Val : IsFiniteSet(DOMAIN v) /\ v # <<>>
    /\ Cardinality({None, Bad, Missing, Failed}) = 4
    /\ MaxEvents \in Nat

VARIABLES
    mode,       \* cfg.envGuard of the running process
    file,       \* the env files
    live,       \* ConfigMap and Secret
    applied,    \* kubectl's record of what it applied last
    baseline,   \* table env_applied_hashes
    template,   \* contents whose hash the pod template carries
    rolling,    \* pods of a new template are still to come
    pods,       \* the environment the pods were started with
    tagged,     \* the service has a current tag
    edits,      \* editors open and PUT requests in flight
    job,        \* the deploy job
    pending,    \* history: kinds whose file was left unapplied for a reason
    hashSkew,   \* history: the pods started when the hash was of other contents than applied
    events      \* bound

vars == <<mode, file, live, applied, baseline, template, rolling, pods, tagged, edits, job,
          pending, hashSkew, events>>
cluster == <<live, applied, template, rolling, pods>>
history == <<pending, hashSkew>>

Kind == {"config", "secret"}
Other(k) == IF k = "config" THEN "secret" ELSE "config"
Blank == <<>>

\* The texts that occur, and what the server and the browser read in them.
Typed == Val \cup {Blank} \cup {ParsedRow(t) : t \in Raw}
Text == LET first == {SerializedRow(v) : v \in Typed} \cup Raw
        IN  first \cup {SerializedRow(BrowserRow(t)) : t \in first}
Parsed == [t \in Text |-> ParsedRow(t)]
Browsed == [t \in Text |-> BrowserRow(t)]
Row == {Parsed[t] : t \in Text} \cup {Browsed[t] : t \in Text}

\* rowErrors refuses invalid and duplicate keys: the rows of a file have the key or not.
RowsPut == Row \cup {None}

\* safeParseStored: a malformed file has no rows.
Stored(k) == IF file[k] \in {None, Bad, Missing} THEN None ELSE Parsed[file[k]]

\* What the cluster holds once a file with this content is applied.
Meaning(content) == IF content \in {None, Bad, Missing} THEN content ELSE Parsed[content]
Held(k) == Meaning(file[k])

Event == events < MaxEvents /\ events' = events + 1

Edit(at, k, v, meant) == [at |-> at, kind |-> k, value |-> v, meant |-> meant]
NoEdit == Edit("none", "config", None, None)
Free(s) == edits[s].at = "none"

JobAt(step, allow) ==
    [at |-> step, allow |-> allow, read |-> [k \in Kind |-> None],
     digests |-> FALSE, hash |-> None,
     seen |-> [k \in Kind |-> None]]      \* history: the live contents that were compared
NewJob(allow) == JobAt("queued", allow)
NoJob == JobAt("none", FALSE)
At(step) == job.at = step

\* The hash on the pod template: of the text of both files.
EnvHashOfConfig(config, secret) == [config |-> config, secret |-> None]   \* mutant: of one
EnvHash(config, secret) == [config |-> config, secret |-> secret]

Init ==
    /\ mode \in Modes
    /\ file = [k \in Kind |-> Missing] /\ live = [k \in Kind |-> Missing]
    /\ applied = [k \in Kind |-> None] /\ baseline = [k \in Kind |-> None]
    /\ template = EnvHash(Missing, Missing) /\ rolling = FALSE
    /\ pods = [k \in Kind |-> Missing] /\ tagged = FALSE
    /\ edits = [s \in Slot |-> NoEdit] /\ job = NoJob
    /\ pending = {} /\ hashSkew = FALSE
    /\ events = 0

-------------------------------------------------------------------------------
(* Editing: PUT /services/:name/env/:kind and /rows *)

\* The 409 of an edit whose key the other kind has (crossKindDuplicates).
Refused(k, v) == mode = "block" /\ v # None /\ Stored(Other(k)) # None

\* What a request does first: the other kind is read, unless the guard is off; then the
\* rows of a secret are merged with what is stored, and the others are written.
Asked(k, v, meant) == Edit(IF k = "secret" THEN "merge" ELSE "write", k, v, meant)

\* PUT .../rows
Put(s, k, v) ==
    /\ Event /\ Free(s)
    /\ v = Blank => k = "secret"
    /\ ~Refused(k, v)
    /\ edits' = [edits EXCEPT ![s] = Asked(k, v, v)]
    /\ UNCHANGED <<mode, file, cluster, baseline, tagged, job, history>>

\* PUT with the text itself, which alone may be malformed.
PutText(s, k, text) ==
    /\ Event /\ Free(s)
    /\ ~Refused(k, IF text = Bad THEN None ELSE Parsed[text])
    /\ edits' = [edits EXCEPT ![s] =
          Edit("text", k, text, IF text = Bad THEN None ELSE Parsed[text])]
    /\ UNCHANGED <<mode, file, cluster, baseline, tagged, job, history>>

\* GET: the key if the file has it, in a malformed file too (summary falls back to
\* keyScan); of config.env the text as well.
Shown(k) ==
    IF file[k] \in {None, Missing} THEN None
    ELSE IF k = "secret" THEN Blank
    ELSE IF file[k] = Bad THEN Bad ELSE Browsed[file[k]]

\* The editor opens.
Open(s, k) ==
    /\ Event /\ Free(s)
    /\ edits' = [edits EXCEPT ![s] = Edit("open", k, Shown(k), Stored(k))]
    /\ UNCHANGED <<mode, file, cluster, baseline, tagged, job, history>>

\* It is saved as it was opened.  A file with the key twice is not accepted before one
\* row is taken out; v is the other.
Save(s, v) ==
    /\ edits[s].at = "open"
    /\ LET r == edits[s]
       IN  IF r.value = Bad
           THEN ~Refused(r.kind, v) /\ edits' = [edits EXCEPT ![s] = Asked(r.kind, v, v)]
           ELSE /\ v = r.value /\ ~Refused(r.kind, v)
                /\ edits' = [edits EXCEPT ![s] = Asked(r.kind, v, r.meant)]
    /\ UNCHANGED <<mode, file, cluster, baseline, tagged, job, history, events>>

\* Mutant: an empty row empties the secret.
MergedAlways(k, v) == v

\* A blank secret row asks for the value that is stored.
Merged(k, v) == IF v = Blank /\ Stored(k) # None THEN Stored(k) ELSE v

PutMerged(s) ==
    /\ edits[s].at = "merge"
    /\ LET r == edits[s]
       IN  edits' = [edits EXCEPT ![s].at = "write", ![s].value = Merged(r.kind, r.value),
                                  ![s].meant = IF r.value = Blank /\ Stored(r.kind) # None
                                               THEN Stored(r.kind) ELSE r.value]
    /\ UNCHANGED <<mode, file, cluster, baseline, tagged, job, history, events>>

\* The new file is renamed into place.
PutWritten(s) ==
    /\ edits[s].at \in {"write", "text"}
    /\ LET r == edits[s]
       IN  file' = [file EXCEPT ![r.kind] =
                  IF r.at = "text" \/ r.value = None THEN r.value ELSE SerializedRow(r.value)]
    /\ edits' = [edits EXCEPT ![s] = Edit("redeploy", @.kind, None, None)]
    /\ UNCHANGED <<mode, cluster, baseline, tagged, job, pending, hashSkew, events>>

\* Mutant: the redeploy is forgotten after an edit of the secrets.
RedeployDueForConfig(k) == tagged /\ At("none") /\ k = "config"

\* The guards of enqueueAutoRedeploy that this model sees.
RedeployDue(k) == tagged /\ At("none")

\* enqueueAutoRedeploy.  Declined: the flag is off or the service degraded.
PutAnswered(s, declined) ==
    /\ edits[s].at = "redeploy"
    /\ LET k == edits[s].kind
       IN  /\ IF RedeployDue(k) /\ ~declined
              THEN Event /\ job' = NewJob(FALSE)
              ELSE UNCHANGED <<job, events>>
           /\ pending' = IF declined \/ ~tagged \/ ~At("none") THEN pending \cup {k} ELSE pending
    /\ edits' = [edits EXCEPT ![s] = NoEdit]
    /\ UNCHANGED <<mode, file, cluster, baseline, tagged, hashSkew>>

-------------------------------------------------------------------------------
(* Others *)

\* Someone edits or deletes the ConfigMap or the Secret.
Outside(k, v) ==
    /\ Event /\ live[k] # Missing /\ v # live[k]
    /\ live' = [live EXCEPT ![k] = v]
    /\ applied' = IF v = Missing THEN [applied EXCEPT ![k] = None] ELSE applied
    /\ pending' = pending \cup {k}
    /\ UNCHANGED <<mode, file, baseline, template, rolling, pods, tagged, edits, job,
                   hashSkew>>

\* The rollout starts pods with what the cluster holds by then.
PodsStart ==
    /\ rolling /\ \A k \in Kind : live[k] # Missing
    /\ pods' = live /\ rolling' = FALSE
    /\ hashSkew' = (\E k \in Kind : Meaning(template[k]) # live[k])
    /\ UNCHANGED <<mode, file, live, applied, baseline, template, tagged, edits, job, pending, events>>

\* The process dies and starts again, perhaps with another guard mode; the queue runs
\* the job again, the requests are lost.
Restart(m) ==
    /\ Event
    /\ mode' = m
    /\ edits' = [s \in Slot |-> NoEdit]
    /\ job' = IF At("none") THEN NoJob ELSE NewJob(job.allow)
    /\ pending' = pending \cup {k \in Kind : Held(k) # live[k]}
    /\ UNCHANGED <<file, cluster, baseline, tagged, hashSkew>>

-------------------------------------------------------------------------------
(* The deploy *)

Deploy(allow) ==
    /\ At("none") /\ Event /\ job' = NewJob(allow)
    /\ UNCHANGED <<mode, file, cluster, baseline, tagged, edits, history>>

\* A step failed: the queue retries it or gives up; a refusal is never retried.
Fails(retry) ==
    /\ \/ job' = NoJob /\ UNCHANGED events
       \/ retry /\ Event /\ job' = NewJob(job.allow)
    /\ pending' = pending \cup {k \in Kind : Held(k) # live[k]}

\* syncEnv finds no file and will write an empty one, over whatever is there by then.
FileMissing(k) ==
    /\ At(IF k = "config" THEN "queued" ELSE "readSecret") /\ file[k] = Missing
    /\ job' = [job EXCEPT !.at = IF k = "config" THEN "touchConfig" ELSE "touchSecret"]
    /\ UNCHANGED <<mode, file, cluster, baseline, tagged, edits, history, events>>

Touch(k) ==
    /\ At(IF k = "config" THEN "touchConfig" ELSE "touchSecret")
    /\ file' = [file EXCEPT ![k] = None]
    /\ job' = [job EXCEPT !.at = IF k = "config" THEN "queued" ELSE "readSecret"]
    /\ UNCHANGED <<mode, cluster, baseline, tagged, edits, history, events>>

ReadConfig ==
    /\ At("queued") /\ file["config"] # Missing
    /\ IF file["config"] = Bad THEN Fails(TRUE)
       ELSE /\ job' = [job EXCEPT !.at = "readSecret", !.read["config"] = Stored("config")]
            /\ UNCHANGED <<pending, events>>
    /\ UNCHANGED <<mode, file, cluster, baseline, tagged, edits, hashSkew>>

\* loadDigestKey: the key file is read, or made by whoever is first; it may be malformed
\* or unreadable.
LoadDigestKey == BOOLEAN

\* After the second file the keys of both are compared.
ReadSecret ==
    /\ At("readSecret") /\ file["secret"] # Missing
    /\ LET read == [job.read EXCEPT !["secret"] = Stored("secret")]
           duplicate == \A k \in Kind : read[k] # None
           goOn(guard) == /\ job' = [job EXCEPT !.at = IF guard THEN "guardConfig" ELSE "applyConfig",
                                                !.read = read, !.digests = guard]
                          /\ UNCHANGED <<pending, events>>
       IN  IF file["secret"] = Bad THEN Fails(TRUE)
           ELSE IF mode = "off" THEN goOn(FALSE)
           ELSE IF mode = "block" /\ duplicate THEN Fails(FALSE)
           ELSE \E loaded \in LoadDigestKey :
                    IF loaded THEN goOn(TRUE)
                    ELSE IF mode = "block" THEN Fails(TRUE) ELSE goOn(FALSE)
    /\ UNCHANGED <<mode, file, cluster, baseline, tagged, edits, hashSkew>>

\* Mutant: what the file holds now is compared with the cluster, not with the baseline.
DriftOfFile(k) == live[k] # Missing /\ baseline[k] # None /\ job.read[k] # live[k]
                  /\ job.read[k] # baseline[k]

\* evaluateDrift, for one key.
Drift(k) == /\ live[k] # Missing /\ baseline[k] # None
            /\ live[k] # baseline[k] /\ job.read[k] = baseline[k]

\* readLiveEnv: what the object holds, none if it is not there, or a failure of kubectl.
ReadLiveEnv(k) == {live[k], Failed}

\* The live object of one kind is read and compared.
GuardEnv(k) ==
    /\ At(IF k = "config" THEN "guardConfig" ELSE "guardSecret")
    /\ \E got \in ReadLiveEnv(k) :
          IF mode = "block" /\ ~job.allow /\ (got = Failed \/ Drift(k))
          THEN Fails(got = Failed)
          ELSE /\ job' = [job EXCEPT !.at = IF k = "config" THEN "guardSecret" ELSE "applyConfig",
                                     !.seen[k] = live[k]]
               /\ UNCHANGED <<pending, events>>
    /\ UNCHANGED <<mode, file, cluster, baseline, tagged, edits, hashSkew>>

\* readEnvFileData: the file is read again, with the parser that reads what was saved.
Data(k) == Stored(k)

\* upsertConfigMapFromEnvFile and upsertSecretFromEnvFile.  kubectl apply: a key that is
\* no longer in the manifest is removed if it was applied before; from a Secret it is not,
\* whose stringData only adds to its data.
LiveAfter(k) ==
    IF Data(k) # None THEN Data(k)
    ELSE IF live[k] = Missing THEN None
    ELSE IF k = "config" /\ applied[k] # None THEN None
    ELSE live[k]

\* Mutant: the baseline is what the cluster held before.
DigestsOfLive(k) == IF live[k] # Missing THEN live[k] ELSE None

\* recordEnvBaseline stores the digests of the first read.
DigestsOf(k) == job.read[k]

\* setEnvBaseline replaces all rows of the kind, or fails as a whole.
SetEnvBaseline(k) ==
    \/ job.digests /\ baseline' = [baseline EXCEPT ![k] = DigestsOf(k)]
    \/ UNCHANGED baseline

\* The object is applied from the file as it is now; then the baseline is recorded, if
\* that works.
UpsertEnv(k) ==
    /\ At(IF k = "config" THEN "applyConfig" ELSE "applySecret")
    /\ \/ /\ file[k] # Bad
          /\ live' = [live EXCEPT ![k] = LiveAfter(k)]
          /\ applied' = [applied EXCEPT ![k] = Data(k)]
          /\ SetEnvBaseline(k)
          /\ pending' = IF live'[k] = Held(k) THEN pending \ {k} ELSE pending \cup {k}
          /\ job' = IF k = "config"
                    THEN [job EXCEPT !.at = "applySecret", !.read[k] = None, !.seen[k] = None]
                    ELSE JobAt("hash", job.allow)
          /\ UNCHANGED events
       \/ Fails(TRUE) /\ UNCHANGED <<live, applied, baseline>>
    /\ UNCHANGED <<mode, file, template, rolling, pods, tagged, edits, hashSkew>>

\* The hash is taken of the files as they are then, one after the other.
HashConfig ==
    /\ At("hash")
    /\ \/ /\ job' = [job EXCEPT !.at = "deployment", !.hash = file["config"]]
          /\ UNCHANGED <<pending, events>>
       \/ Fails(TRUE)            \* the expose step failed
    /\ UNCHANGED <<mode, file, cluster, baseline, tagged, edits, hashSkew>>

\* The Deployment is applied, and a template that changed rolls the pods; then the other
\* manifests are, and the tag is recorded.
ApplyDeployment ==
    /\ At("deployment")
    /\ \/ LET hash == EnvHash(job.hash, file["secret"])
          IN  /\ template' = hash
              /\ rolling' = (rolling \/ template # hash)
              /\ \/ tagged' = TRUE /\ job' = NoJob /\ UNCHANGED <<pending, events>>
                 \/ Fails(TRUE) /\ UNCHANGED tagged
       \/ Fails(TRUE) /\ UNCHANGED <<template, rolling, tagged>>
    /\ UNCHANGED <<mode, file, live, applied, baseline, pods, edits, hashSkew>>

Next ==
    \/ \E s \in Slot :
         \/ \E k \in Kind :
              \/ \E v \in Val \cup {Blank, None} : Put(s, k, v)
              \/ \E text \in Raw \cup {Bad} : PutText(s, k, text)
              \/ Open(s, k)
         \/ \E v \in RowsPut : Save(s, v)
         \/ PutMerged(s) \/ PutWritten(s)
         \/ \E declined \in BOOLEAN : PutAnswered(s, declined)
    \/ \E k \in Kind :
         \/ \E v \in Val \cup {None, Missing} : Outside(k, v)
         \/ FileMissing(k) \/ Touch(k) \/ GuardEnv(k) \/ UpsertEnv(k)
    \/ PodsStart
    \/ \E m \in Modes : Restart(m)
    \/ \E allow \in BOOLEAN : Deploy(allow)
    \/ ReadConfig \/ ReadSecret \/ HashConfig \/ ApplyDeployment

Spec == Init /\ [][Next]_vars

-------------------------------------------------------------------------------
(* Properties *)

\* Every variable keeps to its type.
TypeOK ==
    /\ mode \in Modes
    /\ file \in [Kind -> Text \cup {None, Bad, Missing}]
    /\ live \in [Kind -> RowsPut \cup {Missing}]
    /\ applied \in [Kind -> RowsPut] /\ baseline \in [Kind -> RowsPut]
    /\ rolling \in BOOLEAN /\ tagged \in BOOLEAN
    /\ job.read \in [Kind -> RowsPut] /\ job.allow \in BOOLEAN
    /\ \A s \in Slot :
          /\ edits[s].kind \in Kind /\ edits[s].meant \in RowsPut
          /\ edits[s].value \in Text \cup RowsPut \cup {Bad}
    /\ pending \subseteq Kind

\* The browser takes a backslash and the n after it for a newline, and leaves the escapes
\* of tab and carriage return; a single quote at the start is written without quotes.
Misread(v) ==
    IF NeedsQuotes(v)
    THEN \E i \in DOMAIN v : v[i] \in {"\t", "\r"}
                             \/ (i > 1 /\ v[i - 1] = Backslash /\ v[i] = "n")
    ELSE Head(v) = "'"

\* With the guard on block a deploy that may not override it never overwrites what
\* someone else put in the cluster, unless that came after the guard looked, the file
\* was edited too, or there was no baseline.
KeepsOutsideEdits ==
    [][\A k \in Kind :
          UpsertEnv(k) /\ live'[k] # live[k] /\ job.digests /\ mode = "block" /\ ~job.allow
          => \/ live[k] = Missing \/ baseline[k] = None
             \/ live[k] = baseline[k]
             \/ job.read[k] # baseline[k]
             \/ job.seen[k] # live[k]]_vars

\* When nothing is in flight a file differs from the cluster only for a reason: its edit
\* was not followed by a deploy, a deploy failed or was refused, the process died, or
\* someone else edited the object.
EditsReachTheCluster ==
    At("none") /\ (\A s \in Slot : Free(s)) =>
        \A k \in Kind : live[k] # Missing /\ k \notin pending => live[k] = Held(k)

\* When files, cluster and pod template agree, so that no deploy will roll the pods again,
\* the pods run what these hold, unless they started while the hash was of other contents
\* than were applied.
PodsFollow ==
    /\ ~rolling
    /\ \A k \in Kind : live[k] = Held(k)
    /\ template = EnvHash(file["config"], file["secret"])
    => pods = live \/ hashSkew

\* What a save wrote is read back as it was meant: the row that was sent, for a blank
\* secret row the value that was stored, and what the file held when the editor was
\* opened, if nothing was changed in it; except for values that Misread names
\* (env-files.ts:102-135, Env.tsx:37-41).
SavesReadBack ==
    [][\A s \in Slot : PutWritten(s) /\ edits[s].value # Bad
          => LET v == edits[s].meant
             IN  Stored(edits[s].kind)' = v \/ (v \notin {None, Blank} /\ Misread(v))]_vars

===============================================================================
