-------------------------- MODULE JobIntakeProofs --------------------------
(***************************************************************************)
(* Proofs about JobIntake and the command line of JobClient, for every     *)
(* number of clients, uploads, jobs, files and disturbances.               *)
(***************************************************************************)
EXTENDS JobClient, TLAPS

Saves == [kind : {"save"}, by : Clients, upload : Uploads]
Creates == [kind : {"create"}, by : Clients, job : Jobs, left : Seq(Uploads),
            extracted : BOOLEAN]
Sweeps == [kind : {"sweep"}, by : {None}, left : SUBSET Uploads]

Creations == [client : Clients, names : Seq(Uploads)]

IntakeTypes ==
  /\ ServerTypeOK
  /\ op \in {Idle} \cup Saves \cup Creates \cup Sweeps

\* The input of a job counts while it is being made, and once there is a job.
Taken(j) == Registered(j) \/ (Creating /\ op.job = j)

\* The archive that was extracted and is about to be deleted.
InHand(u) == Creating /\ op.extracted /\ u = Head(op.left)

\* An archive was named in a request of its own client.
Named(u) == \E j \in Jobs : /\ creation[j] # None /\ creation[j].client = owner[u]
                            /\ u \in Range(creation[j].names)

\* How far the creation of a job has come.
Progress(names, done, left, extracted) ==
  /\ Len(done) + Len(left) = IF extracted THEN Len(names) + 1 ELSE Len(names)
  /\ extracted => Len(done) > 0
  /\ \A i \in 1..Len(done) : done[i] = names[i]
  /\ \A i \in 1..Len(left) : left[i] = names[Len(names) - Len(left) + i]

CreateState ==
  Creating =>
    /\ creation[op.job] # None /\ creation[op.job].client = op.by
    /\ status[op.job] = "none"
    /\ Progress(creation[op.job].names, input[op.job], op.left, op.extracted)
    /\ op.extracted => op.left # << >> /\ owner[Head(op.left)] = op.by

SaveState ==
  op.kind = "save" =>
    /\ owner[op.upload] = op.by /\ op.upload \notin accepted
    /\ \A j \in Jobs : Taken(j) => op.upload \notin Range(input[j])

SweepState ==
  op.kind = "sweep" => \A u \in op.left : files[u] # "ready" \/ u \in expired

JobState(j) ==
  /\ creation[j] = None => status[j] = "none" /\ input[j] = << >>
  /\ Registered(j) => creation[j] # None /\ input[j] = creation[j].names
  /\ Taken(j) =>
       \A u \in Range(input[j]) :
         /\ owner[u] = creation[j].client
         /\ files[u] # "ready" \/ u \in kept \/ InHand(u)

\* An archive is in the input of two jobs only if it could not be deleted.
JobsDisjoint ==
  \A j \in Jobs, k \in Jobs : j # k /\ Taken(j) /\ Taken(k) =>
    Range(input[j]) \cap Range(input[k]) \subseteq kept

UploadState(u) ==
  /\ u \in accepted => owner[u] # None
  /\ files[u] = "ready" \/ u \notin accepted \/ u \in expired \/ Named(u)

IntakeInv ==
  /\ IntakeTypes
  /\ CreateState /\ SaveState /\ SweepState
  /\ \A j \in Jobs : JobState(j)
  /\ JobsDisjoint
  /\ \A u \in Uploads : UploadState(u)

-----------------------------------------------------------------------------
(* Operations and sequences                                                *)

LEMMA OpKinds ==
  ASSUME IntakeTypes
  PROVE  /\ op = Idle <=> op.kind = "idle"
         /\ op.kind = "save" => op \in Saves
         /\ op.kind = "create" => op \in Creates
         /\ op.kind = "sweep" => op \in Sweeps
BY DEF IntakeTypes, Idle, Saves, Creates, Sweeps

LEMMA SeqRequests == Requests \subseteq Seq(Uploads)
<1>1. \A n \in 0..2 : [1..n -> Uploads] \subseteq Seq(Uploads)
  OBVIOUS
<1> QED
  BY <1>1 DEF Requests

LEMMA EmptyRange == Range(<< >>) = {}
BY DEF Range

LEMMA RangeOfAppend ==
  ASSUME NEW S, NEW s \in Seq(S), NEW e \in S
  PROVE  Range(Append(s, e)) = Range(s) \cup {e}
<1>1. /\ DOMAIN Append(s, e) = 1..(Len(s) + 1) /\ DOMAIN s = 1..Len(s)
      /\ Len(s) \in Nat
      /\ \A i \in 1..Len(s) : Append(s, e)[i] = s[i]
      /\ Append(s, e)[Len(s) + 1] = e
  OBVIOUS
<1>2. 1..(Len(s) + 1) = 1..Len(s) \cup {Len(s) + 1}
  BY <1>1
<1> QED
  BY <1>1, <1>2 DEF Range

\* A job that is created from names starts, goes on and ends as follows.
LEMMA ProgressStarts ==
  ASSUME NEW names \in Seq(Uploads)
  PROVE  Progress(names, << >>, names, FALSE)
BY DEF Progress

LEMMA ProgressTakes ==
  ASSUME NEW names \in Seq(Uploads), NEW done \in Seq(Uploads), NEW left \in Seq(Uploads),
         left # << >>, Progress(names, done, left, FALSE)
  PROVE  /\ Progress(names, Append(done, Head(left)), left, TRUE)
         /\ Head(left) \in Range(names)
<1>1. /\ Len(done) \in Nat /\ Len(left) \in Nat \ {0} /\ Len(names) \in Nat
      /\ Head(left) = left[1] /\ Head(left) \in Uploads
  OBVIOUS
<1>2. Len(names) = Len(done) + Len(left)
  BY DEF Progress
<1>3. left[1] = names[Len(done) + 1] /\ Len(done) + 1 \in 1..Len(names)
  BY <1>1, <1>2 DEF Progress
<1>4. /\ Len(Append(done, Head(left))) = Len(done) + 1
      /\ \A i \in 1..Len(done) : Append(done, Head(left))[i] = done[i]
      /\ Append(done, Head(left))[Len(done) + 1] = Head(left)
  BY <1>1
<1>5. \A i \in 1..(Len(done) + 1) : Append(done, Head(left))[i] = names[i]
  BY <1>1, <1>3, <1>4 DEF Progress
<1>6. Progress(names, Append(done, Head(left)), left, TRUE)
  BY <1>1, <1>2, <1>4, <1>5 DEF Progress
<1>7. Head(left) \in Range(names)
  BY <1>1, <1>3 DEF Range
<1> QED
  BY <1>6, <1>7

LEMMA ProgressGoesOn ==
  ASSUME NEW names \in Seq(Uploads), NEW done \in Seq(Uploads), NEW left \in Seq(Uploads),
         left # << >>, Progress(names, done, left, TRUE)
  PROVE  /\ Progress(names, done, Tail(left), FALSE)
         /\ Head(left) \in Range(names)
<1>1. /\ Len(done) \in Nat /\ Len(left) \in Nat \ {0} /\ Len(names) \in Nat
      /\ Head(left) = left[1] /\ Len(Tail(left)) = Len(left) - 1
      /\ \A i \in 1..(Len(left) - 1) : Tail(left)[i] = left[i + 1]
  OBVIOUS
<1>2. Len(names) + 1 = Len(done) + Len(left)
  BY DEF Progress
<1>3. Progress(names, done, Tail(left), FALSE)
  BY <1>1, <1>2 DEF Progress
<1>4. Len(left) <= Len(names)
  BY <1>1, <1>2 DEF Progress
<1>5. left[1] = names[Len(names) - Len(left) + 1] /\ Len(names) - Len(left) + 1 \in 1..Len(names)
  BY <1>1, <1>4 DEF Progress
<1>6. Head(left) \in Range(names)
  BY <1>1, <1>5 DEF Range
<1> QED
  BY <1>3, <1>6

\* What is in hand is the last archive that was extracted.
LEMMA LastOfProgress ==
  ASSUME NEW names \in Seq(Uploads), NEW done \in Seq(Uploads), NEW left \in Seq(Uploads),
         left # << >>, Progress(names, done, left, TRUE)
  PROVE  Head(left) \in Range(done)
<1>1. /\ Len(done) \in Nat \ {0} /\ Len(left) \in Nat \ {0} /\ Len(names) \in Nat
      /\ Head(left) = left[1]
  BY DEF Progress
<1>2. Len(names) - Len(left) + 1 = Len(done)
  BY <1>1 DEF Progress
<1>3. left[1] = names[Len(done)] /\ done[Len(done)] = names[Len(done)]
  BY <1>1, <1>2 DEF Progress
<1> QED
  BY <1>1, <1>3 DEF Range

LEMMA ProgressEnds ==
  ASSUME NEW names \in Seq(Uploads), NEW done \in Seq(Uploads),
         Progress(names, done, << >>, FALSE)
  PROVE  done = names
<1>1. Len(done) = Len(names) /\ \A i \in 1..Len(done) : done[i] = names[i]
  BY DEF Progress
<1> QED
  BY <1>1

-----------------------------------------------------------------------------
(* What a step that changes little leaves                                  *)

\* A step that makes no job, and leaves no archive behind that was used.
LEMMA JobsStay ==
  ASSUME IntakeInv, UNCHANGED <<creation, input>>, kept \subseteq kept',
         \A j \in Jobs : creation[j] = None => status'[j] = status[j],
         \A j \in Jobs : Taken(j)' => Taken(j),
         \A j \in Jobs : Registered(j)' => Registered(j),
         \A j \in Jobs : Taken(j) => \A u \in Range(input[j]) :
           /\ owner'[u] = owner[u]
           /\ files'[u] = "ready" /\ u \notin kept' =>
                files[u] = "ready" /\ u \notin kept /\ (InHand(u) => InHand(u)')
  PROVE  (\A j \in Jobs : JobState(j))' /\ JobsDisjoint'
<1>1. ASSUME NEW j \in Jobs PROVE JobState(j)'
  <2>1. JobState(j)
    BY DEF IntakeInv
  <2>2. creation'[j] = creation[j] /\ input'[j] = input[j]
    OBVIOUS
  <2>3. Taken(j)' => \A u \in Range(input'[j]) :
          /\ owner'[u] = creation'[j].client
          /\ files'[u] # "ready" \/ u \in kept' \/ InHand(u)'
    BY <2>1, <2>2 DEF JobState
  <2> QED
    BY <2>1, <2>2, <2>3 DEF JobState
<1>2. JobsDisjoint'
  BY DEF IntakeInv, JobsDisjoint
<1> QED
  BY <1>1, <1>2

\* A step that accepts no archive, and removes none but one that was named or
\* has expired.
LEMMA UploadsStay ==
  ASSUME IntakeInv, creation' = creation, accepted' = accepted, expired \subseteq expired',
         \A u \in accepted : owner'[u] = owner[u],
         \A u \in accepted : files[u] = "ready" =>
           files'[u] = "ready" \/ u \in expired' \/ Named(u)
  PROVE  (\A u \in Uploads : UploadState(u))'
<1>1. ASSUME NEW u \in Uploads PROVE UploadState(u)'
  <2>1. UploadState(u)
    BY DEF IntakeInv
  <2>2. CASE u \notin accepted
    BY <2>2 DEF UploadState
  <2>3. CASE u \in accepted
    <3>1. owner'[u] = owner[u]
      BY <2>3
    <3>2. Named(u) => Named(u)'
      BY <3>1 DEF Named
    <3> QED
      BY <2>1, <2>3, <3>1, <3>2 DEF UploadState
  <2> QED
    BY <2>2, <2>3
<1> QED
  BY <1>1

\* An operation that ends leaves no other behind.
LEMMA AtRest ==
  ASSUME op' = Idle
  PROVE  /\ CreateState' /\ SaveState' /\ SweepState'
         /\ \A j \in Jobs : Taken(j)' <=> Registered(j)'
         /\ \A u \in Uploads : ~InHand(u)'
BY DEF Idle, CreateState, SaveState, SweepState, Creating, Taken, InHand

-----------------------------------------------------------------------------
(* save_upload                                                             *)

LEMMA SaveUploadKeeps ==
  ASSUME IntakeInv, NEW c \in Clients, NEW u \in Uploads, SaveUpload(c, u)
  PROVE  IntakeInv'
<1>1. /\ op = Idle /\ op' = [kind |-> "save", by |-> c, upload |-> u]
      /\ owner[u] = None /\ owner' = [owner EXCEPT ![u] = c]
      /\ files' = [files EXCEPT ![u] = "bare"]
      /\ UNCHANGED <<up, kept, disturbances, accepted, expired, jobs>>
      /\ answer' \in {"none", answer}
  BY DEF SaveUpload, Begin, Serving, Fresh
<1>2. op' \in Saves
  BY <1>1 DEF Saves
<1>3. IntakeTypes'
  <2>1. /\ files' \in [Uploads -> Contents]
        /\ owner' \in [Uploads -> Clients \cup {None}]
    BY <1>1 DEF IntakeInv, IntakeTypes, ServerTypeOK, Contents
  <2> QED
    BY <1>1, <1>2, <2>1 DEF IntakeInv, IntakeTypes, ServerTypeOK, jobs
<1>4. op'.kind = "save" /\ op'.by = c /\ op'.upload = u /\ op.kind = "idle"
  BY <1>1 DEF Idle
<1>5. \A j \in Jobs : /\ Taken(j) <=> Registered(j)
                      /\ Taken(j)' <=> Registered(j)
  BY <1>1, <1>4 DEF Taken, Registered, Creating, jobs
<1>6. ASSUME NEW j \in Jobs, Taken(j) PROVE u \notin Range(input[j])
  <2>1. Registered(j) /\ creation[j] # None
    BY <1>5, <1>6 DEF IntakeInv, JobState
  <2>2. creation[j].client \in Clients
    BY <2>1 DEF IntakeInv, IntakeTypes, ServerTypeOK
  <2> QED
    BY <1>1, <1>6, <2>2, ClientsAssumption DEF IntakeInv, JobState
<1>7. u \notin accepted
  BY <1>1 DEF IntakeInv, UploadState
<1>8. SaveState'
  BY <1>1, <1>4, <1>5, <1>6, <1>7 DEF SaveState, jobs, IntakeInv, IntakeTypes, ServerTypeOK
<1>9. CreateState' /\ SweepState'
  BY <1>4 DEF CreateState, SweepState, Creating
<1>10. ASSUME NEW j \in Jobs, Taken(j), NEW v \in Range(input[j])
       PROVE  owner'[v] = owner[v] /\ files'[v] = files[v] /\ ~InHand(v)
  <2>1. v # u /\ v \in Uploads
    BY <1>6, <1>10 DEF IntakeInv, IntakeTypes, ServerTypeOK, Range
  <2> QED
    BY <1>1, <1>4, <2>1 DEF IntakeInv, IntakeTypes, ServerTypeOK, InHand, Creating
<1>11. (\A j \in Jobs : JobState(j))' /\ JobsDisjoint'
  BY <1>1, <1>5, <1>10, JobsStay DEF jobs, Registered
<1>12. ASSUME NEW v \in accepted PROVE owner'[v] = owner[v] /\ files'[v] = files[v]
  BY <1>1, <1>7, <1>12 DEF IntakeInv, IntakeTypes, ServerTypeOK
<1>13. (\A v \in Uploads : UploadState(v))'
  BY <1>1, <1>12, UploadsStay DEF jobs
<1> QED
  BY <1>3, <1>8, <1>9, <1>11, <1>13 DEF IntakeInv

LEMMA WriteMetaKeeps ==
  ASSUME IntakeInv, WriteMeta
  PROVE  IntakeInv'
<1>1. op.kind = "save" /\ op \in Saves /\ op.upload \in Uploads /\ op.by \in Clients
  BY OpKinds DEF WriteMeta, IntakeInv, Saves
<1> DEFINE u == op.upload
<1>2. /\ op' = Idle
      /\ files' = [files EXCEPT ![u] = "ready"]
      /\ accepted' = accepted \cup {u}
      /\ UNCHANGED <<up, owner, expired, jobs, kept, disturbances>>
      /\ answer' \in {"ok", answer}
  BY DEF WriteMeta, End
<1>3. IntakeTypes'
  <2>1. files' \in [Uploads -> Contents] /\ accepted' \subseteq Uploads
    BY <1>1, <1>2 DEF IntakeInv, IntakeTypes, ServerTypeOK, Contents
  <2> QED
    BY <1>2, <2>1 DEF IntakeInv, IntakeTypes, ServerTypeOK, jobs
<1>4. ASSUME NEW j \in Jobs, Taken(j), NEW v \in Range(input[j])
      PROVE  files'[v] = files[v] /\ ~InHand(v)
  <2>1. v # u /\ v \in Uploads
    BY <1>1, <1>4 DEF IntakeInv, IntakeTypes, ServerTypeOK, Range, SaveState
  <2> QED
    BY <1>1, <1>2, <2>1 DEF IntakeInv, IntakeTypes, ServerTypeOK, InHand, Creating
<1>5. (\A j \in Jobs : JobState(j))' /\ JobsDisjoint'
  BY <1>2, <1>4, AtRest, JobsStay DEF jobs, Registered, Taken
<1>6. ASSUME NEW v \in Uploads PROVE UploadState(v)'
  <2>1. CASE v = u
    <3>1. owner'[v] = op.by /\ files'[v] = "ready"
      BY <1>1, <1>2, <2>1 DEF IntakeInv, IntakeTypes, ServerTypeOK, SaveState
    <3> QED
      BY <1>1, <3>1, ClientsAssumption DEF UploadState
  <2>2. CASE v # u
    <3>1. files'[v] = files[v] /\ (v \in accepted' <=> v \in accepted)
      BY <1>2, <2>2 DEF IntakeInv, IntakeTypes, ServerTypeOK
    <3>2. Named(v)' <=> Named(v)
      BY <1>2 DEF Named, jobs
    <3> QED
      BY <1>2, <3>1, <3>2 DEF IntakeInv, UploadState
  <2> QED
    BY <2>1, <2>2
<1> QED
  BY <1>2, <1>3, <1>5, <1>6, AtRest DEF IntakeInv

\* The files of the upload that is being saved.
LEMMA UnsavedUpload ==
  ASSUME IntakeInv, op.kind = "save"
  PROVE  /\ op.upload \in Uploads /\ op.upload \notin accepted
         /\ \A j \in Jobs : Taken(j) => op.upload \notin Range(input[j])
         /\ \A u \in Uploads : ~InHand(u)
BY OpKinds DEF IntakeInv, Saves, SaveState, InHand, Creating

LEMMA SaveFailsKeeps ==
  ASSUME IntakeInv, SaveFails
  PROVE  IntakeInv'
<1>1. op.kind = "save" /\ op.upload \in Uploads
  BY UnsavedUpload DEF SaveFails
<1> DEFINE u == op.upload
<1>2. /\ op' = Idle
      /\ \E f \in {"none", "bare", "torn"} : files' = [files EXCEPT ![u] = f]
      /\ UNCHANGED <<up, owner, accepted, expired, jobs, kept>>
      /\ answer' \in {"error", answer}
  BY DEF SaveFails, End
<1>3. disturbances' \in 0..MaxDisturbances
  BY BoundsAssumption DEF SaveFails, Disturbance, IntakeInv, IntakeTypes, ServerTypeOK
<1>4. IntakeTypes'
  <2>1. files' \in [Uploads -> Contents]
    BY <1>1, <1>2 DEF IntakeInv, IntakeTypes, ServerTypeOK, Contents
  <2> QED
    BY <1>2, <1>3, <2>1 DEF IntakeInv, IntakeTypes, ServerTypeOK, jobs
<1>5. \A v \in Uploads \ {u} : files'[v] = files[v]
  BY <1>2 DEF IntakeInv, IntakeTypes, ServerTypeOK
<1>6. ASSUME NEW j \in Jobs, Taken(j), NEW v \in Range(input[j])
      PROVE  files'[v] = files[v] /\ ~InHand(v)
  <2>1. v # u /\ v \in Uploads
    BY <1>1, <1>6, UnsavedUpload DEF IntakeInv, IntakeTypes, ServerTypeOK, Range
  <2> QED
    BY <1>1, <1>5, <2>1, UnsavedUpload
<1>7. (\A j \in Jobs : JobState(j))' /\ JobsDisjoint'
  BY <1>2, <1>6, AtRest, JobsStay DEF jobs, Registered, Taken
<1>8. \A v \in accepted : files'[v] = files[v]
  BY <1>1, <1>5, UnsavedUpload DEF IntakeInv, IntakeTypes, ServerTypeOK
<1>9. (\A v \in Uploads : UploadState(v))'
  BY <1>2, <1>8, UploadsStay DEF jobs
<1> QED
  BY <1>2, <1>4, <1>7, <1>9, AtRest DEF IntakeInv

LEMMA ExpireKeeps ==
  ASSUME IntakeInv, NEW u \in Uploads, Expire(u)
  PROVE  IntakeInv'
<1>1. /\ expired' = expired \cup {u}
      /\ UNCHANGED <<up, op, files, owner, accepted, jobs, answer, kept, disturbances>>
  BY DEF Expire
<1>2. IntakeTypes'
  BY <1>1 DEF IntakeInv, IntakeTypes, ServerTypeOK, jobs
<1>3. CreateState' /\ SaveState' /\ SweepState'
  BY <1>1 DEF IntakeInv, CreateState, SaveState, SweepState, Creating, Taken, Registered, jobs
<1>4. (\A j \in Jobs : JobState(j))' /\ JobsDisjoint'
  BY <1>1, JobsStay DEF jobs, Registered, Taken, InHand, Creating
<1>5. (\A v \in Uploads : UploadState(v))'
  BY <1>1, UploadsStay DEF jobs
<1> QED
  BY <1>2, <1>3, <1>4, <1>5 DEF IntakeInv

-----------------------------------------------------------------------------
(* create_job                                                              *)

LEMMA CreateJobKeeps ==
  ASSUME IntakeInv, NEW c \in Clients, NEW j \in Jobs, NEW names \in Seq(Uploads),
         CreateJob(c, j, names)
  PROVE  IntakeInv'
<1> DEFINE new == [kind |-> "create", by |-> c, job |-> j, left |-> names,
                   extracted |-> FALSE]
           made == [client |-> c, names |-> names]
<1>1. /\ op = Idle /\ op' = new /\ creation[j] = None
      /\ creation' = [creation EXCEPT ![j] = made]
      /\ UNCHANGED <<up, kept, disturbances, uploads, input, status>>
      /\ answer' \in {"none", answer}
  BY DEF CreateJob, Begin, Serving
<1>2. made \in Creations /\ made # None /\ made.client = c /\ made.names = names
  BY ClientsAssumption DEF Creations, Uploads
<1>3. new \in Creates
  BY DEF Creates
<1> HIDE DEF made
<1>4. creation' \in [Jobs -> {None} \cup Creations] /\ creation'[j] = made
      /\ \A k \in Jobs \ {j} : creation'[k] = creation[k]
  BY <1>1, <1>2 DEF IntakeInv, IntakeTypes, ServerTypeOK, Creations
<1>5. IntakeTypes'
  BY <1>1, <1>3, <1>4 DEF IntakeInv, IntakeTypes, ServerTypeOK, uploads, Creations
<1>6. /\ op'.kind = "create" /\ op'.job = j /\ op'.left = names /\ op'.by = c
      /\ op'.extracted = FALSE /\ op.kind = "idle"
  BY <1>1 DEF Idle
<1>7. status[j] = "none" /\ input[j] = << >>
  BY <1>1 DEF IntakeInv, JobState
<1>8. CreateState'
  BY <1>1, <1>2, <1>4, <1>6, <1>7, ProgressStarts DEF CreateState
<1>9. SaveState' /\ SweepState'
  BY <1>6 DEF SaveState, SweepState
<1>10. ASSUME NEW k \in Jobs, Taken(k)', k # j PROVE Taken(k)
  BY <1>1, <1>6, <1>10 DEF Taken, Registered, Creating
<1>11. \A u \in Uploads : ~InHand(u)
  BY <1>6 DEF InHand, Creating
<1>12. ~Registered(j)'
  BY <1>1, <1>7 DEF Registered, Lifecycle!Statuses, Lifecycle!Outcomes
<1>13. ASSUME NEW k \in Jobs PROVE JobState(k)'
  <2>1. CASE k = j
    BY <1>1, <1>2, <1>4, <1>7, <1>12, <2>1, EmptyRange DEF JobState
  <2>2. CASE k # j
    <3>1. JobState(k) /\ creation'[k] = creation[k] /\ (Taken(k)' => Taken(k))
      BY <1>4, <1>10, <2>2 DEF IntakeInv
    <3>2. input[k] \in Seq(Uploads)
      BY DEF IntakeInv, IntakeTypes, ServerTypeOK
    <3>3. Range(input[k]) \subseteq Uploads
      BY <3>2 DEF Range
    <3> QED
      BY <1>1, <1>11, <3>1, <3>3 DEF JobState, uploads, Registered
  <2> QED
    BY <2>1, <2>2
<1>14. JobsDisjoint'
  BY <1>1, <1>7, <1>10, EmptyRange DEF IntakeInv, JobsDisjoint
<1>15. ASSUME NEW u \in Uploads PROVE UploadState(u)'
  <2>1. Named(u) => Named(u)'
    BY <1>1, <1>4 DEF Named, uploads
  <2> QED
    BY <1>1, <2>1 DEF IntakeInv, UploadState, uploads
<1> QED
  BY <1>5, <1>8, <1>9, <1>13, <1>14, <1>15 DEF IntakeInv

\* What holds while a job is created.
LEMMA JobInCreation ==
  ASSUME IntakeInv, Creating
  PROVE  /\ op \in Creates /\ op.job \in Jobs /\ op.left \in Seq(Uploads)
         /\ op.by \in Clients /\ op.extracted \in BOOLEAN
         /\ creation[op.job] \in Creations /\ creation[op.job].client = op.by
         /\ creation[op.job].names \in Seq(Uploads)
         /\ input[op.job] \in Seq(Uploads)
         /\ status[op.job] = "none" /\ Taken(op.job) /\ ~Registered(op.job)
         /\ Progress(creation[op.job].names, input[op.job], op.left, op.extracted)
         /\ op.extracted => op.left # << >> /\ owner[Head(op.left)] = op.by
         /\ \A j \in Jobs : Taken(j) <=> Registered(j) \/ j = op.job
<1>1. op \in Creates
  BY OpKinds DEF IntakeInv, Creating
<1>2. op.job \in Jobs /\ op.left \in Seq(Uploads) /\ op.by \in Clients /\ op.extracted \in BOOLEAN
  BY <1>1 DEF Creates
<1>3. creation[op.job] # None /\ CreateState
  BY DEF IntakeInv, CreateState
<1>4. creation[op.job] \in Creations /\ input[op.job] \in Seq(Uploads)
  BY <1>2, <1>3 DEF IntakeInv, IntakeTypes, ServerTypeOK, Creations
<1>5. ~Registered(op.job)
  BY <1>3 DEF CreateState, Registered, Lifecycle!Statuses, Lifecycle!Outcomes
<1> QED
  BY <1>1, <1>2, <1>3, <1>4, <1>5 DEF CreateState, Taken, Creations

\* The archive that is taken next was named in the request.
LEMMA NextIsNamed ==
  ASSUME IntakeInv, Taking
  PROVE  NextUpload \in Range(creation[op.job].names) /\ NextUpload \in Uploads
<1>1. /\ op.left \in Seq(Uploads) /\ op.left # << >> /\ op.extracted \in BOOLEAN
      /\ creation[op.job].names \in Seq(Uploads) /\ input[op.job] \in Seq(Uploads)
      /\ Progress(creation[op.job].names, input[op.job], op.left, op.extracted)
  BY JobInCreation DEF Taking
<1>2. Head(op.left) \in Uploads
  BY <1>1
<1>3. CASE op.extracted = TRUE
  BY <1>1, <1>2, <1>3, ProgressGoesOn DEF NextUpload
<1>4. CASE op.extracted = FALSE
  BY <1>1, <1>2, <1>4, ProgressTakes DEF NextUpload
<1> QED
  BY <1>1, <1>3, <1>4

LEMMA ExtractKeeps ==
  ASSUME IntakeInv, Extract
  PROVE  IntakeInv'
<1>0. Creating /\ op.left # << >> /\ op.extracted = FALSE
  BY JobInCreation DEF Extract, Taking
<1> DEFINE j == op.job  u == NextUpload  next == [op EXCEPT !.extracted = TRUE]
<1>1. /\ Usable(u)
      /\ input' = [input EXCEPT ![j] = Append(@, u)]
      /\ op' = next
      /\ UNCHANGED <<up, uploads, creation, status, answer, kept, disturbances>>
  BY DEF Extract, Continue
<1>2. /\ op \in Creates /\ j \in Jobs /\ op.left \in Seq(Uploads)
      /\ creation[j] \in Creations /\ creation[j].client = op.by /\ creation[j] # None
      /\ creation[j].names \in Seq(Uploads) /\ input[j] \in Seq(Uploads)
      /\ status[j] = "none" /\ ~Registered(j) /\ Taken(j)
      /\ Progress(creation[j].names, input[j], op.left, FALSE)
      /\ \A k \in Jobs : Taken(k) <=> Registered(k) \/ k = j
  BY <1>0, JobInCreation DEF IntakeInv, CreateState
<1>3. u \in Uploads
  BY <1>0, NextIsNamed DEF Taking
<1>4. /\ next \in Creates /\ next.kind = "create" /\ next.job = j /\ next.left = op.left
      /\ next.by = op.by /\ next.extracted = TRUE
  BY <1>0, <1>2 DEF Creates, Creating
<1> HIDE DEF next
<1>5. /\ input'[j] = Append(input[j], u) /\ \A k \in Jobs \ {j} : input'[k] = input[k]
      /\ input' \in [Jobs -> Seq(Uploads)]
      /\ Range(input'[j]) = Range(input[j]) \cup {u}
  <2>1. input \in [Jobs -> Seq(Uploads)]
    BY DEF IntakeInv, IntakeTypes, ServerTypeOK
  <2>2. Append(input[j], u) \in Seq(Uploads)
    BY <1>2, <1>3
  <2>3. /\ input'[j] = Append(input[j], u) /\ \A k \in Jobs \ {j} : input'[k] = input[k]
        /\ input' \in [Jobs -> Seq(Uploads)]
    BY <1>1, <1>2, <2>1, <2>2
  <2> QED
    BY <1>2, <1>3, <2>3, RangeOfAppend
<1>6. IntakeTypes'
  BY <1>1, <1>4, <1>5 DEF IntakeInv, IntakeTypes, ServerTypeOK, uploads
<1>7. /\ Creating' /\ op'.job = j /\ \A k \in Jobs : Taken(k)' <=> Taken(k)
      /\ \A k \in Jobs : Registered(k)' <=> Registered(k)
  BY <1>1, <1>2, <1>4 DEF Creating, Taken, Registered
<1>8. CreateState'
  <2>1. Progress(creation[j].names, Append(input[j], u), op.left, TRUE)
    BY <1>0, <1>2, ProgressTakes DEF NextUpload
  <2> QED
    BY <1>0, <1>1, <1>2, <1>4, <1>5, <2>1 DEF CreateState, Usable, NextUpload, uploads
<1>9. SaveState' /\ SweepState'
  BY <1>1, <1>4 DEF SaveState, SweepState
<1>10. /\ files[u] = "ready" /\ owner[u] = op.by
       /\ \A v \in Uploads : ~InHand(v) /\ (v = u => InHand(v)')
  BY <1>0, <1>1, <1>4 DEF Usable, InHand, Creating, NextUpload
<1>11. ASSUME NEW k \in Jobs, Taken(k), NEW v \in Range(input[k])
       PROVE  /\ owner[v] = creation[k].client
              /\ files[v] # "ready" \/ v \in kept
  <2>1. v \in Uploads
    BY <1>11 DEF IntakeInv, IntakeTypes, ServerTypeOK, Range
  <2> QED
    BY <1>10, <1>11, <2>1 DEF IntakeInv, JobState
<1>12. ASSUME NEW k \in Jobs PROVE JobState(k)'
  <2>1. Registered(k)' => creation'[k] # None /\ input'[k] = creation'[k].names
    BY <1>1, <1>2, <1>5, <1>7 DEF IntakeInv, JobState
  <2>2. creation'[k] = None => status'[k] = "none" /\ input'[k] = << >>
    BY <1>1, <1>2, <1>5 DEF IntakeInv, JobState
  <2>3. ASSUME Taken(k)', NEW v \in Range(input'[k])
        PROVE  /\ owner'[v] = creation'[k].client
               /\ files'[v] # "ready" \/ v \in kept' \/ InHand(v)'
    <3>1. CASE k = j /\ v = u
      BY <1>1, <1>2, <1>3, <1>10, <3>1 DEF uploads
    <3>2. CASE k # j \/ v # u
      <4>1. v \in Range(input[k]) /\ Taken(k)
        BY <1>5, <1>7, <2>3, <3>2
      <4> QED
        BY <1>1, <1>11, <4>1 DEF uploads
    <3> QED
      BY <3>1, <3>2
  <2> QED
    BY <2>1, <2>2, <2>3 DEF JobState
<1>13. JobsDisjoint'
  <2> SUFFICES ASSUME NEW k \in Jobs, NEW l \in Jobs, k # l, Taken(k), Taken(l),
                      NEW v, v \in Range(input'[k]), v \in Range(input'[l])
               PROVE  v \in kept
    BY <1>1, <1>7 DEF JobsDisjoint
  <2>3. ASSUME NEW m \in Jobs, v \in Range(input'[m]), v # u PROVE v \in Range(input[m])
    <3>1. CASE m = j
      BY <1>5, <2>3, <3>1
    <3>2. CASE m # j
      BY <1>5, <2>3, <3>2
    <3> QED
      BY <3>1, <3>2
  <2>1. CASE v = u
    <3>1. PICK m \in {k, l} : m # j
      OBVIOUS
    <3>2. v \in Range(input[m]) /\ Taken(m)
      BY <1>5, <3>1
    <3> QED
      BY <1>10, <1>11, <2>1, <3>2
  <2>2. CASE v # u
    <3>1. v \in Range(input[k]) \cap Range(input[l])
      BY <2>2, <2>3
    <3>2. JobsDisjoint
      BY DEF IntakeInv
    <3> QED
      BY <3>1, <3>2 DEF JobsDisjoint
  <2> QED
    BY <2>1, <2>2
<1>14. (\A v \in Uploads : UploadState(v))'
  BY <1>1, UploadsStay DEF uploads
<1> QED
  BY <1>6, <1>8, <1>9, <1>12, <1>13, <1>14 DEF IntakeInv

\* What is left of a directory is an archive only if it was one.
LEMMA RemainsOfUpload ==
  ASSUME IntakeTypes, NEW u \in Uploads, NEW f \in Remains(u)
  PROVE  /\ f \in Contents /\ (f = "ready" => files[u] = "ready")
         /\ [files EXCEPT ![u] = f] \in [Uploads -> Contents]
         /\ [files EXCEPT ![u] = f][u] = f
         /\ \A v \in Uploads \ {u} : [files EXCEPT ![u] = f][v] = files[v]
<1>1. files \in [Uploads -> Contents]
  BY DEF IntakeTypes, ServerTypeOK
<1>2. f \in {files[u], "bare"} \cup (IF files[u] = "ready" THEN {"gutted"} ELSE {})
  BY DEF Remains
<1>3. f \in Contents /\ (f = "ready" => files[u] = "ready")
  BY <1>1, <1>2 DEF Contents
<1> QED
  BY <1>1, <1>3

LEMMA DeleteKeeps ==
  ASSUME IntakeInv, Delete
  PROVE  IntakeInv'
<1>0. Creating /\ Taking /\ op.left # << >> /\ op.extracted = TRUE
  BY JobInCreation DEF Delete, Taking
<1> DEFINE j == op.job  u == NextUpload
           next == [op EXCEPT !.extracted = FALSE, !.left = Tail(@)]
<1>1. /\ op' = next
      /\ UNCHANGED <<up, owner, accepted, expired, jobs, answer>>
  BY DEF Delete, Continue
<1>2. /\ op \in Creates /\ j \in Jobs /\ op.left \in Seq(Uploads)
      /\ creation[j] # None /\ creation[j].client = op.by /\ owner[Head(op.left)] = op.by
      /\ creation[j].names \in Seq(Uploads) /\ input[j] \in Seq(Uploads)
      /\ status[j] = "none"
      /\ Progress(creation[j].names, input[j], op.left, TRUE)
  BY <1>0, JobInCreation DEF IntakeInv, CreateState
<1>3. u \in Uploads /\ u \in Range(creation[j].names) /\ owner[u] = creation[j].client
  BY <1>0, <1>2, NextIsNamed DEF NextUpload
<1>4. /\ next \in Creates /\ next.kind = "create" /\ next.job = j
      /\ next.left = Tail(op.left) /\ next.by = op.by /\ next.extracted = FALSE
  <2>1. Tail(op.left) \in Seq(Uploads)
    BY <1>0, <1>2
  <2> QED
    BY <1>0, <1>2, <2>1 DEF Creates, Creating
<1> HIDE DEF next
<1>5. /\ files' \in [Uploads -> Contents]
      /\ \A v \in Uploads \ {u} : files'[v] = files[v]
      /\ files'[u] = "ready" => files[u] = "ready" /\ u \in kept'
      /\ kept' \subseteq kept \cup {u} /\ kept \subseteq kept'
  <2>1. CASE files' = [files EXCEPT ![u] = "none"] /\ kept' = kept
    BY <1>3, <2>1 DEF IntakeInv, IntakeTypes, ServerTypeOK, Contents
  <2>2. ASSUME NEW f \in Remains(u), files' = [files EXCEPT ![u] = f],
               kept' = IF files'[u] = "ready" THEN kept \cup {u} ELSE kept
        PROVE  <1>5!1 /\ <1>5!2 /\ <1>5!3 /\ <1>5!4
    <3>1. /\ f \in Contents /\ (f = "ready" => files[u] = "ready")
          /\ files' \in [Uploads -> Contents] /\ files'[u] = f
          /\ \A v \in Uploads \ {u} : files'[v] = files[v]
      BY <1>3, <2>2, RemainsOfUpload DEF IntakeInv
    <3> QED
      BY <2>2, <3>1
  <2> QED
    BY <2>1, <2>2 DEF Delete
<1>6. disturbances' \in 0..MaxDisturbances
  BY BoundsAssumption DEF Delete, Disturbance, IntakeInv, IntakeTypes, ServerTypeOK
<1>7. IntakeTypes'
  BY <1>1, <1>3, <1>4, <1>5, <1>6 DEF IntakeInv, IntakeTypes, ServerTypeOK, jobs
<1>8. /\ Creating' /\ op'.job = j /\ \A k \in Jobs : Taken(k)' <=> Taken(k)
      /\ \A k \in Jobs : Registered(k)' <=> Registered(k)
  BY <1>0, <1>1, <1>4 DEF Creating, Taken, Registered, jobs
<1>9. CreateState'
  <2>1. Progress(creation[j].names, input[j], Tail(op.left), FALSE)
    BY <1>0, <1>2, ProgressGoesOn
  <2> QED
    BY <1>1, <1>2, <1>4, <2>1 DEF CreateState, jobs
<1>10. SaveState' /\ SweepState'
  BY <1>1, <1>4 DEF SaveState, SweepState
<1>11. \A v \in Uploads : InHand(v) => v = u
  BY DEF InHand, NextUpload
<1>12. ASSUME NEW k \in Jobs, Taken(k), NEW v \in Range(input[k])
       PROVE  /\ owner'[v] = owner[v]
              /\ files'[v] = "ready" /\ v \notin kept' =>
                   files[v] = "ready" /\ v \notin kept /\ (InHand(v) => InHand(v)')
  <2>1. v \in Uploads
    BY <1>12 DEF IntakeInv, IntakeTypes, ServerTypeOK, Range
  <2>2. files'[v] = "ready" /\ v \notin kept' => v # u
    BY <1>5
  <2>3. files'[v] = "ready" /\ v \notin kept' =>
          files[v] = "ready" /\ v \notin kept /\ ~InHand(v)
    BY <1>5, <1>11, <2>1, <2>2
  <2> QED
    BY <1>1, <2>3
<1>13. (\A k \in Jobs : JobState(k))' /\ JobsDisjoint'
  BY <1>1, <1>5, <1>8, <1>12, JobsStay DEF jobs
<1>14. ASSUME NEW v \in accepted, files[v] = "ready"
       PROVE  files'[v] = "ready" \/ v \in expired' \/ Named(v)
  <2>1. CASE v = u
    BY <1>2, <1>3, <2>1 DEF Named
  <2>2. CASE v # u
    BY <1>5, <1>14, <2>2 DEF IntakeInv, IntakeTypes, ServerTypeOK
  <2> QED
    BY <2>1, <2>2
<1>15. (\A v \in Uploads : UploadState(v))'
  BY <1>1, <1>14, UploadsStay DEF jobs
<1> QED
  BY <1>7, <1>9, <1>10, <1>13, <1>15 DEF IntakeInv

LEMMA RegisterKeeps ==
  ASSUME IntakeInv, Register
  PROVE  IntakeInv'
<1> DEFINE j == op.job
<1>0. Creating /\ op.left = << >>
  BY DEF Register, Extracted
<1>1. /\ op' = Idle /\ status' = [status EXCEPT ![j] = "PENDING"]
      /\ UNCHANGED <<up, uploads, creation, input, kept, disturbances>>
      /\ answer' \in {"ok", answer}
  BY DEF Register, Lifecycle!Submit, End
<1>2. /\ j \in Jobs /\ creation[j] # None /\ Taken(j)
      /\ creation[j].names \in Seq(Uploads) /\ input[j] \in Seq(Uploads)
      /\ op.extracted = FALSE
      /\ Progress(creation[j].names, input[j], op.left, op.extracted)
      /\ \A k \in Jobs : Taken(k) <=> Registered(k) \/ k = j
  BY <1>0, JobInCreation DEF IntakeInv, CreateState
<1>3. input[j] = creation[j].names
  BY <1>0, <1>2, ProgressEnds
<1>4. status' \in [Jobs -> Lifecycle!Answers]
  BY <1>1, <1>2 DEF IntakeInv, IntakeTypes, ServerTypeOK, Lifecycle!Answers, Lifecycle!Statuses
<1>5. IntakeTypes'
  BY <1>1, <1>4 DEF IntakeInv, IntakeTypes, ServerTypeOK, uploads
<1>6. \A k \in Jobs : (Registered(k)' => Registered(k) \/ k = j) /\ (Taken(k)' => Taken(k))
  BY <1>1, <1>2, AtRest DEF IntakeInv, IntakeTypes, ServerTypeOK, Registered
<1>7. \A u \in Uploads : ~InHand(u)
  BY <1>2 DEF InHand
<1>8. ASSUME NEW k \in Jobs PROVE JobState(k)'
  <2>1. creation[k] = None => status'[k] = "none" /\ input[k] = << >>
    BY <1>1, <1>2 DEF IntakeInv, JobState, IntakeTypes, ServerTypeOK
  <2>2. Registered(k)' => creation[k] # None /\ input[k] = creation[k].names
    BY <1>2, <1>3, <1>6 DEF IntakeInv, JobState
  <2>3. Range(input[k]) \subseteq Uploads
    BY DEF IntakeInv, IntakeTypes, ServerTypeOK, Range
  <2>4. Taken(k)' => \A u \in Range(input[k]) :
          owner[u] = creation[k].client /\ (files[u] # "ready" \/ u \in kept)
    BY <1>6, <1>7, <2>3 DEF IntakeInv, JobState
  <2> QED
    BY <1>1, <2>1, <2>2, <2>4 DEF JobState, uploads
<1>9. JobsDisjoint'
  BY <1>1, <1>6 DEF IntakeInv, JobsDisjoint
<1>10. (\A u \in Uploads : UploadState(u))'
  BY <1>1, UploadsStay DEF uploads
<1> QED
  BY <1>1, <1>5, <1>8, <1>9, <1>10, AtRest DEF IntakeInv

LEMMA CreateFailsKeeps ==
  ASSUME IntakeInv, CreateFails
  PROVE  IntakeInv'
<1> DEFINE j == op.job
<1>0. Creating /\ ~op.extracted
  BY DEF CreateFails
<1>1. /\ op' = Idle
      /\ UNCHANGED <<up, uploads, creation, kept>>
      /\ answer' \in {"error", answer}
      /\ \/ input' = [input EXCEPT ![j] = << >>] /\ status' = status
         \/ status' = [status EXCEPT ![j] = "LOST"] /\ input' = input
  BY DEF CreateFails, End
<1>2. j \in Jobs /\ creation[j] # None /\ ~Registered(j)
  BY <1>0, JobInCreation DEF IntakeInv, CreateState
<1>3. disturbances' \in 0..MaxDisturbances
  BY BoundsAssumption DEF CreateFails, Disturbance, IntakeInv, IntakeTypes, ServerTypeOK
<1>4. \A k \in Jobs : Taken(k)' => Taken(k) /\ Registered(k) /\ k # j
  <2>1. ASSUME NEW k \in Jobs, Registered(k)' PROVE Registered(k)
    <3>1. status'[k] = status[k] \/ status'[k] = "LOST"
      BY <1>1, <1>2 DEF IntakeInv, IntakeTypes, ServerTypeOK
    <3> QED
      BY <2>1, <3>1 DEF Registered, Lifecycle!Statuses, Lifecycle!Outcomes
  <2> QED
    BY <1>1, <1>2, <2>1, AtRest DEF Taken
<1>5. /\ status' \in [Jobs -> Lifecycle!Answers] /\ input' \in [Jobs -> Seq(Uploads)]
      /\ \A k \in Jobs \ {j} : status'[k] = status[k] /\ input'[k] = input[k]
  <2>1. status \in [Jobs -> Lifecycle!Answers] /\ input \in [Jobs -> Seq(Uploads)]
    BY DEF IntakeInv, IntakeTypes, ServerTypeOK
  <2>2. "LOST" \in Lifecycle!Answers /\ "LOST" \notin Lifecycle!Statuses /\ << >> \in Seq(Uploads)
    BY DEF Lifecycle!Answers, Lifecycle!Statuses, Lifecycle!Outcomes
  <2>3. CASE input' = [input EXCEPT ![j] = << >>] /\ status' = status
    <3>1. input' \in [Jobs -> Seq(Uploads)] /\ \A k \in Jobs \ {j} : input'[k] = input[k]
      BY <2>1, <2>2, <2>3
    <3> QED
      BY <1>2, <1>4, <2>1, <2>3, <3>1
  <2>4. CASE status' = [status EXCEPT ![j] = "LOST"] /\ input' = input
    <3>1. /\ status' \in [Jobs -> Lifecycle!Answers]
          /\ \A k \in Jobs \ {j} : status'[k] = status[k]
      BY <2>1, <2>2, <2>4
    <3> QED
      BY <1>4, <2>1, <2>4, <3>1
  <2> QED
    BY <1>1, <2>3, <2>4
<1>6. IntakeTypes'
  BY <1>1, <1>3, <1>5 DEF IntakeInv, IntakeTypes, ServerTypeOK, uploads
<1>7. \A u \in Uploads : ~InHand(u)
  BY <1>0 DEF InHand
<1>8. ASSUME NEW k \in Jobs PROVE JobState(k)'
  <2>1. CASE k = j
    <3>1. ~Registered(k)' /\ ~Taken(k)'
      BY <1>4, <2>1 DEF Taken
    <3> QED
      BY <1>1, <1>2, <2>1, <3>1 DEF JobState
  <2>2. CASE k # j
    <3>1. JobState(k) /\ Range(input[k]) \subseteq Uploads
      BY DEF IntakeInv, IntakeTypes, ServerTypeOK, Range
    <3>2. (Registered(k)' <=> Registered(k)) /\ status'[k] = status[k] /\ input'[k] = input[k]
      BY <1>5, <2>2 DEF Registered
    <3>3. Taken(k)' => \A u \in Range(input[k]) :
            owner[u] = creation[k].client /\ (files[u] # "ready" \/ u \in kept)
      BY <1>4, <1>7, <3>1 DEF JobState
    <3> QED
      BY <1>1, <3>1, <3>2, <3>3 DEF JobState, uploads
  <2> QED
    BY <2>1, <2>2
<1>9. JobsDisjoint'
  BY <1>1, <1>5, <1>4 DEF IntakeInv, JobsDisjoint
<1>10. (\A u \in Uploads : UploadState(u))'
  BY <1>1, UploadsStay DEF uploads
<1> QED
  BY <1>1, <1>6, <1>8, <1>9, <1>10, AtRest DEF IntakeInv

-----------------------------------------------------------------------------
(* cleanup_expired                                                         *)

LEMMA SweepKeeps ==
  ASSUME IntakeInv, Sweep
  PROVE  IntakeInv'
<1> DEFINE new == [kind |-> "sweep", by |-> None,
                   left |-> {u \in Uploads : Sweepable(u)}]
<1>1. /\ op = Idle /\ op' = new
      /\ UNCHANGED <<up, kept, disturbances, uploads, jobs>>
      /\ answer' \in {"none", answer}
  BY DEF Sweep, Begin, Serving
<1>2. /\ new \in Sweeps /\ new.kind = "sweep"
      /\ new.left = {u \in Uploads : Sweepable(u)}
  BY DEF Sweeps
<1> HIDE DEF new
<1>3. IntakeTypes'
  BY <1>1, <1>2 DEF IntakeInv, IntakeTypes, ServerTypeOK, uploads, jobs
<1>4. CreateState' /\ SaveState' /\ SweepState'
  BY <1>1, <1>2 DEF CreateState, SaveState, SweepState, Creating, Sweepable, uploads
<1>5. ~Creating /\ ~Creating'
  BY <1>1, <1>2 DEF Creating, Idle
<1>6. (\A j \in Jobs : JobState(j))' /\ JobsDisjoint'
  BY <1>1, <1>5, JobsStay DEF uploads, jobs, Registered, Taken, InHand
<1>7. (\A u \in Uploads : UploadState(u))'
  BY <1>1, UploadsStay DEF uploads, jobs
<1> QED
  BY <1>3, <1>4, <1>6, <1>7 DEF IntakeInv

LEMMA SweepOneKeeps ==
  ASSUME IntakeInv, NEW u \in Uploads, SweepOne(u)
  PROVE  IntakeInv'
<1> DEFINE next == [op EXCEPT !.left = @ \ {u}]
<1>1. /\ op.kind = "sweep" /\ op \in Sweeps /\ u \in op.left
      /\ op' = IF op.left = {u} THEN Idle ELSE next
      /\ UNCHANGED <<up, owner, accepted, expired, jobs, kept, answer>>
  BY OpKinds DEF SweepOne, Continue, IntakeInv
<1>2. next \in Sweeps /\ next.kind = "sweep" /\ next.left = op.left \ {u}
  BY <1>1 DEF Sweeps
<1> HIDE DEF next
<1>3. /\ files' \in [Uploads -> Contents]
      /\ \A v \in Uploads \ {u} : files'[v] = files[v]
      /\ files'[u] = "ready" => files[u] = "ready"
  <2>1. CASE files' = [files EXCEPT ![u] = "none"]
    BY <2>1 DEF IntakeInv, IntakeTypes, ServerTypeOK, Contents
  <2>2. ASSUME NEW f \in Remains(u), files' = [files EXCEPT ![u] = f]
        PROVE  <1>3!1 /\ <1>3!2 /\ <1>3!3
    BY <2>2, RemainsOfUpload DEF IntakeInv
  <2> QED
    BY <2>1, <2>2 DEF SweepOne
<1>4. disturbances' \in 0..MaxDisturbances
  BY BoundsAssumption DEF SweepOne, Disturbance, IntakeInv, IntakeTypes, ServerTypeOK
<1>5. IntakeTypes'
  BY <1>1, <1>2, <1>3, <1>4 DEF IntakeInv, IntakeTypes, ServerTypeOK, jobs
<1>6. op'.kind \in {"idle", "sweep"} /\ ~Creating /\ ~Creating'
  BY <1>1, <1>2 DEF Creating, Idle
<1>7. CreateState' /\ SaveState'
  BY <1>6 DEF CreateState, SaveState
<1>8. SweepState'
  <2>1. CASE op' = Idle
    BY <2>1, AtRest
  <2>2. CASE op' = next
    <3>1. op.left \subseteq Uploads /\ SweepState
      BY <1>1 DEF Sweeps, IntakeInv
    <3> QED
      BY <1>1, <1>2, <1>3, <2>2, <3>1 DEF SweepState
  <2> QED
    BY <1>1, <2>1, <2>2
<1>9. ASSUME NEW j \in Jobs, Taken(j), NEW v \in Range(input[j])
      PROVE  files'[v] = "ready" => files[v] = "ready"
  <2>1. v \in Uploads
    BY <1>9 DEF IntakeInv, IntakeTypes, ServerTypeOK, Range
  <2> QED
    BY <1>3, <2>1
<1>10. (\A j \in Jobs : JobState(j))' /\ JobsDisjoint'
  BY <1>1, <1>6, <1>9, JobsStay DEF jobs, Registered, Taken, InHand
<1>11. ASSUME NEW v \in accepted, files[v] = "ready"
       PROVE  files'[v] = "ready" \/ v \in expired'
  <2>1. v \in Uploads /\ SweepState
    BY <1>11 DEF IntakeInv, IntakeTypes, ServerTypeOK
  <2>2. CASE v = u
    BY <1>1, <1>11, <2>1, <2>2 DEF SweepState
  <2>3. CASE v # u
    BY <1>3, <1>11, <2>1, <2>3
  <2> QED
    BY <2>2, <2>3
<1>12. (\A v \in Uploads : UploadState(v))'
  BY <1>1, <1>11, UploadsStay DEF jobs
<1> QED
  BY <1>5, <1>7, <1>8, <1>10, <1>12 DEF IntakeInv

-----------------------------------------------------------------------------
(* The jobs, and crashes                                                   *)

\* What the life cycle does to the jobs that are there.
LEMMA LifecycleSteps ==
  ASSUME status \in [Jobs -> Lifecycle!Answers],
         \/ \E j \in Jobs : Lifecycle!Start(j) \/ Lifecycle!Finish(j)
         \/ \E lost \in SUBSET Jobs : Lifecycle!Interrupt(Running, lost)
  PROVE  /\ status' \in [Jobs -> Lifecycle!Answers]
         /\ \A k \in Jobs : Registered(k)' => Registered(k)
         /\ \A k \in Jobs : status[k] = "none" => status'[k] = "none"
<1> USE DEF Registered, Lifecycle!Answers, Lifecycle!Statuses, Lifecycle!Outcomes
<1>1. ASSUME NEW j \in Jobs, Lifecycle!Start(j) \/ Lifecycle!Finish(j)
      PROVE  /\ status' \in [Jobs -> Lifecycle!Answers]
             /\ \A k \in Jobs : Registered(k)' => Registered(k)
             /\ \A k \in Jobs : status[k] = "none" => status'[k] = "none"
  <2>1. /\ status[j] \in {"PENDING", "RUNNING"}
        /\ \E s \in Lifecycle!Statuses : status' = [status EXCEPT ![j] = s]
    BY <1>1 DEF Lifecycle!Start, Lifecycle!Finish
  <2> QED
    BY <2>1
<1>2. ASSUME NEW lost \in SUBSET Jobs, Lifecycle!Interrupt(Running, lost)
      PROVE  /\ status' \in [Jobs -> Lifecycle!Answers]
             /\ \A k \in Jobs : Registered(k)' => Registered(k)
             /\ \A k \in Jobs : status[k] = "none" => status'[k] = "none"
  BY <1>2 DEF Lifecycle!Interrupt, Running
<1> QED
  BY <1>1, <1>2

LEMMA JobRunsKeeps ==
  ASSUME IntakeInv, NEW j \in Jobs, JobRuns(j)
  PROVE  IntakeInv'
<1>1. /\ op = Idle /\ op' = Idle
      /\ UNCHANGED <<up, uploads, creation, input, answer, kept, disturbances>>
      /\ Lifecycle!Start(j) \/ Lifecycle!Finish(j)
  BY DEF JobRuns, Serving
<1>2. /\ status' \in [Jobs -> Lifecycle!Answers]
      /\ \A k \in Jobs : Registered(k)' => Registered(k)
      /\ \A k \in Jobs : status[k] = "none" => status'[k] = "none"
  BY <1>1, LifecycleSteps DEF IntakeInv, IntakeTypes, ServerTypeOK
<1>3. IntakeTypes'
  BY <1>1, <1>2 DEF IntakeInv, IntakeTypes, ServerTypeOK, uploads
<1>4. ~Creating
  BY <1>1 DEF Idle, Creating
<1>5. \A k \in Jobs : creation[k] = None => status'[k] = status[k]
  BY <1>2 DEF IntakeInv, JobState
<1>6. \A k \in Jobs : Taken(k)' => Taken(k)
  BY <1>1, <1>2, AtRest DEF Taken
<1>7. (\A k \in Jobs : JobState(k))' /\ JobsDisjoint'
  BY <1>1, <1>2, <1>4, <1>5, <1>6, JobsStay DEF uploads, InHand
<1>8. (\A u \in Uploads : UploadState(u))'
  BY <1>1, UploadsStay DEF uploads
<1> QED
  BY <1>1, <1>3, <1>7, <1>8, AtRest DEF IntakeInv

LEMMA StopKeeps ==
  ASSUME IntakeInv, Stop
  PROVE  IntakeInv'
<1>1. /\ op = Idle /\ op' = Idle /\ up' = FALSE
      /\ UNCHANGED <<uploads, creation, input, answer, kept>>
      /\ \E lost \in SUBSET Jobs : Lifecycle!Interrupt(Running, lost)
  BY DEF Stop, Serving
<1>2. /\ status' \in [Jobs -> Lifecycle!Answers]
      /\ \A k \in Jobs : Registered(k)' => Registered(k)
      /\ \A k \in Jobs : status[k] = "none" => status'[k] = "none"
  BY <1>1, LifecycleSteps DEF IntakeInv, IntakeTypes, ServerTypeOK
<1>3. disturbances' \in 0..MaxDisturbances
  BY BoundsAssumption DEF Stop, Disturbance, IntakeInv, IntakeTypes, ServerTypeOK
<1>4. IntakeTypes'
  BY <1>1, <1>2, <1>3 DEF IntakeInv, IntakeTypes, ServerTypeOK, uploads
<1>5. ~Creating
  BY <1>1 DEF Idle, Creating
<1>6. \A k \in Jobs : creation[k] = None => status'[k] = status[k]
  BY <1>2 DEF IntakeInv, JobState
<1>7. \A k \in Jobs : Taken(k)' => Taken(k)
  BY <1>1, <1>2, AtRest DEF Taken
<1>8. (\A k \in Jobs : JobState(k))' /\ JobsDisjoint'
  BY <1>1, <1>2, <1>5, <1>6, <1>7, JobsStay DEF uploads, InHand
<1>9. (\A u \in Uploads : UploadState(u))'
  BY <1>1, UploadsStay DEF uploads
<1> QED
  BY <1>1, <1>4, <1>8, <1>9, AtRest DEF IntakeInv

LEMMA StartKeeps ==
  ASSUME IntakeInv, Start
  PROVE  IntakeInv'
BY DEF Start, IntakeInv, IntakeTypes, ServerTypeOK, CreateState, SaveState, SweepState,
       JobState, JobsDisjoint, UploadState, Named, Taken, Registered, InHand, Creating,
       uploads, jobs

\* A crash takes archives that are being removed, and leaves of a save what was
\* written.
LEMMA CrashedFiles ==
  ASSUME IntakeInv, Crash
  PROVE  /\ files' \in [Uploads -> Contents]
         /\ \A u \in accepted : files[u] = "ready" =>
              files'[u] = "ready" \/ u \in expired \/ Named(u)
         /\ \A j \in Jobs : Taken(j) => \A u \in Range(input[j]) :
              files'[u] = "ready" => files[u] = "ready"
<1>1. /\ accepted \subseteq Uploads /\ files \in [Uploads -> Contents]
      /\ \A j \in Jobs : Range(input[j]) \subseteq Uploads
  BY DEF IntakeInv, IntakeTypes, ServerTypeOK, Range
<1>2. CASE files' = files
  BY <1>1, <1>2
<1>3. ASSUME op.kind = "save", NEW f \in {"torn", "ready"},
             files' = [files EXCEPT ![op.upload] = f]
      PROVE  /\ files' \in [Uploads -> Contents]
             /\ \A u \in accepted : files[u] = "ready" =>
              files'[u] = "ready" \/ u \in expired \/ Named(u)
             /\ \A j \in Jobs : Taken(j) => \A u \in Range(input[j]) :
                  files'[u] = "ready" => files[u] = "ready"
  <2>1. /\ op.upload \in Uploads /\ op.upload \notin accepted
        /\ \A j \in Jobs : Taken(j) => op.upload \notin Range(input[j])
    BY <1>3, UnsavedUpload
  <2>2. files' \in [Uploads -> Contents] /\ \A u \in Uploads \ {op.upload} : files'[u] = files[u]
    BY <1>1, <1>3 DEF Contents
  <2>3. \A u \in accepted : files'[u] = files[u]
    BY <1>1, <2>1, <2>2
  <2>4. \A j \in Jobs : Taken(j) => \A u \in Range(input[j]) : files'[u] = files[u]
    BY <1>1, <2>1, <2>2
  <2> QED
    BY <2>2, <2>3, <2>4
<1>4. ASSUME NEW w \in InRemoval, NEW f \in Remains(w),
             files' = [files EXCEPT ![w] = f]
      PROVE  /\ files' \in [Uploads -> Contents]
             /\ \A u \in accepted : files[u] = "ready" =>
                  files'[u] = "ready" \/ u \in expired \/ Named(u)
             /\ \A j \in Jobs : Taken(j) => \A u \in Range(input[j]) :
                  files'[u] = "ready" => files[u] = "ready"
  <2>1. w \in Uploads /\ (files[w] = "ready" => w \in expired \/ Named(w))
    <3>1. CASE op.kind = "sweep"
      <4>1. op \in Sweeps /\ SweepState
        BY <3>1, OpKinds DEF IntakeInv
      <4>2. InRemoval = op.left
        BY <3>1 DEF InRemoval, Taking, Creating
      <4> QED
        BY <1>4, <3>1, <4>1, <4>2 DEF SweepState, Sweeps
    <3>2. CASE Taking /\ op.extracted
      <4>1. w = NextUpload
        BY <1>4, <3>2 DEF InRemoval, Taking, Creating
      <4>2. NextUpload \in Uploads /\ NextUpload \in Range(creation[op.job].names)
        BY <3>2, NextIsNamed
      <4>3. /\ op.job \in Jobs /\ creation[op.job] # None
            /\ owner[NextUpload] = creation[op.job].client
        BY <3>2, JobInCreation DEF Taking, NextUpload, IntakeInv, CreateState
      <4> QED
        BY <4>1, <4>2, <4>3 DEF Named
    <3> QED
      BY <1>4, <3>1, <3>2 DEF InRemoval
  <2>2. /\ files' \in [Uploads -> Contents]
        /\ files'[w] = "ready" => files[w] = "ready"
        /\ \A v \in Uploads \ {w} : files'[v] = files[v]
    BY <1>4, <2>1, RemainsOfUpload DEF IntakeInv
  <2>3. ASSUME NEW u \in accepted, files[u] = "ready"
        PROVE  files'[u] = "ready" \/ u \in expired \/ Named(u)
    <3>1. CASE u = w
      BY <2>1, <2>3, <3>1
    <3>2. CASE u # w
      BY <1>1, <2>2, <2>3, <3>2
    <3> QED
      BY <3>1, <3>2
  <2>4. \A u \in Uploads : files'[u] = "ready" => files[u] = "ready"
    BY <2>2
  <2> QED
    BY <1>1, <2>2, <2>3, <2>4
<1>5. \/ files' = files
      \/ op.kind = "save" /\ \E f \in {"torn", "ready"} : files' = [files EXCEPT ![op.upload] = f]
      \/ \E w \in InRemoval : \E f \in Remains(w) : files' = [files EXCEPT ![w] = f]
  BY DEF Crash, CutOffFiles
<1> QED
  BY <1>2, <1>3, <1>4, <1>5

\* A crash makes a job only of one whose archives are all extracted.
LEMMA CrashedJobs ==
  ASSUME IntakeInv, Crash
  PROVE  /\ status' \in [Jobs -> Lifecycle!Answers]
         /\ \A k \in Jobs : Registered(k)' =>
              creation[k] # None /\ input[k] = creation[k].names /\ Taken(k)
         /\ \A k \in Jobs : creation[k] = None => status'[k] = status[k]
<1>1. CASE \E lost \in SUBSET Jobs : Lifecycle!Interrupt(Running, lost)
  <2>1. /\ status' \in [Jobs -> Lifecycle!Answers]
        /\ \A k \in Jobs : Registered(k)' => Registered(k)
        /\ \A k \in Jobs : status[k] = "none" => status'[k] = "none"
    BY <1>1, LifecycleSteps DEF IntakeInv, IntakeTypes, ServerTypeOK
  <2> QED
    BY <2>1 DEF IntakeInv, JobState, Taken
<1>2. ASSUME NEW s \in {"LOST", "PENDING"}, CutOffRecord(s)
      PROVE  /\ status' \in [Jobs -> Lifecycle!Answers]
             /\ \A k \in Jobs : Registered(k)' =>
                  creation[k] # None /\ input[k] = creation[k].names /\ Taken(k)
             /\ \A k \in Jobs : creation[k] = None => status'[k] = status[k]
  <2>1. /\ op.job \in Jobs /\ creation[op.job] # None /\ Taken(op.job)
        /\ creation[op.job].names \in Seq(Uploads) /\ input[op.job] \in Seq(Uploads)
        /\ op.left = << >> /\ op.extracted = FALSE
        /\ Progress(creation[op.job].names, input[op.job], op.left, op.extracted)
    BY <1>2, JobInCreation DEF CutOffRecord, Extracted, IntakeInv, CreateState
  <2>2. input[op.job] = creation[op.job].names
    BY <2>1, ProgressEnds
  <2>3. status \in [Jobs -> Lifecycle!Answers]
    BY DEF IntakeInv, IntakeTypes, ServerTypeOK
  <2>4. s \in Lifecycle!Answers
    BY DEF Lifecycle!Answers, Lifecycle!Statuses, Lifecycle!Outcomes
  <2>5. /\ status' \in [Jobs -> Lifecycle!Answers]
        /\ \A k \in Jobs \ {op.job} : status'[k] = IF k \in Running THEN "FAILED" ELSE status[k]
    BY <1>2, <2>3, <2>4 DEF CutOffRecord, Lifecycle!Answers, Lifecycle!Statuses,
       Lifecycle!Outcomes
  <2>6. ASSUME NEW k \in Jobs, k # op.job, Registered(k)'
        PROVE  creation[k] # None /\ input[k] = creation[k].names /\ Taken(k)
    <3>1. Registered(k)
      BY <2>5, <2>6 DEF Registered, Running, Lifecycle!Statuses
    <3> QED
      BY <3>1 DEF Taken, IntakeInv, JobState
  <2>7. \A k \in Jobs : creation[k] = None => status'[k] = status[k]
    BY <2>1, <2>5 DEF IntakeInv, JobState, Running
  <2> QED
    BY <2>1, <2>2, <2>5, <2>6, <2>7
<1> QED
  BY <1>1, <1>2 DEF Crash

LEMMA CrashKeeps ==
  ASSUME IntakeInv, Crash
  PROVE  IntakeInv'
<1>1. /\ op' = Idle /\ up' = FALSE
      /\ UNCHANGED <<owner, accepted, expired, creation, input, kept>>
      /\ answer' \in {"error", answer}
  BY DEF Crash
<1>2. disturbances' \in 0..MaxDisturbances
  BY BoundsAssumption DEF Crash, Disturbance, IntakeInv, IntakeTypes, ServerTypeOK
<1>3. IntakeTypes'
  BY <1>1, <1>2, CrashedFiles, CrashedJobs DEF IntakeInv, IntakeTypes, ServerTypeOK
<1>4. \A k \in Jobs : Taken(k)' => Taken(k)
  BY <1>1, CrashedJobs, AtRest
<1>5. ASSUME NEW k \in Jobs PROVE JobState(k)'
  <2>1. ASSUME Taken(k)', NEW u \in Range(input[k])
        PROVE  owner[u] = creation[k].client /\ (files'[u] # "ready" \/ u \in kept)
    <3>1. JobState(k) /\ Taken(k)
      BY <1>4, <2>1 DEF IntakeInv
    <3>2. CASE ~InHand(u)
      BY <2>1, <3>1, <3>2, CrashedFiles DEF JobState
    <3>3. CASE InHand(u)
      <4>1. /\ op.job \in Jobs /\ creation[op.job].names \in Seq(Uploads)
            /\ input[op.job] \in Seq(Uploads) /\ op.left \in Seq(Uploads)
            /\ op.left # << >> /\ Progress(creation[op.job].names, input[op.job], op.left, TRUE)
            /\ ~Registered(op.job) /\ Taken(op.job) /\ op.extracted = TRUE
        BY <3>3, JobInCreation DEF InHand
      <4>2. u \in Range(input[op.job])
        BY <3>3, <4>1, LastOfProgress DEF InHand
      <4>3. \E lost \in SUBSET Jobs : Lifecycle!Interrupt(Running, lost)
        BY <4>1 DEF Crash, CutOffRecord, Extracted
      <4>4. k # op.job
        BY <1>1, <2>1, <4>1, <4>3, LifecycleSteps, AtRest DEF IntakeInv, IntakeTypes, ServerTypeOK
      <4>5. u \in kept
        BY <2>1, <3>1, <4>1, <4>2, <4>4 DEF IntakeInv, JobsDisjoint
      <4> QED
        BY <3>1, <4>5, <2>1 DEF JobState
    <3> QED
      BY <3>2, <3>3
  <2>2. creation[k] = None => status'[k] = "none" /\ input[k] = << >>
    BY CrashedJobs DEF IntakeInv, JobState
  <2> QED
    BY <1>1, <2>1, <2>2, CrashedJobs DEF JobState
<1>6. JobsDisjoint'
  BY <1>1, <1>4 DEF IntakeInv, JobsDisjoint
<1>7. (\A u \in Uploads : UploadState(u))'
  BY <1>1, CrashedFiles, UploadsStay
<1> QED
  BY <1>1, <1>3, <1>5, <1>6, <1>7, AtRest DEF IntakeInv

-----------------------------------------------------------------------------
(* The command line                                                        *)

Clis == [at : {"files", "uploading", "creating", "waiting", "exited"},
         got : Seq(Uploads), id : 0..(MaxUploads + MaxJobs),
         errors : 0..(MaxRetries - 1), polled : BOOLEAN, code : 0..3]

CliTypes ==
  /\ cli \in Clis /\ late \in BOOLEAN
  /\ cli.at = "uploading" => cli.id \in Uploads

\* A step of the server alone.
LEMMA ServerKeeps ==
  ASSUME IntakeInv, ServerStep \/ Environment \/ (\E c \in Clients : ClientRequest(c))
  PROVE  IntakeInv'
<1>1. CASE ServerStep
  BY <1>1, WriteMetaKeeps, SaveFailsKeeps, ExtractKeeps, DeleteKeeps, RegisterKeeps,
     CreateFailsKeeps, SweepOneKeeps DEF ServerStep
<1>2. CASE Environment
  BY <1>2, ExpireKeeps, JobRunsKeeps, SweepKeeps, CrashKeeps, StopKeeps, StartKeeps
     DEF Environment
<1>3. ASSUME NEW c \in Clients, ClientRequest(c) PROVE IntakeInv'
  BY <1>3, SaveUploadKeeps, CreateJobKeeps, SeqRequests DEF ClientRequest
<1> QED
  BY <1>1, <1>2, <1>3

LEMMA ServerStays ==
  ASSUME IntakeInv, UNCHANGED serverVars
  PROVE  IntakeInv'
BY DEF serverVars, IntakeInv, IntakeTypes, ServerTypeOK, CreateState, SaveState, SweepState,
       JobState, JobsDisjoint, UploadState, Named, Taken, Registered, InHand, Creating,
       uploads, jobs

\* The command line sends what any client can send.
LEMMA CliStepKeeps ==
  ASSUME IntakeInv, CliTypes, CliStep \/ PollBreaks
  PROVE  IntakeInv'
<1>1. ASSUME NEW u \in Uploads, SaveUpload(Watched, u) PROVE IntakeInv'
  BY <1>1, SaveUploadKeeps, ClientsAssumption
<1>2. ASSUME NEW j \in Jobs, CreateJob(Watched, j, cli.got) PROVE IntakeInv'
  BY <1>2, CreateJobKeeps, ClientsAssumption DEF CliTypes, Clis
<1>3. CASE \/ Uploaded \/ Created \/ GiveUp \/ NeverAsk
           \/ PollFinished \/ PollUnfinished \/ PollFails \/ PollBreaks
  BY <1>3, ServerStays
     DEF Uploaded, Created, GiveUp, NeverAsk, PollFinished, PollUnfinished, PollFails,
         PollBreaks
<1> QED
  BY <1>1, <1>2, <1>3 DEF CliStep, UploadFile, CreateItsJob

LEMMA ExitTypes ==
  ASSUME CliTypes, NEW code \in 0..3, Exit(code)
  PROVE  CliTypes'
<1>1. 0 \in 0..(MaxRetries - 1)
  BY ClientBoundsAssumption
<1>2. cli' \in Clis /\ cli'.at = "exited"
  BY <1>1 DEF CliTypes, Clis, Exit
<1> QED
  BY <1>2 DEF CliTypes, Clis, Exit

LEMMA CliStepTypes ==
  ASSUME CliTypes, CliStep \/ PollBreaks
  PROVE  CliTypes'
<1>0. /\ cli \in Clis
      /\ 0 \in 0..(MaxRetries - 1)
      /\ Uploads \subseteq 0..(MaxUploads + MaxJobs) /\ Jobs \subseteq 0..(MaxUploads + MaxJobs)
      /\ 0 \in 0..(MaxUploads + MaxJobs)
  BY ClientBoundsAssumption, BoundsAssumption DEF CliTypes, Clis, Uploads, Jobs
<1>1. ASSUME NEW u \in Uploads, cli' = [cli EXCEPT !.at = "uploading", !.id = u],
             UNCHANGED late
      PROVE  CliTypes'
  BY <1>0, <1>1 DEF CliTypes, Clis
<1>2. CASE Uploaded
  <2>1. Append(cli.got, cli.id) \in Seq(Uploads)
    BY <1>0, <1>2 DEF Uploaded, CliTypes, Clis
  <2> DEFINE got == Append(cli.got, cli.id)
  <2>2. cli' = [cli EXCEPT !.at = "files", !.got = got, !.id = 0] /\ late' = late
    BY <1>2 DEF Uploaded
  <2>3. got \in Seq(Uploads)
    BY <2>1
  <2> HIDE DEF got
  <2> QED
    BY <1>0, <2>2, <2>3 DEF CliTypes, Clis
<1>3. ASSUME NEW j \in Jobs, cli' = [cli EXCEPT !.at = "creating", !.id = j],
             UNCHANGED late
      PROVE  CliTypes'
  BY <1>0, <1>3 DEF CliTypes, Clis
<1>4. CASE Created
  BY <1>0, <1>4 DEF Created, Goto, CliTypes, Clis
<1>5. CASE GiveUp \/ NeverAsk \/ PollFinished \/ PollBreaks
  BY <1>5, ExitTypes DEF GiveUp, NeverAsk, PollFinished, PollBreaks
<1>6. CASE PollUnfinished
  <2>1. CASE late
    BY <1>6, <2>1, ExitTypes DEF PollUnfinished
  <2>2. CASE ~late
    BY <1>0, <1>6, <2>2 DEF PollUnfinished, CliTypes, Clis
  <2> QED
    BY <2>1, <2>2
<1>7. CASE PollFails
  <2>1. CASE cli.errors + 1 >= MaxRetries
    BY <1>7, <2>1, ExitTypes DEF PollFails
  <2>2. CASE ~(cli.errors + 1 >= MaxRetries)
    <3>1. cli.errors + 1 \in 0..(MaxRetries - 1)
      BY <1>0, <2>2, ClientBoundsAssumption DEF Clis
    <3>2. cli' = [cli EXCEPT !.errors = cli.errors + 1, !.polled = TRUE] /\ late' = late
      BY <1>7, <2>2 DEF PollFails
    <3>3. cli' \in Clis /\ cli'.at = cli.at /\ cli'.id = cli.id
      BY <1>0, <3>1, <3>2 DEF Clis
    <3> QED
      BY <3>2, <3>3 DEF CliTypes, Clis
  <2> QED
    BY <2>1, <2>2
<1> QED
  BY <1>1, <1>2, <1>3, <1>4, <1>5, <1>6, <1>7 DEF CliStep, UploadFile, CreateItsJob

LEMMA InitState == Init => IntakeInv /\ CliTypes
<1> SUFFICES ASSUME Init PROVE IntakeInv /\ CliTypes
  OBVIOUS
<1>1. op = Idle /\ ServerInit
  BY DEF Init, ServerInit
<1>2. ServerTypeOK
  BY <1>1, BoundsAssumption DEF ServerInit, ServerTypeOK, Contents, Lifecycle!Init,
     Lifecycle!Answers
<1>3. CreateState /\ SaveState /\ SweepState
  BY <1>1 DEF CreateState, SaveState, SweepState, Creating, Idle
<1>4. \A j \in Jobs : status[j] = "none" /\ input[j] = << >> /\ ~Taken(j) /\ ~Registered(j)
  BY <1>1 DEF ServerInit, Lifecycle!Init, Taken, Registered, Creating, Idle,
     Lifecycle!Statuses, Lifecycle!Outcomes
<1>5. (\A j \in Jobs : JobState(j)) /\ JobsDisjoint
  BY <1>4 DEF JobState, JobsDisjoint
<1>6. \A u \in Uploads : UploadState(u)
  BY <1>1 DEF ServerInit, UploadState
<1>7. CliTypes
  <2>1. 0 \in 0..(MaxRetries - 1) /\ 0 \in 0..(MaxUploads + MaxJobs) /\ << >> \in Seq(Uploads)
    BY ClientBoundsAssumption, BoundsAssumption
  <2>2. /\ cli = [at |-> "files", got |-> << >>, id |-> 0, errors |-> 0, polled |-> FALSE,
                  code |-> 0]
        /\ late = FALSE
    BY DEF Init
  <2>3. cli \in Clis /\ cli.at = "files"
    BY <2>1, <2>2 DEF Clis
  <2> QED
    BY <2>2, <2>3 DEF CliTypes
<1> QED
  BY <1>1, <1>2, <1>3, <1>5, <1>6, <1>7 DEF IntakeInv, IntakeTypes

LEMMA IntakeInvariant == Spec => [](IntakeInv /\ CliTypes)
<1>1. IntakeInv /\ CliTypes /\ [Next]_vars => (IntakeInv /\ CliTypes)'
  <2> SUFFICES ASSUME IntakeInv, CliTypes, [Next]_vars PROVE IntakeInv' /\ CliTypes'
    OBVIOUS
  <2>1. CASE CliStep \/ PollBreaks
    BY <2>1, CliStepKeeps, CliStepTypes
  <2>2. CASE DeadlinePasses
    BY <2>2, ServerStays DEF DeadlinePasses, CliTypes
  <2>3. CASE (Others \/ ServerStep \/ Environment) /\ UNCHANGED clientVars
    BY <2>3, ServerKeeps DEF Others, clientVars, CliTypes
  <2>4. CASE UNCHANGED vars
    BY <2>4, ServerStays DEF vars, clientVars, CliTypes
  <2> QED
    BY <2>1, <2>2, <2>3, <2>4 DEF Next
<1> QED
  BY <1>1, InitState, PTL DEF Spec

-----------------------------------------------------------------------------
(* Theorems                                                                *)

\* Every state is well formed, also beside a command line that was given any
\* number of files.
THEOREM TypesHold == Spec => []TypeOK
<1>1. IntakeInv /\ CliTypes => TypeOK
  BY DEF IntakeInv, IntakeTypes, CliTypes, Clis, TypeOK
<1> QED
  BY <1>1, IntakeInvariant, PTL

\* A job that exists has the archives of its request in its input, all of them,
\* in their order, its client's own, and no other job has them.
THEOREM InputsAreTheirOwn == Spec => []JobInputsAreTheirOwn
<1>1. IntakeInv => JobInputsAreTheirOwn
  <2> SUFFICES ASSUME IntakeInv, NEW j \in Jobs, Registered(j)
               PROVE  /\ input[j] = creation[j].names
                      /\ \A u \in Range(input[j]) :
                           /\ owner[u] = creation[j].client
                           /\ \A k \in Jobs \ {j} :
                                Registered(k) /\ u \in Range(input[k]) => u \in kept
    BY DEF JobInputsAreTheirOwn
  <2>1. Taken(j) /\ JobState(j) /\ JobsDisjoint
    BY DEF Taken, IntakeInv
  <2>2. ASSUME NEW u \in Range(input[j]), NEW k \in Jobs \ {j}, Registered(k),
               u \in Range(input[k])
        PROVE  u \in kept
    BY <2>1, <2>2 DEF Taken, JobsDisjoint
  <2> QED
    BY <2>1, <2>2 DEF JobState
<1> QED
  BY <1>1, IntakeInvariant, PTL

\* An accepted archive stays until it expires or its client names it.
THEOREM UploadsAreKept == Spec => []AcceptedUploadsAreKept
<1>1. IntakeInv => AcceptedUploadsAreKept
  BY DEF IntakeInv, UploadState, Named, AcceptedUploadsAreKept
<1> QED
  BY <1>1, IntakeInvariant, PTL

-----------------------------------------------------------------------------
(* What the command line reports                                           *)

\* The job of the command line was made from all its files.
ItsOwnJob ==
  /\ cli.id \in Jobs /\ Len(cli.got) = Files
  /\ creation[cli.id] = [client |-> Watched, names |-> cli.got]

\* While it waits for the answer, no other request of its own is under way.
RequestState ==
  cli.at = "creating" =>
    /\ op # Idle /\ op.by = Watched => op.kind = "create" /\ op.job = cli.id
    /\ answer = "ok" => status[cli.id] # "none"

ReportState ==
  /\ cli.at \in {"creating", "waiting"} => ItsOwnJob
  /\ RequestState
  /\ cli.at = "waiting" => status[cli.id] # "none"
  /\ cli.at = "exited" =>
       /\ cli.code \in {0, 3} =>
            ItsOwnJob /\ Finished(cli.id) /\ (cli.code = 0 <=> status[cli.id] = "COMPLETED")
       /\ cli.code = 2 => late

\* What was said of a job stays, and neither a request nor a success of the
\* watched client comes from nowhere.
JobsRemain ==
  \A j \in Jobs : /\ creation[j] # None => creation'[j] = creation[j]
                  /\ status[j] # "none" => status'[j] # "none"
                  /\ Finished(j) => status'[j] = status[j]

RequestGoesOn ==
  (op' # Idle /\ op'.by = Watched) =>
    /\ op # Idle /\ op.by = Watched /\ op'.kind = op.kind
    /\ op.kind = "create" => op'.job = op.job

SuccessIsEarned ==
  answer' = "ok" =>
    \/ answer = "ok"
    \/ op # Idle /\ op.by = Watched /\ (op.kind = "create" => status'[op.job] # "none")

NothingFromNowhere == JobsRemain /\ RequestGoesOn /\ SuccessIsEarned

LEMMA OwnIsSome ==
  ASSUME CliTypes PROVE [client |-> Watched, names |-> cli.got] # None
BY ClientsAssumption DEF CliTypes, Clis, Uploads

LEMMA LifecycleRemains ==
  ASSUME status \in [Jobs -> Lifecycle!Answers],
         \/ \E j \in Jobs : Lifecycle!Start(j) \/ Lifecycle!Finish(j)
         \/ \E lost \in SUBSET Jobs : Lifecycle!Interrupt(Running, lost)
  PROVE  \A k \in Jobs : /\ status[k] # "none" => status'[k] # "none"
                         /\ Finished(k) => status'[k] = status[k]
<1> USE DEF Finished, Lifecycle!Outcomes
<1>1. ASSUME NEW j \in Jobs, Lifecycle!Start(j) \/ Lifecycle!Finish(j), NEW k \in Jobs
      PROVE  /\ status[k] # "none" => status'[k] # "none"
             /\ Finished(k) => status'[k] = status[k]
  <2>1. /\ status[j] \in {"PENDING", "RUNNING"}
        /\ \E s \in Lifecycle!Outcomes \cup {"RUNNING"} : status' = [status EXCEPT ![j] = s]
    BY <1>1 DEF Lifecycle!Start, Lifecycle!Finish
  <2> QED
    BY <2>1
<1>2. ASSUME NEW lost \in SUBSET Jobs, Lifecycle!Interrupt(Running, lost), NEW k \in Jobs
      PROVE  /\ status[k] # "none" => status'[k] # "none"
             /\ Finished(k) => status'[k] = status[k]
  BY <1>2 DEF Lifecycle!Interrupt, Running
<1> QED
  BY <1>1, <1>2

\* Another client's request.
LEMMA OthersAsk ==
  ASSUME IntakeInv, NEW c \in Clients \ {Watched}, ClientRequest(c)
  PROVE  NothingFromNowhere
<1>1. ASSUME NEW u \in Uploads, SaveUpload(c, u) PROVE NothingFromNowhere
  <2>1. /\ op' = [kind |-> "save", by |-> c, upload |-> u]
        /\ answer' = answer /\ UNCHANGED jobs
    BY <1>1 DEF SaveUpload, Begin
  <2> QED
    BY <2>1 DEF NothingFromNowhere, JobsRemain, RequestGoesOn, SuccessIsEarned, jobs
<1>2. ASSUME NEW j \in Jobs, NEW names \in Requests, CreateJob(c, j, names)
      PROVE  NothingFromNowhere
  <2>1. /\ op' = [kind |-> "create", by |-> c, job |-> j, left |-> names, extracted |-> FALSE]
        /\ answer' = answer /\ status' = status /\ creation[j] = None
        /\ creation' = [creation EXCEPT ![j] = [client |-> c, names |-> names]]
    BY <1>2 DEF CreateJob, Begin
  <2>2. op'.by = c
    BY <2>1
  <2>3. \A k \in Jobs : creation[k] # None => creation'[k] = creation[k]
    BY <2>1 DEF IntakeInv, IntakeTypes, ServerTypeOK
  <2> QED
    BY <2>1, <2>2, <2>3 DEF NothingFromNowhere, JobsRemain, RequestGoesOn, SuccessIsEarned
<1> QED
  BY <1>1, <1>2 DEF ClientRequest

\* An operation that ends with an answer, and makes no job that was not there.
LEMMA EndOfOperation ==
  ASSUME JobsRemain, NEW what, End(what), op # Idle,
         what = "ok" /\ op.kind = "create" => status'[op.job] # "none"
  PROVE  NothingFromNowhere
BY DEF NothingFromNowhere, RequestGoesOn, SuccessIsEarned, End

LEMMA ServerGoesOn ==
  ASSUME IntakeInv, ServerStep
  PROVE  NothingFromNowhere
<1>1. CASE WriteMeta
  <2>1. End("ok") /\ UNCHANGED jobs /\ op.kind = "save"
    BY <1>1 DEF WriteMeta
  <2>2. JobsRemain /\ op # Idle
    BY <2>1 DEF JobsRemain, jobs, Idle
  <2> QED
    BY <2>1, <2>2, EndOfOperation
<1>2. CASE SaveFails
  <2>1. End("error") /\ UNCHANGED jobs /\ op.kind = "save"
    BY <1>2 DEF SaveFails
  <2>2. JobsRemain /\ op # Idle
    BY <2>1 DEF JobsRemain, jobs, Idle
  <2> QED
    BY <2>1, <2>2, EndOfOperation
<1>3. CASE Extract
  <2>1. /\ op' = [op EXCEPT !.extracted = TRUE] /\ answer' = answer
        /\ UNCHANGED <<creation, status>> /\ Creating
    BY <1>3 DEF Extract, Continue, Taking
  <2>2. op \in Creates /\ op # Idle
    BY <2>1, JobInCreation DEF Creates, Idle
  <2>3. op'.by = op.by /\ op'.kind = op.kind /\ op'.job = op.job
    BY <2>1, <2>2 DEF Creates
  <2> QED
    BY <2>1, <2>2, <2>3 DEF NothingFromNowhere, JobsRemain, RequestGoesOn, SuccessIsEarned
<1>4. CASE Delete
  <2>1. /\ op' = [op EXCEPT !.extracted = FALSE, !.left = Tail(@)] /\ answer' = answer
        /\ UNCHANGED jobs /\ Creating
    BY <1>4 DEF Delete, Continue, Taking
  <2>2. op \in Creates /\ op # Idle
    BY <2>1, JobInCreation DEF Creates, Idle
  <2>3. op'.by = op.by /\ op'.kind = op.kind /\ op'.job = op.job
    BY <2>1, <2>2 DEF Creates
  <2> QED
    BY <2>1, <2>2, <2>3
       DEF NothingFromNowhere, JobsRemain, RequestGoesOn, SuccessIsEarned, jobs
<1>5. CASE Register
  <2>1. /\ Creating /\ End("ok") /\ creation' = creation
        /\ status' = [status EXCEPT ![op.job] = "PENDING"]
    BY <1>5 DEF Register, Extracted, Lifecycle!Submit
  <2>2. op.job \in Jobs /\ status[op.job] = "none" /\ op # Idle
    BY <2>1, JobInCreation DEF Creating, Idle
  <2>3. JobsRemain /\ status'[op.job] # "none"
    BY <2>1, <2>2 DEF JobsRemain, IntakeInv, IntakeTypes, ServerTypeOK, Finished,
       Lifecycle!Outcomes
  <2> QED
    BY <2>1, <2>2, <2>3, EndOfOperation
<1>6. CASE CreateFails
  <2>1. /\ Creating /\ End("error") /\ creation' = creation
        /\ status' = status \/ status' = [status EXCEPT ![op.job] = "LOST"]
    BY <1>6 DEF CreateFails
  <2>2. op.job \in Jobs /\ status[op.job] = "none" /\ op # Idle
    BY <2>1, JobInCreation DEF Creating, Idle
  <2>3. JobsRemain
    BY <2>1, <2>2 DEF JobsRemain, IntakeInv, IntakeTypes, ServerTypeOK, Finished,
       Lifecycle!Outcomes
  <2> QED
    BY <2>1, <2>2, <2>3, EndOfOperation
<1>7. ASSUME NEW u \in Uploads, SweepOne(u) PROVE NothingFromNowhere
  <2>1. /\ op' = IF op.left = {u} THEN Idle ELSE [op EXCEPT !.left = @ \ {u}]
        /\ answer' = answer /\ UNCHANGED jobs /\ op.kind = "sweep"
    BY <1>7 DEF SweepOne, Continue
  <2>2. op \in Sweeps
    BY <2>1, OpKinds DEF IntakeInv
  <2>3. op' = Idle \/ op'.by = None
    BY <2>1, <2>2 DEF Sweeps
  <2> QED
    BY <2>1, <2>3, ClientsAssumption
       DEF NothingFromNowhere, JobsRemain, RequestGoesOn, SuccessIsEarned, jobs
<1> QED
  BY <1>1, <1>2, <1>3, <1>4, <1>5, <1>6, <1>7 DEF ServerStep

LEMMA EnvironmentGoesOn ==
  ASSUME IntakeInv, Environment
  PROVE  NothingFromNowhere
<1>0. status \in [Jobs -> Lifecycle!Answers]
  BY DEF IntakeInv, IntakeTypes, ServerTypeOK
<1>1. ASSUME op' = op \/ op' = Idle, answer' = answer, UNCHANGED <<creation, status>>
      PROVE  NothingFromNowhere
  BY <1>1 DEF NothingFromNowhere, JobsRemain, RequestGoesOn, SuccessIsEarned
<1>2. CASE (\E u \in Uploads : Expire(u)) \/ Start
  BY <1>1, <1>2 DEF Expire, Start, jobs
<1>3. ASSUME NEW j \in Jobs, JobRuns(j) PROVE NothingFromNowhere
  BY <1>0, <1>3, LifecycleRemains
     DEF JobRuns, NothingFromNowhere, JobsRemain, RequestGoesOn, SuccessIsEarned
<1>4. CASE Stop
  BY <1>0, <1>4, LifecycleRemains
     DEF Stop, NothingFromNowhere, JobsRemain, RequestGoesOn, SuccessIsEarned
<1>5. CASE Sweep
  <2>1. /\ op' = [kind |-> "sweep", by |-> None, left |-> {u \in Uploads : Sweepable(u)}]
        /\ answer' \in {"none", answer} /\ UNCHANGED jobs
    BY <1>5 DEF Sweep, Begin
  <2>2. op'.by = None
    BY <2>1
  <2> QED
    BY <2>1, <2>2, ClientsAssumption
       DEF NothingFromNowhere, JobsRemain, RequestGoesOn, SuccessIsEarned, jobs
<1>6. CASE Crash
  <2>1. op' = Idle /\ creation' = creation /\ answer' \in {"error", answer}
    BY <1>6 DEF Crash
  <2>2. RequestGoesOn /\ SuccessIsEarned
    BY <2>1 DEF RequestGoesOn, SuccessIsEarned
  <2>3. CASE \E lost \in SUBSET Jobs : Lifecycle!Interrupt(Running, lost)
    BY <1>0, <2>1, <2>2, <2>3, LifecycleRemains DEF NothingFromNowhere, JobsRemain
  <2>4. ASSUME NEW s \in {"LOST", "PENDING"}, CutOffRecord(s)
        PROVE  NothingFromNowhere
    <3>1. op.job \in Jobs /\ status[op.job] = "none"
      BY <2>4, JobInCreation DEF CutOffRecord, Extracted
    <3>2. JobsRemain
      BY <1>0, <2>1, <2>4, <3>1
         DEF CutOffRecord, Running, JobsRemain, Finished, Lifecycle!Outcomes
    <3> QED
      BY <2>2, <3>2 DEF NothingFromNowhere
  <2> QED
    BY <1>6, <2>3, <2>4 DEF Crash
<1> QED
  BY <1>2, <1>3, <1>4, <1>5, <1>6 DEF Environment

\* Whatever the server does meanwhile, the report stays true.
LEMMA ServerKeepsReport ==
  ASSUME IntakeInv, CliTypes, ReportState, NothingFromNowhere, UNCHANGED clientVars
  PROVE  ReportState'
<1>1. cli' = cli /\ late' = late
  BY DEF clientVars
<1>2. ItsOwnJob => ItsOwnJob'
  BY <1>1, OwnIsSome DEF ItsOwnJob, NothingFromNowhere, JobsRemain
<1>3. RequestState'
  <2> SUFFICES ASSUME cli.at = "creating"
               PROVE  /\ (op' # Idle /\ op'.by = Watched) => op'.kind = "create" /\ op'.job = cli.id
                      /\ answer' = "ok" => status'[cli.id] # "none"
    BY <1>1 DEF RequestState
  <2>1. /\ (op # Idle /\ op.by = Watched) => op.kind = "create" /\ op.job = cli.id
        /\ answer = "ok" => status[cli.id] # "none"
        /\ cli.id \in Jobs
    BY DEF ReportState, RequestState, ItsOwnJob
  <2> QED
    BY <2>1 DEF NothingFromNowhere, JobsRemain, RequestGoesOn, SuccessIsEarned
<1>4. cli.at = "waiting" => status'[cli.id] # "none"
  BY DEF ReportState, ItsOwnJob, NothingFromNowhere, JobsRemain
<1>5. ItsOwnJob /\ Finished(cli.id) => Finished(cli.id)' /\ status'[cli.id] = status[cli.id]
  BY <1>1 DEF ItsOwnJob, NothingFromNowhere, JobsRemain, Finished
<1> QED
  BY <1>1, <1>2, <1>3, <1>4, <1>5 DEF ReportState

LEMMA ExitReports ==
  ASSUME CliTypes, NEW code \in 0..3, Exit(code), UNCHANGED serverVars,
         code \in {0, 3} =>
           ItsOwnJob /\ Finished(cli.id) /\ (code = 0 <=> status[cli.id] = "COMPLETED"),
         code = 2 => late
  PROVE  ReportState'
<1>1. /\ cli'.at = "exited" /\ cli'.code = code /\ cli'.id = cli.id /\ cli'.got = cli.got
      /\ late' = late
  BY DEF CliTypes, Clis, Exit
<1>2. creation' = creation /\ status' = status
  BY DEF serverVars, jobs
<1> QED
  BY <1>1, <1>2 DEF ReportState, RequestState, ItsOwnJob, Finished

LEMMA CliStepReports ==
  ASSUME IntakeInv, CliTypes, ReportState, CliStep \/ PollBreaks
  PROVE  ReportState'
<1>0. cli \in Clis
  BY DEF CliTypes
<1>1. ASSUME cli'.at \in {"files", "uploading"} PROVE ReportState'
  BY <1>1 DEF ReportState, RequestState
<1>2. CASE UploadFile
  <2>1. PICK u \in Uploads : cli' = [cli EXCEPT !.at = "uploading", !.id = u]
    BY <1>2 DEF UploadFile
  <2>2. cli'.at = "uploading"
    BY <1>0, <2>1 DEF Clis
  <2> QED
    BY <1>1, <2>2
<1>3. CASE Uploaded
  <2>1. cli'.at = "files"
    BY <1>0, <1>3 DEF Uploaded, Clis
  <2> QED
    BY <1>1, <2>1
<1>4. CASE CreateItsJob
  <2>1. PICK j \in Jobs : /\ CreateJob(Watched, j, cli.got)
                          /\ cli' = [cli EXCEPT !.at = "creating", !.id = j]
    BY <1>4 DEF CreateItsJob
  <2>2. cli'.at = "creating" /\ cli'.id = j /\ cli'.got = cli.got /\ Len(cli.got) = Files
    BY <1>0, <1>4, <2>1 DEF Clis, CreateItsJob
  <2>3. /\ op' = [kind |-> "create", by |-> Watched, job |-> j, left |-> cli.got,
                  extracted |-> FALSE]
        /\ answer' = "none"
        /\ creation' = [creation EXCEPT ![j] = [client |-> Watched, names |-> cli.got]]
    BY <2>1 DEF CreateJob, Begin
  <2>4. creation'[j] = [client |-> Watched, names |-> cli.got]
    BY <2>3 DEF IntakeInv, IntakeTypes, ServerTypeOK
  <2>5. op'.kind = "create" /\ op'.job = j
    BY <2>3
  <2> QED
    BY <2>2, <2>3, <2>4, <2>5 DEF ReportState, RequestState, ItsOwnJob
<1>5. CASE Created
  <2>1. /\ cli'.at = "waiting" /\ cli'.id = cli.id /\ cli'.got = cli.got
        /\ cli.at = "creating" /\ answer = "ok"
        /\ creation' = creation /\ status' = status
    BY <1>0, <1>5 DEF Created, Goto, Clis, serverVars, jobs
  <2> QED
    BY <2>1 DEF ReportState, RequestState, ItsOwnJob
<1>6. CASE GiveUp
  BY <1>6, ExitReports DEF GiveUp
<1>7. CASE NeverAsk \/ PollBreaks
  BY <1>7, ExitReports DEF NeverAsk, PollBreaks
<1>8. CASE PollFinished
  <2>1. ItsOwnJob /\ Finished(cli.id) /\ UNCHANGED serverVars
        /\ Exit(IF status[cli.id] = "COMPLETED" THEN 0 ELSE 3)
    BY <1>8 DEF PollFinished, ReportState
  <2> QED
    BY <2>1, ExitReports
<1>9. ASSUME cli.at = "waiting", cli'.at = "waiting", cli'.id = cli.id, cli'.got = cli.got,
             UNCHANGED serverVars
      PROVE  ReportState'
  BY <1>9 DEF ReportState, RequestState, ItsOwnJob, serverVars, jobs
<1>10. CASE PollUnfinished
  <2>1. CASE late
    BY <1>10, <2>1, ExitReports DEF PollUnfinished
  <2>2. CASE ~late
    <3>1. cli'.at = cli.at /\ cli'.id = cli.id /\ cli'.got = cli.got
      BY <1>0, <1>10, <2>2 DEF PollUnfinished, Clis
    <3> QED
      BY <1>9, <1>10, <3>1 DEF PollUnfinished
  <2> QED
    BY <2>1, <2>2
<1>11. CASE PollFails
  <2>1. CASE cli.errors + 1 >= MaxRetries
    BY <1>11, <2>1, ExitReports DEF PollFails
  <2>2. CASE ~(cli.errors + 1 >= MaxRetries)
    <3>1. cli'.at = cli.at /\ cli'.id = cli.id /\ cli'.got = cli.got
      BY <1>0, <1>11, <2>2 DEF PollFails, Clis
    <3> QED
      BY <1>9, <1>11, <3>1 DEF PollFails
  <2> QED
    BY <2>1, <2>2
<1> QED
  BY <1>2, <1>3, <1>4, <1>5, <1>6, <1>7, <1>8, <1>10, <1>11 DEF CliStep

LEMMA InitReports == Init => ReportState
BY DEF Init, ReportState, RequestState

LEMMA StepReports == IntakeInv /\ CliTypes /\ ReportState /\ [Next]_vars => ReportState'
<1> SUFFICES ASSUME IntakeInv, CliTypes, ReportState, [Next]_vars PROVE ReportState'
  OBVIOUS
<1>1. CASE CliStep \/ PollBreaks
  BY <1>1, CliStepReports
<1>2. CASE DeadlinePasses
  BY <1>2 DEF DeadlinePasses, ReportState, RequestState, ItsOwnJob, Finished, serverVars, jobs
<1>3. CASE (Others \/ ServerStep \/ Environment) /\ UNCHANGED clientVars
  BY <1>3, OthersAsk, ServerGoesOn, EnvironmentGoesOn, ServerKeepsReport DEF Others
<1>4. CASE UNCHANGED vars
  BY <1>4 DEF vars, clientVars, ReportState, RequestState, ItsOwnJob, Finished, serverVars, jobs
<1> QED
  BY <1>1, <1>2, <1>3, <1>4 DEF Next

\* What the command line tells its user when it ends is true and stays true,
\* whatever was lost, failed or started again meanwhile: exit code 0 or 3 is the
\* outcome of a job made from all its files, and 2 means that --max-wait passed.
\* It is what RunEnds says, but for the end itself.
THEOREM ReportsAreTrue == Spec => []ReportIsTrue
<1>1. IntakeInv /\ ReportState => ReportIsTrue
  <2> SUFFICES ASSUME IntakeInv, ReportState PROVE ReportIsTrue
    OBVIOUS
  <2>1. ASSUME ItsOwnJob, Finished(cli.id) PROVE input[cli.id] = cli.got /\ Len(cli.got) = Files
    <3>1. Registered(cli.id) /\ JobState(cli.id)
      BY <2>1 DEF Registered, Finished, ItsOwnJob, IntakeInv, Lifecycle!Statuses
    <3>2. creation[cli.id].names = cli.got
      BY <2>1 DEF ItsOwnJob
    <3> QED
      BY <2>1, <3>1, <3>2 DEF JobState, ItsOwnJob
  <2> QED
    BY <2>1 DEF ReportState, ReportIsTrue
<1> QED
  BY <1>1, InitReports, StepReports, IntakeInvariant, PTL DEF Spec
=============================================================================
