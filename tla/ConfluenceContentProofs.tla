----------------------- MODULE ConfluenceContentProofs ----------------------
(***************************************************************************)
(* What is proved of the operations on Confluence content: what a write    *)
(* or a batch of uploads tells is so, what a walk over the members of a    *)
(* group or the pages of a space can repeat or hide, and that a diff tells *)
(* the two texts apart, for any number of users, pages, files, lines and   *)
(* changes by others.                                                      *)
(***************************************************************************)
EXTENDS ConfluenceContent, SelectionProofs

-----------------------------------------------------------------------------
(* The writes and uploads of Confluence content.                           *)

\* Where a call is, by the operation it asks for.
OnCourse ==
  /\ \/ pc \in {call.op, "done"}
     \/ pc = "labels" /\ call.op = "label"
     \/ pc = "fallback" /\ call.op = "search"
     \/ pc = "read_views" /\ call.op = "views"
  /\ pc # "done" => outcome = Pending
  /\ call.op \in {"users", "tree", "search", "diff", "upload", "label", "comment", "reply",
                  "delete_page", "delete_attachment", "views"}

\* What a write did so far, and what is told of it.
Written ==
  /\ comments \in {0, 1} /\ (comments = 1 => pc = "done")
  /\ pc = "labels" => "label" \in sent /\ (touched = {} => label)
  /\ pc = "done" /\ outcome.status = "ok" =>
       /\ call.op \in {"label", "comment", "reply", "delete_page", "delete_attachment"}
            => call.op \in sent
       /\ call.op = "label" /\ touched = {} => label /\ outcome.labelled
       /\ call.op \in {"delete_page", "delete_attachment"} => ~object

WriteInv == OnCourse /\ Written

LEMMA WriteStarts == Init => WriteInv
<1> SUFFICES ASSUME Init PROVE WriteInv OBVIOUS
<1>1. call.op \in {"users", "tree", "search", "diff", "upload", "label", "comment", "reply",
                   "delete_page", "delete_attachment", "views"}
  BY DEF Init, Walks, Searches, Diffs, Uploads, Writes, Views
<1>2. pc = call.op /\ comments = 0 /\ outcome = Pending BY DEF Init
<1> QED BY <1>1, <1>2 DEF WriteInv, OnCourse, Written

\* A step of a call that only reads.
LEMMA ReadingStep ==
  ASSUME WriteInv, UNCHANGED <<server, history, call, sent>>,
         pc \in {"users", "tree", "search", "fallback", "diff", "views", "read_views", "labels"},
         \/ pc' = "done"
         \/ pc' = pc /\ outcome' = outcome
         \/ pc' = "fallback" /\ call.op = "search" /\ outcome' = outcome
         \/ pc' = "read_views" /\ call.op = "views" /\ outcome' = outcome,
         pc' = "done" /\ pc = "labels" /\ outcome'.status = "ok" =>
           outcome' = [status |-> "ok", labelled |-> label]
  PROVE  WriteInv'
<1>1. UNCHANGED <<comments, label, object, touched, call, sent>> BY DEF server, history
<1>2. OnCourse' BY <1>1 DEF WriteInv, OnCourse
<1>3. Written'
  <2>1. pc' = "done" /\ outcome'.status = "ok" =>
          /\ call.op \notin {"comment", "reply", "delete_page", "delete_attachment"}
          /\ call.op = "label" => "label" \in sent /\ (touched = {} => label /\ outcome'.labelled)
    BY DEF WriteInv, OnCourse, Written
  <2> QED BY <1>1, <2>1 DEF WriteInv, OnCourse, Written
<1> QED BY <1>2, <1>3 DEF WriteInv

LEMMA WriteStep ==
  ASSUME WriteInv, [Next]_vars
  PROVE  WriteInv'
<1>1. CASE WalkUsers \/ WalkTree \/ SearchAnswers \/ Diff \/ ReadLabels \/ ReadFails
  <2>1. UNCHANGED <<server, history, call, sent>>
    BY <1>1 DEF WalkUsers, WalkTree, SearchAnswers, Diff, ReadLabels, ReadFails, work
  <2>2. \/ pc' = "done"
        \/ pc' = pc /\ outcome' = outcome
    BY <1>1 DEF WalkUsers, WalkTree, SearchAnswers, Diff, ReadLabels, ReadFails, Answer
  <2>3. pc \in {"users", "tree", "search", "fallback", "diff", "views", "labels"}
    BY <1>1 DEF WalkUsers, WalkTree, SearchAnswers, Diff, ReadLabels, ReadFails
  <2>4. ASSUME pc = "labels", outcome'.status = "ok"
        PROVE  outcome' = [status |-> "ok", labelled |-> label]
    BY <1>1, <2>4 DEF WalkUsers, WalkTree, SearchAnswers, Diff, ReadLabels, ReadFails,
       Answer, Error
  <2> QED BY <2>1, <2>2, <2>3, <2>4, ReadingStep
<1>2. CASE SearchFails
  <2>1. /\ UNCHANGED <<server, history, call, sent>> /\ pc \in {"search", "fallback"}
        /\ pc' = "done" \/ (pc' = "fallback" /\ pc = "search" /\ outcome' = outcome)
    BY <1>2 DEF SearchFails, Answer, work
  <2>2. pc = "search" => call.op = "search" BY DEF WriteInv, OnCourse
  <2> QED BY <2>1, <2>2, ReadingStep
<1>3. CASE ReadTitle \/ ReadViews
  <2>1. /\ UNCHANGED <<server, history, call, sent>> /\ pc \in {"views", "read_views"}
        /\ pc' = "done" \/ (pc' = "read_views" /\ pc = "views" /\ outcome' = outcome)
    BY <1>3 DEF ReadTitle, ReadViews, Answer, work
  <2>2. pc = "views" => call.op = "views" BY DEF WriteInv, OnCourse
  <2> QED BY <2>1, <2>2, ReadingStep
<1>4. CASE SingleWrite
  <2>1. /\ pc \in {"comment", "reply", "delete_page", "delete_attachment"} /\ pc = call.op
        /\ call' = call /\ pc' = "done" /\ comments = 0
    BY <1>4 DEF SingleWrite, Refused, Answer, WriteInv, OnCourse, Written
  <2>2. CASE Refused(Business)
    <3>1. outcome'.status # "ok" /\ UNCHANGED comments
      BY <2>2 DEF Refused, Answer, Business, server
    <3> QED BY <2>1, <3>1 DEF WriteInv, OnCourse, Written
  <2>3. CASE CarryOut
    <3>1. /\ sent' = sent \cup {call.op}
          /\ comments' \in {0, 1}
          /\ call.op \in {"delete_page", "delete_attachment"} => ~object'
      BY <2>1, <2>3 DEF CarryOut
    <3> QED BY <2>1, <3>1 DEF WriteInv, OnCourse, Written
  <2> QED BY <1>4, <2>2, <2>3 DEF SingleWrite
<1>5. CASE AddLabel
  <2>1. /\ pc = "label" /\ call.op = "label" /\ call' = call /\ comments = 0
        /\ touched' = touched /\ outcome.status # "ok" /\ outcome = Pending
    BY <1>5 DEF AddLabel, history, WriteInv, OnCourse, Written, Pending
  <2>2. CASE Refused(Error("upstream"))
    <3>1. pc' = "done" /\ outcome'.status # "ok" /\ UNCHANGED comments
      BY <2>2 DEF Refused, Answer, Error, server
    <3> QED BY <2>1, <3>1 DEF WriteInv, OnCourse, Written
  <2>3. CASE CarryOut /\ Answer(Error("upstream"))
    <3>1. pc' = "done" /\ outcome'.status # "ok" /\ comments' = comments
      BY <2>1, <2>3 DEF CarryOut, Answer, Error
    <3> QED BY <2>1, <3>1 DEF WriteInv, OnCourse, Written
  <2>4. CASE CarryOut /\ pc' = "labels" /\ UNCHANGED outcome
    <3>1. sent' = sent \cup {"label"} /\ label' = TRUE /\ comments' = comments
      BY <2>1, <2>4 DEF CarryOut
    <3> QED BY <2>1, <2>4, <3>1 DEF WriteInv, OnCourse, Written
  <2> QED BY <1>5, <2>2, <2>3, <2>4 DEF AddLabel
<1>6. CASE Upload
  <2>1. /\ pc = "upload" /\ call.op = "upload" /\ call' = call /\ UNCHANGED comments
        /\ pc' = "done" \/ (pc' = pc /\ outcome' = outcome)
    BY <1>6 DEF Upload, Tried, Answer, WriteInv, OnCourse
  <2> QED BY <2>1 DEF WriteInv, OnCourse, Written
<1>7. CASE Others
  <2>1. /\ UNCHANGED <<call, pc, outcome, sent, comments>> /\ pc # "done"
        /\ touched \subseteq touched'
        /\ touched' = {} => label' = label
    BY <1>7 DEF Others, SomethingAdded, SomethingRemoved, OthersWrite, Change, work
  <2> QED BY <2>1 DEF WriteInv, OnCourse, Written
<1>8. CASE UNCHANGED vars
  BY <1>8 DEF vars, server, history, work, WriteInv, OnCourse, Written
<1> QED BY <1>1, <1>2, <1>3, <1>4, <1>5, <1>6, <1>7, <1>8 DEF Next, Answered

LEMMA WriteSafe == ASSUME WriteInv PROVE WritesTold
BY DEF WriteInv, OnCourse, Written, WritesTold, Writes

\* add_content_label, add_page_comment, reply_to_comment, delete_page and
\* delete_attachment: a write that is told as done was carried out, once, and holds
\* unless others undid it, for any users, content and number of changes.
THEOREM WritesTrue == Spec => []WritesTold
<1> QED BY WriteStarts, WriteStep, WriteSafe, PTL DEF Spec

\* A batch up to its n-th file: each was tried once, in order, and what was sent is told.
TriedUpTo(n) ==
  /\ uploaded \in Seq(Nat) /\ notUploaded \in Seq(Nat) /\ n = Len(uploaded) + Len(notUploaded)
  /\ Range(uploaded) \cup Range(notUploaded) = 1..n
  /\ \A i, j \in DOMAIN uploaded : i < j => uploaded[i] < uploaded[j]
  /\ \A i, j \in DOMAIN notUploaded : i < j => notUploaded[i] < notUploaded[j]
  /\ Range(uploaded) \subseteq sent

\* While every file was carried out, the server holds the last one of each name, unless
\* others changed it.
LastOfName(n) ==
  notUploaded = <<>> =>
    \A k \in 1..n :
      \/ NameOf[call.files[k]] \in touched
      \/ stored[NameOf[call.files[k]]] = call.files[k]
      \/ \E later \in k + 1..n : NameOf[call.files[later]] = NameOf[call.files[k]]

UploadInv ==
  call.op = "upload" =>
    /\ call.files \in Seq(Files) /\ call.files # <<>>
    /\ DOMAIN stored = Names
    /\ pc \in {"upload", "done"}
    /\ \E n \in 0..Len(call.files) :
         /\ pc = "upload" => n < Len(call.files) /\ outcome = Pending
         /\ pc = "done" => n = Len(call.files) /\ outcome = BatchAnswer(uploaded, notUploaded)
         /\ TriedUpTo(n) /\ LastOfName(n)

LEMMA UploadStarts == Init => UploadInv
<1> SUFFICES ASSUME Init, call.op = "upload"
             PROVE  UploadInv
  BY DEF UploadInv
<1>1. call \in Uploads BY DEF Init, Walks, Searches, Diffs, Writes, Views
<1>2. call.files \in Seq(Files) /\ call.files # <<>> BY <1>1, SetsAssumption DEF Uploads
<1>3. DOMAIN stored = Names /\ pc = "upload" /\ outcome = Pending BY DEF Init
<1>4. uploaded = <<>> /\ notUploaded = <<>> BY DEF Init
<1>5. TriedUpTo(0)
  <2>1. Range(<<>>) = {} BY DEF Range
  <2> QED BY <1>4, <2>1 DEF TriedUpTo
<1>6. LastOfName(0) BY DEF LastOfName
<1>7. Len(call.files) \in Nat /\ 0 < Len(call.files) BY <1>2
<1> QED BY <1>2, <1>3, <1>5, <1>6, <1>7 DEF UploadInv

\* A list that grows by an index behind all of its own.
LEMMA InOrderAppend ==
  ASSUME NEW s \in Seq(Nat), NEW n \in Nat, Range(s) \subseteq 1..n,
         \A i, j \in DOMAIN s : i < j => s[i] < s[j]
  PROVE  /\ Append(s, n + 1) \in Seq(Nat) /\ Len(Append(s, n + 1)) = Len(s) + 1
         /\ Range(Append(s, n + 1)) = Range(s) \cup {n + 1}
         /\ \A i, j \in DOMAIN Append(s, n + 1) :
              i < j => Append(s, n + 1)[i] < Append(s, n + 1)[j]
<1> DEFINE t == Append(s, n + 1)
<1>1. /\ t \in Seq(Nat) /\ Len(t) = Len(s) + 1 /\ t[Len(s) + 1] = n + 1
      /\ \A i \in 1..Len(s) : t[i] = s[i]
      /\ Len(s) \in Nat /\ DOMAIN s = 1..Len(s) /\ DOMAIN t = 1..(Len(s) + 1)
  OBVIOUS
<1> HIDE DEF t
<1>2. \A i \in 1..Len(s) : s[i] \in 1..n BY <1>1 DEF Range
<1>3. Range(t) = Range(s) \cup {n + 1} BY <1>1 DEF Range
<1>4. ASSUME NEW i \in 1..(Len(s) + 1), NEW j \in 1..(Len(s) + 1), i < j
      PROVE  t[i] < t[j]
  <2>1. i \in 1..Len(s) /\ t[i] = s[i] BY <1>1, <1>4
  <2>2. CASE j \in 1..Len(s) BY <1>1, <2>1, <2>2, <1>4
  <2>3. CASE j = Len(s) + 1
    <3>1. t[j] = n + 1 /\ s[i] \in 1..n BY <1>1, <1>2, <2>1, <2>3
    <3> QED BY <2>1, <3>1
  <2> QED BY <1>1, <2>2, <2>3
<1> QED BY <1>1, <1>3, <1>4 DEF t

LEMMA UploadStep ==
  ASSUME UploadInv, [Next]_vars
  PROVE  UploadInv'
<1> SUFFICES ASSUME call'.op = "upload" PROVE UploadInv' BY DEF UploadInv
<1>1. call' = call
  BY DEF Next, Answered, WalkUsers, WalkTree, SearchAnswers, SearchFails, Diff, ReadTitle,
         ReadViews, SingleWrite, AddLabel, ReadLabels, Upload, ReadFails, Others,
         SomethingAdded, SomethingRemoved, OthersWrite, vars
<1>2. /\ call.files \in Seq(Files) /\ call.files # <<>>
      /\ DOMAIN stored = Names /\ pc \in {"upload", "done"}
  BY <1>1 DEF UploadInv
<1>3. PICK n \in 0..Len(call.files) :
        /\ pc = "upload" => n < Len(call.files) /\ outcome = Pending
        /\ pc = "done" => n = Len(call.files) /\ outcome = BatchAnswer(uploaded, notUploaded)
        /\ TriedUpTo(n) /\ LastOfName(n)
  BY <1>1 DEF UploadInv
<1>4. ASSUME UNCHANGED <<pc, outcome, uploaded, notUploaded, sent>>, touched \subseteq touched',
             DOMAIN stored' = Names,
             \A m \in Names : stored'[m] = stored[m] \/ m \in touched'
      PROVE  UploadInv'
  <2>1. TriedUpTo(n)' BY <1>3, <1>4 DEF TriedUpTo
  <2>2. LastOfName(n)'
    <3> SUFFICES ASSUME notUploaded = <<>>, NEW k \in 1..n
                 PROVE  \/ NameOf[call.files[k]] \in touched'
                        \/ stored'[NameOf[call.files[k]]] = call.files[k]
                        \/ \E later \in k + 1..n : NameOf[call.files[later]] = NameOf[call.files[k]]
      BY <1>1, <1>4 DEF LastOfName
    <3>1. NameOf[call.files[k]] \in Names
      <4>1. k \in 1..Len(call.files) BY <1>3
      <4>2. call.files[k] \in Files BY <1>2, <4>1, ElementOfSeq
      <4> QED BY <4>2, SetsAssumption DEF Names, Range
    <3> QED BY <1>3, <1>4, <3>1 DEF LastOfName
  <2>3. n \in 0..Len(call'.files) BY <1>1, <1>3
  <2> QED BY <1>1, <1>2, <1>3, <1>4, <2>1, <2>2, <2>3 DEF UploadInv, BatchAnswer
<1>5. CASE Upload
  <2>1. pc = "upload" BY <1>5 DEF Upload
  <2>2. /\ n \in Nat /\ Index = n + 1 /\ n + 1 \in 1..Len(call.files) /\ Len(call.files) \in Nat
        /\ uploaded \in Seq(Nat) /\ notUploaded \in Seq(Nat) /\ n = Len(uploaded) + Len(notUploaded)
        /\ Range(uploaded) \subseteq 1..n /\ Range(notUploaded) \subseteq 1..n
    <3>1. /\ uploaded \in Seq(Nat) /\ notUploaded \in Seq(Nat)
          /\ n = Len(uploaded) + Len(notUploaded)
          /\ Range(uploaded) \cup Range(notUploaded) = 1..n
      BY <1>3 DEF TriedUpTo
    <3>2. n \in Nat /\ n + 1 \in 1..Len(call.files) /\ Len(call.files) \in Nat
      BY <1>2, <1>3, <2>1
    <3>3. Index = n + 1 BY <3>1 DEF Index
    <3> QED BY <3>1, <3>2, <3>3
  <2> DEFINE up == Append(uploaded, n + 1)
             fail == Append(notUploaded, n + 1)
             file == call.files[n + 1]
  <2>3. file \in Files /\ NameOf[file] \in Names
    <3>1. file \in Files BY <1>2, <2>2, ElementOfSeq
    <3> QED BY <3>1, SetsAssumption DEF Names, Range
  <2>4. /\ up \in Seq(Nat) /\ Len(up) = Len(uploaded) + 1
        /\ Range(up) = Range(uploaded) \cup {n + 1}
        /\ \A i, j \in DOMAIN up : i < j => up[i] < up[j]
    BY <1>3, <2>2, InOrderAppend DEF TriedUpTo
  <2>5. /\ fail \in Seq(Nat) /\ Len(fail) = Len(notUploaded) + 1 /\ fail # <<>>
        /\ Range(fail) = Range(notUploaded) \cup {n + 1}
        /\ \A i, j \in DOMAIN fail : i < j => fail[i] < fail[j]
    <3>1. /\ fail \in Seq(Nat) /\ Len(fail) = Len(notUploaded) + 1
          /\ Range(fail) = Range(notUploaded) \cup {n + 1}
          /\ \A i, j \in DOMAIN fail : i < j => fail[i] < fail[j]
      BY <1>3, <2>2, InOrderAppend DEF TriedUpTo
    <3>2. Len(notUploaded) \in Nat BY <2>2
    <3> HIDE DEF fail
    <3>3. fail # <<>> BY <3>1, <3>2
    <3> QED BY <3>1, <3>3
  <2> HIDE DEF up, fail, file
  <2>6. ASSUME NEW u \in {uploaded, up}, NEW f \in {notUploaded, fail}, Tried(u, f),
               Len(u) + Len(f) = n + 1, TriedUpTo(n + 1)', LastOfName(n + 1)',
               DOMAIN stored' = Names
        PROVE  UploadInv'
    <3>1. uploaded' = u /\ notUploaded' = f BY <2>6 DEF Tried
    <3>2. CASE n + 1 = Len(call.files)
      <4>1. pc' = "done" /\ outcome' = BatchAnswer(u, f) BY <2>6, <3>2 DEF Tried, Answer
      <4>2. BatchAnswer(uploaded, notUploaded)' = BatchAnswer(u, f) BY <3>1 DEF BatchAnswer
      <4>3. n + 1 \in 0..Len(call'.files) BY <1>1, <2>2
      <4> QED BY <1>1, <1>2, <2>6, <3>2, <4>1, <4>2, <4>3 DEF UploadInv
    <3>3. CASE n + 1 # Len(call.files)
      <4>1. pc' = "upload" /\ outcome' = Pending BY <1>3, <2>1, <2>6, <3>3 DEF Tried
      <4>2. n + 1 \in 0..Len(call'.files) /\ n + 1 < Len(call'.files) BY <1>1, <2>2, <3>3
      <4> QED BY <1>1, <1>2, <2>6, <4>1, <4>2 DEF UploadInv
    <3> QED BY <3>2, <3>3
  <2>7. touched' = touched BY <1>5 DEF Upload, history
  <2>8. Range(uploaded) \cup Range(notUploaded) \cup {n + 1} = 1..(n + 1)
    <3>1. Range(uploaded) \cup Range(notUploaded) = 1..n BY <1>3 DEF TriedUpTo
    <3>2. 1..n \cup {n + 1} = 1..(n + 1) BY <2>2
    <3> QED BY <3>1, <3>2
  <2>9. CASE Tried(uploaded, Append(notUploaded, Index)) /\ UNCHANGED <<stored, sent>>
    <3>1. Tried(uploaded, fail) /\ uploaded' = uploaded /\ notUploaded' = fail /\ sent' = sent
          /\ stored' = stored
      BY <2>2, <2>9 DEF fail, Tried
    <3>2. TriedUpTo(n + 1)'
      BY <1>3, <2>2, <2>5, <2>8, <3>1 DEF TriedUpTo
    <3>3. LastOfName(n + 1)' BY <2>5, <3>1 DEF LastOfName
    <3>4. Len(uploaded) + Len(fail) = n + 1 BY <2>2, <2>5
    <3> QED BY <1>2, <2>6, <3>1, <3>2, <3>3, <3>4
  <2>10. CASE Store /\ Tried(uploaded, Append(notUploaded, Index))
    <3>1. Tried(uploaded, fail) /\ uploaded' = uploaded /\ notUploaded' = fail
          /\ sent \subseteq sent'
      BY <2>2, <2>10 DEF fail, Tried, Store
    <3>2. TriedUpTo(n + 1)'
      BY <1>3, <2>2, <2>5, <2>8, <3>1 DEF TriedUpTo
    <3>3. LastOfName(n + 1)' BY <2>5, <3>1 DEF LastOfName
    <3>4. Len(uploaded) + Len(fail) = n + 1 BY <2>2, <2>5
    <3>5. DOMAIN stored' = Names BY <1>2, <2>10 DEF Store
    <3> QED BY <2>6, <3>1, <3>2, <3>3, <3>4, <3>5
  <2>11. CASE Store /\ Tried(Append(uploaded, Index), notUploaded)
    <3>1. Tried(up, notUploaded) /\ uploaded' = up /\ notUploaded' = notUploaded
          /\ sent' = sent \cup {n + 1}
          /\ stored' = [stored EXCEPT ![NameOf[file]] = file]
      BY <2>2, <2>11 DEF up, file, Tried, Store, File
    <3>2. TriedUpTo(n + 1)'
      BY <1>3, <2>2, <2>4, <2>8, <3>1 DEF TriedUpTo
    <3>3. LastOfName(n + 1)'
      <4> SUFFICES ASSUME notUploaded = <<>>, NEW k \in 1..(n + 1)
                   PROVE  \/ NameOf[call.files[k]] \in touched
                          \/ stored'[NameOf[call.files[k]]] = call.files[k]
                          \/ \E later \in k + 1..(n + 1) :
                               NameOf[call.files[later]] = NameOf[call.files[k]]
        BY <1>1, <2>7, <3>1 DEF LastOfName
      <4>1. stored'[NameOf[file]] = file BY <1>2, <2>3, <3>1
      <4>2. CASE k = n + 1 BY <4>1, <4>2 DEF file
      <4>3. CASE k \in 1..n /\ NameOf[call.files[k]] = NameOf[file]
        <5>1. n + 1 \in k + 1..(n + 1) BY <2>2, <4>3
        <5> QED BY <4>3, <5>1 DEF file
      <4>4. CASE k \in 1..n /\ NameOf[call.files[k]] # NameOf[file]
        <5>1. stored'[NameOf[call.files[k]]] = stored[NameOf[call.files[k]]]
          <6>1. k \in 1..Len(call.files) BY <2>2, <4>4
          <6>2. call.files[k] \in Files BY <1>2, <6>1, ElementOfSeq
          <6>3. NameOf[call.files[k]] \in Names BY <6>2, SetsAssumption DEF Names, Range
          <6> QED BY <1>2, <3>1, <4>4, <6>3
        <5>2. \/ NameOf[call.files[k]] \in touched
              \/ stored[NameOf[call.files[k]]] = call.files[k]
              \/ \E later \in k + 1..n : NameOf[call.files[later]] = NameOf[call.files[k]]
          BY <1>3, <4>4 DEF LastOfName
        <5>3. k + 1..n \subseteq k + 1..(n + 1) BY <2>2, <4>4
        <5> QED BY <5>1, <5>2, <5>3
      <4>5. k = n + 1 \/ k \in 1..n BY <2>2
      <4> QED BY <4>2, <4>3, <4>4, <4>5
    <3>4. Len(up) + Len(notUploaded) = n + 1 BY <2>2, <2>4
    <3>5. DOMAIN stored' = Names BY <1>2, <3>1
    <3> QED BY <2>6, <3>1, <3>2, <3>3, <3>4, <3>5
  <2> QED BY <1>5, <2>9, <2>10, <2>11 DEF Upload
<1>6. CASE Others
  <2>1. UNCHANGED <<pc, outcome, uploaded, notUploaded, sent>> /\ touched \subseteq touched'
    BY <1>6 DEF Others, SomethingAdded, SomethingRemoved, OthersWrite, work
  <2>2. /\ DOMAIN stored' = Names
        /\ \A m \in Names : stored'[m] = stored[m] \/ m \in touched'
    <3>1. CASE SomethingAdded \/ SomethingRemoved
      BY <1>2, <3>1 DEF SomethingAdded, SomethingRemoved
    <3>2. CASE OthersWrite
      <4>1. PICK m \in Names, f \in {"none", "others"} :
              stored' = [stored EXCEPT ![m] = f] /\ touched' = touched \cup {m}
        BY <1>1, <3>2 DEF OthersWrite
      <4> QED BY <1>2, <4>1
    <3> QED BY <1>6, <3>1, <3>2 DEF Others
  <2> QED BY <1>4, <2>1, <2>2
<1>7. CASE UNCHANGED vars
  BY <1>2, <1>4, <1>7 DEF vars, server, history, work
<1>8. ~(WalkUsers \/ WalkTree \/ SearchAnswers \/ SearchFails \/ Diff \/ ReadTitle \/ ReadViews
        \/ SingleWrite \/ AddLabel \/ ReadLabels \/ ReadFails)
  BY <1>2 DEF WalkUsers, WalkTree, SearchAnswers, SearchFails, Diff, ReadTitle, ReadViews,
              SingleWrite, AddLabel, ReadLabels, ReadFails
<1> QED BY <1>5, <1>6, <1>7, <1>8 DEF Next, Answered

LEMMA UploadSafe == ASSUME UploadInv PROVE UploadsTold
<1> SUFFICES ASSUME Done("upload") PROVE UploadsTold BY DEF UploadsTold
<1>1. /\ TriedUpTo(Len(call.files)) /\ LastOfName(Len(call.files))
      /\ outcome = BatchAnswer(uploaded, notUploaded)
  BY DEF UploadInv, Done
<1>2. outcome.success => notUploaded = <<>> BY <1>1 DEF BatchAnswer
<1> QED BY <1>1, <1>2 DEF UploadsTold, TriedUpTo, LastOfName

\* upload_content_attachments, for every batch: each file is told once and in order, and
\* a success means that the server holds the last file of each name, unless others
\* changed it.
THEOREM UploadsTrue == Spec => []UploadsTold
<1> QED BY UploadStarts, UploadStep, UploadSafe, PTL DEF Spec

-----------------------------------------------------------------------------
(* The walks over members and pages.                                       *)

\* The function by which InTreeOrder is defined, up to the page k.
OrderSteps(F, got, k) ==
  F = [i \in 0..k |-> IF i = 0 THEN <<>> ELSE Placed(F[i - 1], got[i])]

LEMMA OrderStepsExist ==
  ASSUME NEW got
  PROVE  \A k \in Nat : \E F : OrderSteps(F, got, k)
<1> DEFINE T == {k \in Nat : \E F : OrderSteps(F, got, k)}
<1>1. 0 \in T
  <2>1. OrderSteps([i \in 0..0 |-> <<>>], got, 0) BY DEF OrderSteps
  <2> QED BY <2>1
<1>2. ASSUME NEW k \in Nat, k \in T PROVE k + 1 \in T
  <2>1. PICK F : OrderSteps(F, got, k) BY <1>2
  <2> DEFINE G == [i \in 0..(k + 1) |-> IF i = k + 1 THEN Placed(F[k], got[i]) ELSE F[i]]
  <2>2. ASSUME NEW i \in 0..k
        PROVE  F[i] = IF i = 0 THEN <<>> ELSE Placed(F[i - 1], got[i])
    <3> HIDE DEF G
    <3> QED BY <2>1, Zenon DEF OrderSteps
  <2>3. ASSUME NEW i \in 0..k PROVE G[i] = F[i] OBVIOUS
  <2>4. G[k + 1] = Placed(F[k], got[k + 1]) OBVIOUS
  <2>5. DOMAIN G = 0..(k + 1) /\ G = [i \in 0..(k + 1) |-> G[i]] OBVIOUS
  <2> HIDE DEF G
  <2>6. ASSUME NEW i \in 0..(k + 1)
        PROVE  G[i] = IF i = 0 THEN <<>> ELSE Placed(G[i - 1], got[i])
    <3>1. CASE i \in 0..k
      <4>1. i = 0 \/ i - 1 \in 0..k BY <3>1
      <4>2. i = 0 \/ G[i - 1] = F[i - 1] BY <4>1, <2>3
      <4> QED BY <4>2, <3>1, <2>2, <2>3
    <3>2. CASE i = k + 1
      <4>1. i - 1 = k /\ i # 0 /\ k \in 0..k BY <3>2
      <4> QED BY <4>1, <3>2, <2>3, <2>4
    <3> QED BY <3>1, <3>2
  <2>7. OrderSteps(G, got, k + 1) BY <2>5, <2>6 DEF OrderSteps
  <2> QED BY <2>7
<1>3. \A k \in Nat : k \in T
  <2> HIDE DEF T
  <2> QED BY <1>1, <1>2, Inductive
<1> QED BY <1>3

\* A page is put in its place, and nothing else happens to the others.
LEMMA PlacedFacts ==
  ASSUME NEW s \in Seq(SpacePages), NEW p \in SpacePages
  PROVE  /\ Placed(s, p) \in Seq(SpacePages) /\ Len(Placed(s, p)) = Len(s) + 1
         /\ Range(Placed(s, p)) = Range(s) \cup {p}
<1> DEFINE S == NotAfter(p)
           a == Select(s, S)
           b == Select(s, SpacePages \ S)
<1>1. SelectionOf(SpacePages, S, s, a) /\ SelectionOf(SpacePages, SpacePages \ S, s, b)
  BY SelectFacts
<1>2. a \in Seq(SpacePages) /\ b \in Seq(SpacePages) BY <1>1 DEF SelectionOf
<1>3. Len(a) + Len(b) = Len(s) BY SelectSplit
<1>4. Placed(s, p) = a \o <<p>> \o b BY DEF Placed
<1>5. \A i \in 1..Len(s) : s[i] \in SpacePages BY ElementOfSeq
<1>6. Range(a) \cup Range(b) = Range(s)
  <2>1. /\ Range(a) = {a[i] : i \in 1..Len(a)} /\ Range(b) = {b[i] : i \in 1..Len(b)}
        /\ Range(s) = {s[i] : i \in 1..Len(s)}
    BY <1>2, RangeEquality
  <2>2. /\ \A j \in 1..Len(a) : \E i \in 1..Len(s) : s[i] = a[j]
        /\ \A j \in 1..Len(b) : \E i \in 1..Len(s) : s[i] = b[j]
        /\ \A i \in 1..Len(s) : s[i] \in S => \E j \in 1..Len(a) : a[j] = s[i]
        /\ \A i \in 1..Len(s) : s[i] \in SpacePages \ S => \E j \in 1..Len(b) : b[j] = s[i]
    BY <1>1 DEF SelectionOf
  <2> HIDE DEF a, b, S
  <2>3. ASSUME NEW x \in Range(a) \cup Range(b) PROVE x \in Range(s) BY <2>1, <2>2
  <2>4. ASSUME NEW x \in Range(s) PROVE x \in Range(a) \cup Range(b)
    <3>1. PICK i \in 1..Len(s) : x = s[i] BY <2>1
    <3>2. s[i] \in S \/ s[i] \in SpacePages \ S BY <1>5
    <3> QED BY <2>1, <2>2, <3>1, <3>2
  <2> QED BY <2>3, <2>4
<1> DEFINE c == <<p>>
           d == a \o c
<1>7. c \in Seq(SpacePages) /\ Len(c) = 1 /\ c[1] = p OBVIOUS
<1>8. Placed(s, p) = d \o b BY <1>4
<1> HIDE DEF a, b, S, c
<1>9. Range(c) = {p}
  <2>1. Range(c) = {c[i] : i \in 1..Len(c)} BY <1>7, RangeEquality
  <2> QED BY <1>7, <2>1
<1>10. d \in Seq(SpacePages) /\ Len(d) = Len(a) + 1
  <2>1. d \in Seq(SpacePages) /\ Len(d) = Len(a) + Len(c)
    BY <1>2, <1>7, ConcatProperties, Zenon
  <2> HIDE DEF d
  <2> QED BY <1>7, <2>1
<1>11. Range(d) = Range(a) \cup Range(c) BY <1>2, <1>7, RangeConcatenation, Zenon
<1> HIDE DEF d
<1>12. Range(d \o b) = Range(d) \cup Range(b) BY <1>2, <1>10, RangeConcatenation, Zenon
<1>13. d \o b \in Seq(SpacePages) /\ Len(d \o b) = Len(s) + 1
  BY <1>2, <1>3, <1>10
<1> QED BY <1>6, <1>8, <1>9, <1>11, <1>12, <1>13, Zenon

\* The answer holds the pages that were got, each as often.
LEMMA OrderFacts ==
  ASSUME NEW got \in Seq(SpacePages)
  PROVE  /\ InTreeOrder(got) \in Seq(SpacePages) /\ Len(InTreeOrder(got)) = Len(got)
         /\ Range(InTreeOrder(got)) = Range(got)
<1> DEFINE n == Len(got)
           F == CHOOSE F : OrderSteps(F, got, n)
<1>1. n \in Nat OBVIOUS
<1>2. InTreeOrder(got) = F[n] BY DEF InTreeOrder, OrderSteps
<1>3. OrderSteps(F, got, n)
  <2>1. \E G : OrderSteps(G, got, n) BY <1>1, OrderStepsExist
  <2> QED BY <2>1
<1>4. Range(got) = {got[i] : i \in 1..n} BY RangeEquality
<1>5. \A i \in 1..n : got[i] \in SpacePages BY ElementOfSeq
<1> HIDE DEF F, n
<1>6. F[0] = <<>>
  <2>1. 0 \in 0..n BY <1>1
  <2> QED BY <2>1, <1>3 DEF OrderSteps
<1>7. ASSUME NEW i \in 1..n PROVE F[i] = Placed(F[i - 1], got[i])
  <2>1. i \in 0..n /\ i # 0 BY <1>1
  <2> QED BY <2>1, <1>3, Zenon DEF OrderSteps
<1> DEFINE T == {k \in Nat : k <= n =>
                   /\ F[k] \in Seq(SpacePages) /\ Len(F[k]) = k
                   /\ Range(F[k]) = {got[i] : i \in 1..k}}
<1>8. 0 \in T
  <2> DEFINE e == <<>>
  <2>1. e \in Seq(SpacePages) /\ Len(e) = 0 OBVIOUS
  <2>2. Range(e) = {e[i] : i \in 1..Len(e)} BY <2>1, RangeEquality
  <2> HIDE DEF e
  <2>3. Range(e) = {got[i] : i \in 1..0} BY <2>1, <2>2
  <2> QED BY <1>6, <2>1, <2>3 DEF e
<1>9. ASSUME NEW k \in Nat, k \in T PROVE k + 1 \in T
  <2> SUFFICES ASSUME k + 1 <= n
               PROVE  /\ F[k + 1] \in Seq(SpacePages) /\ Len(F[k + 1]) = k + 1
                      /\ Range(F[k + 1]) = {got[i] : i \in 1..(k + 1)}
    OBVIOUS
  <2>1. k + 1 \in 1..n /\ (k + 1) - 1 = k BY <1>1
  <2>2. F[k + 1] = Placed(F[k], got[k + 1]) /\ got[k + 1] \in SpacePages BY <1>5, <1>7, <2>1
  <2>3. /\ F[k] \in Seq(SpacePages) /\ Len(F[k]) = k
        /\ Range(F[k]) = {got[i] : i \in 1..k}
    BY <1>1, <1>9
  <2>4. {got[i] : i \in 1..k} \cup {got[k + 1]} = {got[i] : i \in 1..(k + 1)} BY <2>1
  <2> QED BY <2>2, <2>3, <2>4, PlacedFacts
<1>10. \A k \in Nat : k \in T
  <2> HIDE DEF T
  <2> QED BY <1>8, <1>9, Inductive
<1>11. F[n] \in Seq(SpacePages) /\ Len(F[n]) = n /\ Range(F[n]) = {got[i] : i \in 1..n}
  <2>1. n \in T
    <3> HIDE DEF T
    <3> QED BY <1>1, <1>10
  <2> QED BY <1>1, <2>1
<1> QED BY <1>2, <1>4, <1>11 DEF n

\* The entries a walk that is n entries on has behind it, and those it has ahead of it.
Behind(D, s, n) == {x \in D : \E i \in 1..Len(s) : i <= n /\ s[i] = x}
Ahead(D, s, n) == {x \in D : \E i \in 1..Len(s) : i > n /\ s[i] = x}

\* A walk under way over s, which was first when it began.  If nothing shifted, it got
\* what is sought among the entries behind it.  An entry it got twice is one that others
\* moved ahead of it, and an entry it neither got nor has ahead was moved by others too.
OnTheWay(D, first, s, K, n, g, ins, rem) ==
  /\ s \in Seq(D) /\ \A i, j \in 1..Len(s) : s[i] = s[j] => i = j
  /\ first \in Seq(D) /\ g \in Seq(D)
  /\ n \in Nat /\ ins \in Nat /\ rem \in Nat
  /\ ins + rem = 0 => n <= Len(s) /\ g = Select(SubSeq(s, 1, n), K)
  /\ Len(g) <= Cardinality(Range(g) \cap Behind(D, s, n)) + ins + rem
  /\ Cardinality((Range(first) \cap K) \ (Range(g) \cup Ahead(D, s, n))) <= rem

LEMMA WalkBegins ==
  ASSUME NEW D, NEW K, NEW s \in Seq(D), \A i, j \in 1..Len(s) : s[i] = s[j] => i = j
  PROVE  OnTheWay(D, s, s, K, 0, <<>>, 0, 0)
<1> DEFINE e == <<>>
<1>1. e \in Seq(D) /\ Len(e) = 0 OBVIOUS
<1>3. SubSeq(s, 1, 0) = e BY SubSeqEmpty
<1>4. Select(e, K) = e BY SelectNone
<1> HIDE DEF e
<1>2. Range(e) = {}
  <2>1. Range(e) = {e[i] : i \in 1..Len(e)} BY <1>1, RangeFinite
  <2> QED BY <1>1, <2>1
<1>5. Cardinality({}) = 0 BY FS_EmptySet
<1>6. Range(s) \subseteq Ahead(D, s, 0)
  <2>1. Range(s) = {s[i] : i \in 1..Len(s)} BY RangeFinite
  <2>2. \A i \in 1..Len(s) : s[i] \in D /\ i > 0 BY ElementOfSeq
  <2> QED BY <2>1, <2>2 DEF Ahead
<1>7. (Range(s) \cap K) \ (Range(e) \cup Ahead(D, s, 0)) = {} BY <1>6
<1>8. Range(e) \cap Behind(D, s, 0) = {} BY <1>2
<1>9. 0 <= Len(s) /\ Len(s) \in Nat OBVIOUS
<1>10. OnTheWay(D, s, s, K, 0, e, 0, 0)
  <2>1. 0 <= Len(s) /\ e = Select(SubSeq(s, 1, 0), K) BY <1>3, <1>4, <1>9
  <2>2. Len(e) <= Cardinality(Range(e) \cap Behind(D, s, 0)) + 0 + 0
    <3>1. Cardinality(Range(e) \cap Behind(D, s, 0)) = 0 BY <1>5, <1>8, Zenon
    <3> QED BY <1>1, <3>1
  <2>3. Cardinality((Range(s) \cap K) \ (Range(e) \cup Ahead(D, s, 0))) <= 0
    <3>1. Cardinality((Range(s) \cap K) \ (Range(e) \cup Ahead(D, s, 0))) = 0
      BY <1>5, <1>7, Zenon
    <3> QED BY <3>1
  <2> QED BY <1>1, <2>1, <2>2, <2>3 DEF OnTheWay
<1> QED BY <1>10 DEF e

\* What a change by others takes from the entries behind and ahead.
LEMMA ChangeCounts ==
  ASSUME NEW D, NEW first, NEW s, NEW K, NEW n, NEW g, NEW ins, NEW rem,
         OnTheWay(D, first, s, K, n, g, ins, rem),
         NEW t \in Seq(D), \A i, j \in 1..Len(t) : t[i] = t[j] => i = j,
         NEW y, NEW z
  PROVE  /\ Behind(D, s, n) \subseteq Behind(D, t, n) \cup {y} =>
              Len(g) <= Cardinality(Range(g) \cap Behind(D, t, n)) + ins + rem + 1
         /\ Behind(D, s, n) \subseteq Behind(D, t, n) =>
              Len(g) <= Cardinality(Range(g) \cap Behind(D, t, n)) + ins + rem
         /\ Ahead(D, s, n) \subseteq Ahead(D, t, n) \cup {z} =>
              Cardinality((Range(first) \cap K) \ (Range(g) \cup Ahead(D, t, n))) <= rem + 1
         /\ Ahead(D, s, n) \subseteq Ahead(D, t, n) =>
              Cardinality((Range(first) \cap K) \ (Range(g) \cup Ahead(D, t, n))) <= rem
<1> DEFINE b(u) == Range(g) \cap Behind(D, u, n)
           a(u) == (Range(first) \cap K) \ (Range(g) \cup Ahead(D, u, n))
<1>1. /\ first \in Seq(D) /\ g \in Seq(D) /\ ins \in Nat /\ rem \in Nat /\ Len(g) \in Nat
      /\ Len(g) <= Cardinality(b(s)) + ins + rem
      /\ Cardinality(a(s)) <= rem
  BY DEF OnTheWay
<1>2. IsFiniteSet(Range(g)) /\ IsFiniteSet(Range(first)) BY <1>1, RangeFinite
<1>3. \A u : IsFiniteSet(b(u)) /\ IsFiniteSet(a(u))
  <2>1. \A u : b(u) \subseteq Range(g) /\ a(u) \subseteq Range(first) OBVIOUS
  <2> HIDE DEF a, b
  <2> QED BY <1>2, <2>1, FS_Subset
<1>4. \A u : Cardinality(b(u)) \in Nat /\ Cardinality(a(u)) \in Nat
  <2> HIDE DEF a, b
  <2> QED BY <1>3, FS_CardinalityType
<1>5. ASSUME Behind(D, s, n) \subseteq Behind(D, t, n) \cup {y}
      PROVE  Len(g) <= Cardinality(b(t)) + ins + rem + 1
  <2>1. b(s) \subseteq b(t) \cup {y} BY <1>5
  <2> HIDE DEF a, b
  <2>2. Cardinality(b(s)) <= Cardinality(b(t)) + 1 BY <1>3, <2>1, OneLess
  <2> QED BY <1>1, <1>4, <2>2
<1>6. ASSUME Behind(D, s, n) \subseteq Behind(D, t, n)
      PROVE  Len(g) <= Cardinality(b(t)) + ins + rem
  <2>1. b(s) \subseteq b(t) BY <1>6
  <2> HIDE DEF a, b
  <2>2. Cardinality(b(s)) <= Cardinality(b(t)) BY <1>3, <2>1, FS_Subset
  <2> QED BY <1>1, <1>4, <2>2
<1>7. ASSUME Ahead(D, s, n) \subseteq Ahead(D, t, n) \cup {z}
      PROVE  Cardinality(a(t)) <= rem + 1
  <2>1. a(t) \subseteq a(s) \cup {z} BY <1>7
  <2> HIDE DEF a, b
  <2>2. Cardinality(a(t)) <= Cardinality(a(s)) + 1 BY <1>3, <2>1, OneLess
  <2> QED BY <1>1, <1>4, <2>2
<1>8. ASSUME Ahead(D, s, n) \subseteq Ahead(D, t, n)
      PROVE  Cardinality(a(t)) <= rem
  <2>1. a(t) \subseteq a(s) BY <1>8
  <2> HIDE DEF a, b
  <2>2. Cardinality(a(t)) <= Cardinality(a(s)) BY <1>3, <2>1, FS_Subset
  <2> QED BY <1>1, <1>4, <2>2
<1> QED BY <1>5, <1>6, <1>7, <1>8

LEMMA OneInserted ==
  ASSUME NEW D, NEW first, NEW s, NEW K, NEW n, NEW g, NEW ins, NEW rem,
         OnTheWay(D, first, s, K, n, g, ins, rem),
         NEW k \in 1..(Len(s) + 1), NEW e \in D \ Range(s)
  PROVE  OnTheWay(D, first, InsertAt(s, k, e), K, n, g,
                  IF k <= Len(s) THEN ins + 1 ELSE ins, rem)
<1> DEFINE t == InsertAt(s, k, e)
           more == IF k <= Len(s) THEN ins + 1 ELSE ins
<1>1. /\ s \in Seq(D) /\ \A i, j \in 1..Len(s) : s[i] = s[j] => i = j
      /\ first \in Seq(D) /\ g \in Seq(D) /\ Len(g) \in Nat
      /\ n \in Nat /\ ins \in Nat /\ rem \in Nat /\ Len(s) \in Nat
      /\ ins + rem = 0 => n <= Len(s) /\ g = Select(SubSeq(s, 1, n), K)
  BY DEF OnTheWay
<1>2. /\ t \in Seq(D) /\ Len(t) = Len(s) + 1
      /\ \A i \in 1..(Len(s) + 1) : t[i] = IF i < k THEN s[i] ELSE IF i = k THEN e ELSE s[i - 1]
  BY <1>1, InsertedFacts
<1>3. \A i \in 1..Len(s) : s[i] # e /\ s[i] \in D
  <2>1. Range(s) = {s[i] : i \in 1..Len(s)} BY <1>1, RangeFinite
  <2> QED BY <1>1, <2>1, ElementOfSeq
<1> HIDE DEF t
<1>4. \A i, j \in 1..Len(t) : t[i] = t[j] => i = j
  <2> SUFFICES ASSUME NEW i \in 1..(Len(s) + 1), NEW j \in 1..(Len(s) + 1), t[i] = t[j], i # j
               PROVE  FALSE
    BY <1>2
  <2> DEFINE at(l) == IF l < k THEN l ELSE l - 1
  <2>1. \A l \in 1..(Len(s) + 1) : l # k => at(l) \in 1..Len(s) /\ t[l] = s[at(l)]
    BY <1>1, <1>2
  <2>2. t[k] = e BY <1>2
  <2>3. i # k /\ j # k BY <1>3, <2>1, <2>2
  <2>4. at(i) = at(j) BY <1>1, <2>1, <2>3
  <2> QED BY <1>1, <2>3, <2>4
<1>5. Ahead(D, s, n) \subseteq Ahead(D, t, n)
  <2> SUFFICES ASSUME NEW i \in 1..Len(s), i > n
               PROVE  \E l \in 1..Len(t) : l > n /\ t[l] = s[i]
    BY DEF Ahead
  <2> DEFINE l == IF i < k THEN i ELSE i + 1
  <2>1. l \in 1..Len(t) /\ l > n /\ t[l] = s[i] BY <1>1, <1>2
  <2> QED BY <2>1
<1>6. CASE k <= Len(s)
  <2>1. \E y : Behind(D, s, n) \subseteq Behind(D, t, n) \cup {y}
    <3> SUFFICES Behind(D, s, n) \subseteq Behind(D, t, n) \cup {s[n]} OBVIOUS
    <3> SUFFICES ASSUME NEW i \in 1..Len(s), i <= n, i # n
                 PROVE  \E l \in 1..Len(t) : l <= n /\ t[l] = s[i]
      BY DEF Behind
    <3> DEFINE l == IF i < k THEN i ELSE i + 1
    <3>1. l \in 1..Len(t) /\ l <= n /\ t[l] = s[i] BY <1>1, <1>2
    <3> QED BY <3>1
  <2>2. /\ Len(g) <= Cardinality(Range(g) \cap Behind(D, t, n)) + ins + rem + 1
        /\ Cardinality((Range(first) \cap K) \ (Range(g) \cup Ahead(D, t, n))) <= rem
    BY <1>2, <1>4, <1>5, <2>1, ChangeCounts, Zenon
  <2>3. more = ins + 1 /\ more \in Nat /\ more + rem # 0 BY <1>1, <1>6
  <2>4. Len(g) <= Cardinality(Range(g) \cap Behind(D, t, n)) + more + rem
    <3>1. IsFiniteSet(Range(g) \cap Behind(D, t, n)) BY <1>1, RangeFinite, FS_Subset
    <3>2. Cardinality(Range(g) \cap Behind(D, t, n)) \in Nat BY <3>1, FS_CardinalityType
    <3> QED BY <1>1, <2>2, <2>3, <3>2
  <2> QED BY <1>1, <1>2, <1>4, <2>2, <2>3, <2>4 DEF OnTheWay, t
<1>7. CASE k = Len(s) + 1
  <2>1. \A i \in 1..Len(s) : t[i] = s[i] BY <1>1, <1>2, <1>7
  <2>2. Behind(D, s, n) \subseteq Behind(D, t, n) BY <1>1, <1>2, <2>1 DEF Behind
  <2>3. /\ Len(g) <= Cardinality(Range(g) \cap Behind(D, t, n)) + ins + rem
        /\ Cardinality((Range(first) \cap K) \ (Range(g) \cup Ahead(D, t, n))) <= rem
    BY <1>2, <1>4, <1>5, <2>2, ChangeCounts, Zenon
  <2>4. ASSUME ins + rem = 0 PROVE n <= Len(t) /\ g = Select(SubSeq(t, 1, n), K)
    <3>1. n <= Len(s) /\ g = Select(SubSeq(s, 1, n), K) BY <1>1, <2>4
    <3>2. SubSeq(s, 1, n) \in Seq(D) /\ Len(SubSeq(s, 1, n)) = n
          /\ \A i \in 1..n : SubSeq(s, 1, n)[i] = s[i]
      BY <1>1, <3>1
    <3>3. SubSeq(t, 1, n) \in Seq(D) /\ Len(SubSeq(t, 1, n)) = n
          /\ \A i \in 1..n : SubSeq(t, 1, n)[i] = t[i]
      BY <1>1, <1>2, <3>1
    <3>4. SubSeq(s, 1, n) = SubSeq(t, 1, n) BY <1>1, <2>1, <3>1, <3>2, <3>3, SeqEqual
    <3>5. n <= Len(t) BY <1>1, <1>2, <3>1
    <3> QED BY <3>1, <3>4, <3>5
  <2>5. more = ins BY <1>1, <1>7
  <2> QED BY <1>1, <1>2, <1>4, <2>3, <2>4, <2>5 DEF OnTheWay, t
<1> QED BY <1>1, <1>6, <1>7

LEMMA OneRemoved ==
  ASSUME NEW D, NEW first, NEW s, NEW K, NEW n, NEW g, NEW ins, NEW rem,
         OnTheWay(D, first, s, K, n, g, ins, rem),
         NEW k \in 1..Len(s)
  PROVE  OnTheWay(D, first, RemoveAt(s, k), K, n, g, ins, rem + 1)
<1> DEFINE t == RemoveAt(s, k)
<1>1. /\ s \in Seq(D) /\ \A i, j \in 1..Len(s) : s[i] = s[j] => i = j
      /\ first \in Seq(D) /\ g \in Seq(D) /\ Len(g) \in Nat
      /\ n \in Nat /\ ins \in Nat /\ rem \in Nat /\ Len(s) \in Nat
  BY DEF OnTheWay
<1>2. /\ t \in Seq(D) /\ Len(t) = Len(s) - 1
      /\ \A i \in 1..(Len(s) - 1) : t[i] = IF i < k THEN s[i] ELSE s[i + 1]
  BY <1>1, RemovedFacts
<1> HIDE DEF t
<1>4. \A i, j \in 1..Len(t) : t[i] = t[j] => i = j
  <2> SUFFICES ASSUME NEW i \in 1..(Len(s) - 1), NEW j \in 1..(Len(s) - 1), t[i] = t[j]
               PROVE  i = j
    BY <1>2
  <2> DEFINE at(l) == IF l < k THEN l ELSE l + 1
  <2>1. \A l \in 1..(Len(s) - 1) : at(l) \in 1..Len(s) /\ t[l] = s[at(l)] BY <1>1, <1>2
  <2>2. at(i) = at(j) BY <1>1, <2>1
  <2> QED BY <1>1, <2>2
<1>5. \E z : Ahead(D, s, n) \subseteq Ahead(D, t, n) \cup {z}
  <2> DEFINE z == IF k > n THEN s[k] ELSE s[n + 1]
  <2> SUFFICES Ahead(D, s, n) \subseteq Ahead(D, t, n) \cup {z} OBVIOUS
  <2> SUFFICES ASSUME NEW i \in 1..Len(s), i > n, s[i] # z
               PROVE  \E l \in 1..Len(t) : l > n /\ t[l] = s[i]
    BY DEF Ahead
  <2> DEFINE l == IF i < k THEN i ELSE i - 1
  <2>1. i # k /\ (k <= n => i # n + 1) BY <1>1
  <2> HIDE DEF z
  <2>2. l \in 1..Len(t) /\ l > n /\ t[l] = s[i] BY <1>1, <1>2, <2>1
  <2> QED BY <2>2
<1>6. Behind(D, s, n) \subseteq Behind(D, t, n) \cup {s[k]}
  <2> SUFFICES ASSUME NEW i \in 1..Len(s), i <= n, i # k
               PROVE  \E l \in 1..Len(t) : l <= n /\ t[l] = s[i]
    BY DEF Behind
  <2>1. CASE i < k
    <3>1. i \in 1..(Len(s) - 1) BY <1>1, <2>1
    <3>2. t[i] = s[i] BY <1>2, <2>1, <3>1
    <3> QED BY <1>2, <3>1, <3>2
  <2>2. CASE i > k
    <3>1. i - 1 \in 1..(Len(s) - 1) /\ i - 1 <= n /\ (i - 1) + 1 = i BY <1>1, <2>2
    <3>2. t[i - 1] = s[i] BY <1>1, <1>2, <2>2, <3>1
    <3> QED BY <1>2, <3>1, <3>2
  <2> QED BY <2>1, <2>2
<1>7. /\ Len(g) <= Cardinality(Range(g) \cap Behind(D, t, n)) + ins + rem + 1
      /\ Cardinality((Range(first) \cap K) \ (Range(g) \cup Ahead(D, t, n))) <= rem + 1
  BY <1>2, <1>4, <1>5, <1>6, ChangeCounts, Zenon
<1>8. Len(g) <= Cardinality(Range(g) \cap Behind(D, t, n)) + ins + (rem + 1)
  <2>1. IsFiniteSet(Range(g) \cap Behind(D, t, n)) BY <1>1, RangeFinite, FS_Subset
  <2>2. Cardinality(Range(g) \cap Behind(D, t, n)) \in Nat BY <2>1, FS_CardinalityType
  <2> QED BY <1>1, <1>7, <2>2
<1>9. rem + 1 \in Nat /\ ins + (rem + 1) # 0 BY <1>1
<1> QED BY <1>1, <1>2, <1>4, <1>7, <1>8, <1>9 DEF OnTheWay, t

\* A page is the entries after the ones behind the walk.
IsPage(s, n, m, page) == m \in Nat \ {0} /\ n + m <= Len(s) /\ page = SubSeq(s, n + 1, n + m)

\* What is taken of the m entries after the n-th: those in the set, each once.
TakenFrom(D, K, s, n, m, f) ==
  /\ f \in Seq(D)
  /\ \A j \in 1..Len(f) : \E i \in 1..m : f[j] = s[n + i]
  /\ \A i \in 1..m : s[n + i] \in K => \E j \in 1..Len(f) : f[j] = s[n + i]
  /\ \A i, j \in 1..Len(f) : f[i] = f[j] => i = j

LEMMA PageFacts ==
  ASSUME NEW D, NEW K, NEW s \in Seq(D), \A i, j \in 1..Len(s) : s[i] = s[j] => i = j,
         NEW n \in Nat, NEW m, NEW page, IsPage(s, n, m, page)
  PROVE  /\ page \in Seq(D) /\ Len(page) = m
         /\ TakenFrom(D, K, s, n, m, Select(page, K))
<1>1. m \in Nat /\ n + m \in 0..Len(s) /\ Len(s) \in Nat /\ page = SubSeq(s, n + 1, n + m)
  BY DEF IsPage
<1>2. page \in Seq(D) /\ Len(page) = m /\ \A i \in 1..m : page[i] = s[n + i]
  <2>1. /\ page \in Seq(D) /\ Len(page) = (IF n <= n + m THEN (n + m) - n ELSE 0)
        /\ \A i \in 1..((n + m) - n) : page[i] = s[n + i]
    BY <1>1, RunFacts
  <2> QED BY <1>1, <2>1
<1>3. ASSUME NEW i \in 1..m, NEW j \in 1..m, page[i] = page[j] PROVE i = j
  <2>1. n + i \in 1..Len(s) /\ n + j \in 1..Len(s) BY <1>1
  <2>2. n + i = n + j BY <1>2, <1>3, <2>1
  <2> QED BY <2>2
<1> DEFINE f == Select(page, K)
<1>4. SelectionOf(D, K, page, f) BY <1>2, SelectFacts
<1> HIDE DEF f
<1>5. /\ f \in Seq(D)
      /\ \A j \in 1..Len(f) : f[j] \in K /\ \E i \in 1..Len(page) : page[i] = f[j]
      /\ \A i \in 1..Len(page) : page[i] \in K => \E j \in 1..Len(f) : f[j] = page[i]
      /\ (\A i, j \in 1..Len(page) : page[i] = page[j] => i = j) =>
           \A i, j \in 1..Len(f) : f[i] = f[j] => i = j
  BY <1>4 DEF SelectionOf
<1>6. \A i, j \in 1..Len(f) : f[i] = f[j] => i = j BY <1>2, <1>3, <1>5
<1>7. ASSUME NEW j \in 1..Len(f) PROVE \E i \in 1..m : f[j] = s[n + i]
  <2>1. PICK i \in 1..Len(page) : page[i] = f[j] BY <1>5
  <2>2. i \in 1..m /\ page[i] = s[n + i] BY <1>2, <2>1
  <2> QED BY <2>1, <2>2
<1>9. ASSUME NEW i \in 1..m, s[n + i] \in K PROVE \E j \in 1..Len(f) : f[j] = s[n + i]
  <2>1. i \in 1..Len(page) /\ page[i] = s[n + i] BY <1>2
  <2>2. PICK j \in 1..Len(f) : f[j] = page[i] BY <1>5, <1>9, <2>1
  <2> QED BY <2>1, <2>2
<1> QED BY <1>2, <1>5, <1>6, <1>7, <1>9 DEF f, TakenFrom

\* Entries taken from a page are new among those behind.
LEMMA TakenCounts ==
  ASSUME NEW D, NEW first, NEW s, NEW K, NEW n, NEW g, NEW ins, NEW rem,
         OnTheWay(D, first, s, K, n, g, ins, rem),
         NEW m, NEW page, IsPage(s, n, m, page),
         NEW t \in Seq(D), \A i, j \in 1..Len(t) : t[i] = t[j] => i = j,
         \A j \in 1..Len(t) : \E i \in 1..m : t[j] = s[n + i]
  PROVE  /\ g \o t \in Seq(D) /\ Len(g \o t) = Len(g) + Len(t)
         /\ Range(g \o t) = Range(g) \cup Range(t)
         /\ Len(g \o t) <= Cardinality(Range(g \o t) \cap Behind(D, s, n + m)) + ins + rem
<1>1. /\ s \in Seq(D) /\ \A i, j \in 1..Len(s) : s[i] = s[j] => i = j
      /\ g \in Seq(D) /\ Len(g) \in Nat /\ n \in Nat /\ ins \in Nat /\ rem \in Nat
      /\ Len(g) <= Cardinality(Range(g) \cap Behind(D, s, n)) + ins + rem
  BY DEF OnTheWay
<1>2. m \in Nat /\ n + m <= Len(s) /\ Len(s) \in Nat /\ Len(t) \in Nat BY <1>1 DEF IsPage
<1>3. g \o t \in Seq(D) /\ Len(g \o t) = Len(g) + Len(t)
  BY <1>1, ConcatProperties
<1>4. Range(g \o t) = Range(g) \cup Range(t)
  <2>1. g \in Seq(D) BY <1>1
  <2> QED BY <2>1, RangeConcatenation, Zenon
<1> DEFINE A == Range(g) \cap Behind(D, s, n)
           B == Range(t)
           C == Range(g \o t) \cap Behind(D, s, n + m)
<1>5. B = {t[i] : i \in 1..Len(t)} /\ IsFiniteSet(B) BY RangeFinite
<1>6. Cardinality(B) = Len(t)
  <2>1. Cardinality({t[i] : i \in 1..Len(t)}) = Len(t) BY ElementsFacts, Zenon
  <2> QED BY <1>5, <2>1
<1>7. IsFiniteSet(A) BY <1>1, RangeFinite, FS_Subset
<1>8. IsFiniteSet(C) BY <1>3, RangeFinite, FS_Subset
<1>9. A \cap B = {}
  <2> SUFFICES ASSUME NEW x \in A, NEW j \in 1..Len(t), x = t[j] PROVE FALSE BY <1>5
  <2>1. PICK i \in 1..m : t[j] = s[n + i] OBVIOUS
  <2>2. PICK l \in 1..Len(s) : l <= n /\ s[l] = x BY DEF Behind
  <2>3. n + i \in 1..Len(s) BY <1>1, <1>2
  <2>4. l = n + i BY <1>1, <2>1, <2>2, <2>3
  <2> QED BY <1>1, <2>2, <2>4
<1>10. A \cup B \subseteq C
  <2>1. A \subseteq C
    <3>1. Behind(D, s, n) \subseteq Behind(D, s, n + m) BY <1>1, <1>2 DEF Behind
    <3> QED BY <1>4, <3>1
  <2>2. ASSUME NEW j \in 1..Len(t) PROVE t[j] \in Behind(D, s, n + m)
    <3>1. PICK i \in 1..m : t[j] = s[n + i] OBVIOUS
    <3>2. n + i \in 1..Len(s) /\ n + i <= n + m BY <1>1, <1>2
    <3>3. t[j] \in D BY ElementOfSeq
    <3> QED BY <3>1, <3>2, <3>3 DEF Behind
  <2>3. B \subseteq C BY <1>4, <1>5, <2>2
  <2> QED BY <2>1, <2>3
<1> HIDE DEF A, B, C
<1>11. Cardinality(A \cup B) = Cardinality(A) + Cardinality(B) - Cardinality(A \cap B)
  BY <1>5, <1>7, FS_Union
<1>12. Cardinality(A \cap B) = 0 BY <1>9, FS_EmptySet
<1>13. Cardinality(A \cup B) <= Cardinality(C) BY <1>8, <1>10, FS_Subset
<1>14. Cardinality(A) \in Nat /\ Cardinality(C) \in Nat BY <1>7, <1>8, FS_CardinalityType
<1>15. Len(g) <= Cardinality(A) + ins + rem BY <1>1 DEF A
<1>16. Len(g) + Len(t) <= Cardinality(C) + ins + rem
  BY <1>1, <1>2, <1>6, <1>11, <1>12, <1>13, <1>14, <1>15
<1> QED BY <1>3, <1>4, <1>16 DEF C

\* A page, taken as a whole, brings the walk on.
LEMMA PageRead ==
  ASSUME NEW D, NEW first, NEW s, NEW K, NEW n, NEW g, NEW ins, NEW rem,
         OnTheWay(D, first, s, K, n, g, ins, rem),
         NEW m, NEW page, IsPage(s, n, m, page)
  PROVE  OnTheWay(D, first, s, K, n + m, g \o Select(page, K), ins, rem)
<1> DEFINE f == Select(page, K)
           o(l, h) == (Range(first) \cap K) \ (Range(h) \cup Ahead(D, s, l))
<1>1. /\ s \in Seq(D) /\ \A i, j \in 1..Len(s) : s[i] = s[j] => i = j
      /\ first \in Seq(D) /\ g \in Seq(D) /\ Len(g) \in Nat /\ n \in Nat /\ ins \in Nat
      /\ rem \in Nat
      /\ ins + rem = 0 => n <= Len(s) /\ g = Select(SubSeq(s, 1, n), K)
      /\ Cardinality(o(n, g)) <= rem
  BY DEF OnTheWay
<1>2. m \in Nat /\ n + m <= Len(s) /\ Len(s) \in Nat /\ n + m \in Nat
  BY <1>1 DEF IsPage
<1>3. /\ page \in Seq(D) /\ f \in Seq(D)
      /\ \A j \in 1..Len(f) : \E i \in 1..m : f[j] = s[n + i]
      /\ \A i \in 1..m : s[n + i] \in K => \E j \in 1..Len(f) : f[j] = s[n + i]
      /\ \A i, j \in 1..Len(f) : f[i] = f[j] => i = j
  <2>1. s \in Seq(D) BY <1>1
  <2>2. n \in Nat BY <1>1
  <2>3. \A i, j \in 1..Len(s) : s[i] = s[j] => i = j BY <1>1
  <2> HIDE DEF o, f
  <2>4. page \in Seq(D) /\ TakenFrom(D, K, s, n, m, Select(page, K))
    BY <2>1, <2>2, <2>3, PageFacts
  <2> QED BY <2>4 DEF f, TakenFrom
<1> HIDE DEF f
<1>4. /\ g \o f \in Seq(D) /\ Range(g \o f) = Range(g) \cup Range(f)
      /\ Len(g \o f) <= Cardinality(Range(g \o f) \cap Behind(D, s, n + m)) + ins + rem
  <2>1. f \in Seq(D) BY <1>3
  <2>2. \A i, j \in 1..Len(f) : f[i] = f[j] => i = j BY <1>3
  <2>3. \A j \in 1..Len(f) : \E i \in 1..m : f[j] = s[n + i] BY <1>3
  <2> HIDE DEF o
  <2>4. /\ g \o f \in Seq(D) /\ Len(g \o f) = Len(g) + Len(f)
        /\ Range(g \o f) = Range(g) \cup Range(f)
        /\ Len(g \o f) <= Cardinality(Range(g \o f) \cap Behind(D, s, n + m)) + ins + rem
    BY ONLY <2>1, <2>2, <2>3, IsPage(s, n, m, page), OnTheWay(D, first, s, K, n, g, ins, rem),
       TakenCounts
  <2> QED BY <2>4
<1>5. o(n + m, g \o f) \subseteq o(n, g)
  <2> SUFFICES ASSUME NEW x \in K, x \in Ahead(D, s, n), x \notin Ahead(D, s, n + m)
               PROVE  x \in Range(f)
    BY <1>4
  <2>1. PICK l \in 1..Len(s) : l > n /\ s[l] = x BY DEF Ahead
  <2>2. ~(l > n + m) BY <2>1 DEF Ahead
  <2>3. l - n \in 1..m /\ n + (l - n) = l BY <1>1, <1>2, <2>1, <2>2
  <2>4. PICK j \in 1..Len(f) : f[j] = x BY <1>3, <2>1, <2>3
  <2>5. Range(f) = {f[i] : i \in 1..Len(f)} BY <1>3, RangeFinite
  <2> QED BY <2>4, <2>5
<1>6. Cardinality(o(n + m, g \o f)) <= rem
  <2>1. IsFiniteSet(Range(first)) BY <1>1, RangeFinite
  <2>2. o(n, g) \subseteq Range(first) OBVIOUS
  <2> HIDE DEF o
  <2>3. IsFiniteSet(o(n, g)) BY <2>1, <2>2, FS_Subset
  <2>4. /\ Cardinality(o(n + m, g \o f)) <= Cardinality(o(n, g))
        /\ IsFiniteSet(o(n + m, g \o f))
    BY <1>5, <2>3, FS_Subset
  <2>5. Cardinality(o(n, g)) \in Nat /\ Cardinality(o(n + m, g \o f)) \in Nat
    BY <2>3, <2>4, FS_CardinalityType
  <2> QED BY <1>1, <2>4, <2>5
<1>7. ASSUME ins + rem = 0
      PROVE  n + m <= Len(s) /\ g \o f = Select(SubSeq(s, 1, n + m), K)
  <2>1. n <= Len(s) /\ g = Select(SubSeq(s, 1, n), K) BY <1>1, <1>7
  <2>2. SubSeq(s, 1, n) \o SubSeq(s, n + 1, n + m) = SubSeq(s, 1, n + m)
    <3>1. 1 \in 1..Len(s) + 1 /\ n \in 1 - 1..Len(s) /\ n + m \in n..Len(s) BY <1>1, <1>2, <2>1
    <3> QED BY <1>1, <3>1, ConcatAdjacentSubSeq, Zenon
  <2>3. SubSeq(s, 1, n) \in Seq(D) BY <1>1, <2>1
  <2>4. page = SubSeq(s, n + 1, n + m) BY DEF IsPage
  <2>5. Select(SubSeq(s, 1, n) \o page, K) = Select(SubSeq(s, 1, n), K) \o f
    <3>1. page \in Seq(D) BY <1>3
    <3> QED BY <2>3, <3>1, SelectConcat, Zenon DEF f
  <2> QED BY <1>2, <2>1, <2>2, <2>4, <2>5
<1> QED BY <1>1, <1>2, <1>4, <1>6, <1>7 DEF OnTheWay, f

\* What a walk that ended with r has to tell.
WalkTold(D, first, s, K, limit, r, ins, rem) ==
  /\ r \in Seq(D)
  /\ ins + rem = 0 => r = Upto(Select(s, K), limit)
  /\ Len(r) - Cardinality(Range(r)) <= ins + rem
  /\ Len(r) < limit => Cardinality((Range(first) \cap Range(s) \cap K) \ Range(r)) <= rem

LEMMA UptoFacts ==
  ASSUME NEW D, NEW s \in Seq(D), NEW n \in Nat
  PROVE  /\ Upto(s, n) \in Seq(D) /\ Len(Upto(s, n)) = (IF n <= Len(s) THEN n ELSE Len(s))
         /\ \A i \in 1..Len(Upto(s, n)) : Upto(s, n)[i] = s[i]
         /\ Len(s) <= n => Upto(s, n) = s
<1> DEFINE k == IF n <= Len(s) THEN n ELSE Len(s)
           u == SubSeq(s, 1, k)
<1>1. k \in Nat /\ k <= Len(s) /\ Len(s) \in Nat OBVIOUS
<1>2. Upto(s, n) = u BY DEF Upto, Smaller
<1>3. Len(s) <= n => k = Len(s) OBVIOUS
<1> HIDE DEF k
<1>4. u \in Seq(D) /\ Len(u) = k /\ \A i \in 1..k : u[i] = s[i] BY <1>1
<1> HIDE DEF u
<1>5. ASSUME Len(s) <= n PROVE u = s
  <2>1. Len(u) = Len(s) /\ \A i \in 1..Len(u) : u[i] = s[i] BY <1>3, <1>4, <1>5
  <2> QED BY <1>4, <2>1, SeqEqual
<1> QED BY <1>2, <1>4, <1>5 DEF k

\* An entry that comes twice is one of those moved.
LEMMA RepeatsBounded ==
  ASSUME NEW D, NEW r \in Seq(D), NEW S, NEW b \in Nat,
         Len(r) <= Cardinality(Range(r) \cap S) + b
  PROVE  Len(r) - Cardinality(Range(r)) <= b
<1>1. IsFiniteSet(Range(r)) BY RangeFinite
<1>2. Cardinality(Range(r) \cap S) <= Cardinality(Range(r)) /\ IsFiniteSet(Range(r) \cap S)
  <2>1. Range(r) \cap S \subseteq Range(r) OBVIOUS
  <2> QED BY <1>1, <2>1, FS_Subset
<1>3. Cardinality(Range(r) \cap S) \in Nat /\ Cardinality(Range(r)) \in Nat
  BY <1>1, <1>2, FS_CardinalityType
<1>4. Len(r) \in Nat OBVIOUS
<1> QED BY <1>2, <1>3, <1>4

LEMMA EndReached ==
  ASSUME NEW D, NEW first, NEW s, NEW K, NEW n, NEW g, NEW ins, NEW rem,
         OnTheWay(D, first, s, K, n, g, ins, rem),
         NEW limit \in Nat, Len(g) < limit, Len(s) <= n
  PROVE  WalkTold(D, first, s, K, limit, g, ins, rem)
<1>1. /\ s \in Seq(D) /\ Len(s) \in Nat
      /\ first \in Seq(D) /\ g \in Seq(D) /\ Len(g) \in Nat
      /\ n \in Nat /\ ins \in Nat /\ rem \in Nat
      /\ ins + rem = 0 => n <= Len(s) /\ g = Select(SubSeq(s, 1, n), K)
      /\ Len(g) <= Cardinality(Range(g) \cap Behind(D, s, n)) + ins + rem
      /\ Cardinality((Range(first) \cap K) \ (Range(g) \cup Ahead(D, s, n))) <= rem
  BY DEF OnTheWay
<1>2. ASSUME ins + rem = 0 PROVE g = Upto(Select(s, K), limit)
  <2>1. n = Len(s) /\ g = Select(SubSeq(s, 1, n), K) BY <1>1, <1>2
  <2>2. SubSeq(s, 1, Len(s)) = s
    <3>1. /\ SubSeq(s, 1, Len(s)) \in Seq(D) /\ Len(SubSeq(s, 1, Len(s))) = Len(s)
          /\ \A i \in 1..Len(s) : SubSeq(s, 1, Len(s))[i] = s[i]
      BY <1>1
    <3> QED BY <1>1, <3>1, SeqEqual
  <2>3. g = Select(s, K) BY <2>1, <2>2
  <2>4. Upto(g, limit) = g BY <1>1, UptoFacts
  <2> QED BY <2>3, <2>4
<1>3. Len(g) - Cardinality(Range(g)) <= ins + rem
  <2>1. ins + rem \in Nat BY <1>1
  <2>2. Len(g) <= Cardinality(Range(g) \cap Behind(D, s, n)) + (ins + rem)
    <3>1. IsFiniteSet(Range(g) \cap Behind(D, s, n)) BY <1>1, RangeFinite, FS_Subset
    <3>2. Cardinality(Range(g) \cap Behind(D, s, n)) \in Nat BY <3>1, FS_CardinalityType
    <3> QED BY <1>1, <3>2
  <2> QED BY <1>1, <2>1, <2>2, RepeatsBounded
<1>4. Cardinality((Range(first) \cap Range(s) \cap K) \ Range(g)) <= rem
  <2> DEFINE big == (Range(first) \cap K) \ (Range(g) \cup Ahead(D, s, n))
             small == (Range(first) \cap Range(s) \cap K) \ Range(g)
  <2>1. Ahead(D, s, n) = {} BY <1>1 DEF Ahead
  <2>2. small \subseteq big /\ big \subseteq Range(first) BY <2>1
  <2>3. IsFiniteSet(Range(first)) BY <1>1, RangeFinite
  <2>4. Cardinality(big) <= rem BY <1>1
  <2> HIDE DEF big, small
  <2>5. IsFiniteSet(big) BY <2>2, <2>3, FS_Subset
  <2>6. IsFiniteSet(small) /\ Cardinality(small) <= Cardinality(big) BY <2>2, <2>5, FS_Subset
  <2>7. Cardinality(big) \in Nat /\ Cardinality(small) \in Nat BY <2>5, <2>6, FS_CardinalityType
  <2>8. Cardinality(small) <= rem BY <1>1, <2>4, <2>6, <2>7
  <2> QED BY <2>8 DEF small
<1> QED BY <1>1, <1>2, <1>3, <1>4 DEF WalkTold

\* What is taken of a page when only so much room is left.
LEMMA PartTaken ==
  ASSUME NEW D, NEW first, NEW s, NEW K, NEW n, NEW g, NEW ins, NEW rem,
         OnTheWay(D, first, s, K, n, g, ins, rem),
         NEW m, NEW page, IsPage(s, n, m, page), NEW room \in Nat
  PROVE  LET t == Upto(Select(page, K), room)
         IN  /\ Select(page, K) \in Seq(D) /\ t \in Seq(D) /\ Len(t) <= room
             /\ Len(t) < room => t = Select(page, K)
             /\ g \o t \in Seq(D) /\ Len(g \o t) = Len(g) + Len(t)
             /\ Len(g \o t) <= Cardinality(Range(g \o t) \cap Behind(D, s, n + m)) + ins + rem
<1> DEFINE f == Select(page, K)
           t == Upto(f, room)
<1>1. s \in Seq(D) /\ n \in Nat BY DEF OnTheWay
<1>2. \A i, j \in 1..Len(s) : s[i] = s[j] => i = j BY DEF OnTheWay
<1>3. page \in Seq(D) /\ TakenFrom(D, K, s, n, m, f) BY <1>1, <1>2, PageFacts
<1> HIDE DEF f
<1>4. /\ f \in Seq(D) /\ Len(f) \in Nat
      /\ \A j \in 1..Len(f) : \E i \in 1..m : f[j] = s[n + i]
      /\ \A i, j \in 1..Len(f) : f[i] = f[j] => i = j
  BY <1>3 DEF TakenFrom
<1>5. /\ t \in Seq(D) /\ Len(t) = (IF room <= Len(f) THEN room ELSE Len(f))
      /\ \A i \in 1..Len(t) : t[i] = f[i]
      /\ Len(f) <= room => t = f
  BY <1>4, UptoFacts
<1> HIDE DEF t
<1>6. \A i, j \in 1..Len(t) : t[i] = t[j] => i = j BY <1>4, <1>5
<1>7. ASSUME NEW j \in 1..Len(t) PROVE \E i \in 1..m : t[j] = s[n + i]
  <2>1. j \in 1..Len(f) /\ t[j] = f[j] BY <1>4, <1>5
  <2>2. PICK i \in 1..m : f[j] = s[n + i] BY <1>4, <2>1
  <2> QED BY <2>1, <2>2
<1>8. /\ g \o t \in Seq(D) /\ Len(g \o t) = Len(g) + Len(t)
      /\ Range(g \o t) = Range(g) \cup Range(t)
      /\ Len(g \o t) <= Cardinality(Range(g \o t) \cap Behind(D, s, n + m)) + ins + rem
  <2>1. t \in Seq(D) BY <1>5
  <2> QED BY ONLY <1>6, <1>7, <2>1, IsPage(s, n, m, page),
             OnTheWay(D, first, s, K, n, g, ins, rem), TakenCounts
<1>9. Len(t) <= room /\ (Len(t) < room => t = f) BY <1>4, <1>5
<1> QED BY <1>4, <1>5, <1>8, <1>9 DEF t, f

LEMMA LimitReached ==
  ASSUME NEW D, NEW first, NEW s, NEW K, NEW n, NEW g, NEW ins, NEW rem,
         OnTheWay(D, first, s, K, n, g, ins, rem),
         NEW m, NEW page, IsPage(s, n, m, page),
         NEW limit \in Nat, Len(g) < limit,
         NEW r, r = g \o Upto(Select(page, K), limit - Len(g)), Len(r) >= limit
  PROVE  WalkTold(D, first, s, K, limit, r, ins, rem)
<1> DEFINE f == Select(page, K)
           room == limit - Len(g)
           t == Upto(f, room)
<1>1. /\ s \in Seq(D) /\ Len(s) \in Nat /\ g \in Seq(D) /\ Len(g) \in Nat
      /\ n \in Nat /\ ins \in Nat /\ rem \in Nat
  BY DEF OnTheWay
<1>2. room \in Nat /\ m \in Nat /\ n + m <= Len(s) BY <1>1 DEF IsPage
<1>3. /\ f \in Seq(D) /\ t \in Seq(D) /\ Len(t) <= room
      /\ g \o t \in Seq(D) /\ Len(g \o t) = Len(g) + Len(t)
      /\ Len(g \o t) <= Cardinality(Range(g \o t) \cap Behind(D, s, n + m)) + ins + rem
  <2> HIDE DEF room
  <2> QED BY <1>2, PartTaken
<1>4. r = g \o t OBVIOUS
<1>5. Len(t) = room /\ Len(r) = limit /\ r \in Seq(D)
  <2>1. r \in Seq(D) /\ Len(r) = Len(g) + Len(t) /\ Len(t) <= room BY <1>3, <1>4, Zenon
  <2> HIDE DEF f, t
  <2>2. Len(t) \in Nat BY <1>3
  <2>3. room = limit - Len(g) OBVIOUS
  <2> HIDE DEF room
  <2>4. Len(t) = room /\ Len(r) = limit
    BY ONLY <1>1, <2>1, <2>2, <2>3, limit \in Nat, Len(g) < limit, Len(r) >= limit
  <2> QED BY <2>1, <2>4
<1>6. Len(t) = (IF room <= Len(f) THEN room ELSE Len(f)) /\ \A i \in 1..Len(t) : t[i] = f[i]
  <2> HIDE DEF f, room
  <2> QED BY <1>2, <1>3, UptoFacts
<1>7. ASSUME ins + rem = 0 PROVE r = Upto(Select(s, K), limit)
  <2> DEFINE a == SubSeq(s, 1, n + m)
             b == SubSeq(s, n + m + 1, Len(s))
             h == Select(b, K)
             w == g \o f
             all == Select(s, K)
  <2>1. OnTheWay(D, first, s, K, n + m, w, ins, rem) BY PageRead
  <2>2. w = Select(a, K) BY <1>7, <2>1 DEF OnTheWay
  <2>3. a \in Seq(D) /\ b \in Seq(D) BY <1>1, <1>2
  <2>4. a \o b = s
    <3>1. 1 \in 1..Len(s) + 1 /\ n + m \in 1 - 1..Len(s) /\ Len(s) \in n + m..Len(s)
      BY <1>1, <1>2
    <3>2. a \o b = SubSeq(s, 1, Len(s)) BY <1>1, <3>1, ConcatAdjacentSubSeq
    <3>3. /\ SubSeq(s, 1, Len(s)) \in Seq(D) /\ Len(SubSeq(s, 1, Len(s))) = Len(s)
          /\ \A i \in 1..Len(s) : SubSeq(s, 1, Len(s))[i] = s[i]
      BY <1>1
    <3>4. SubSeq(s, 1, Len(s)) = s BY <1>1, <3>3, SeqEqual
    <3> QED BY <3>2, <3>4
  <2>5. all = w \o h
    <3> HIDE DEF a, b
    <3>1. Select(a \o b, K) = Select(a, K) \o Select(b, K) BY <2>3, SelectConcat, Zenon
    <3> QED BY <2>2, <2>4, <3>1, Zenon DEF h
  <2>6. h \in Seq(D)
    <3> HIDE DEF b
    <3>1. SelectionOf(D, K, b, h) BY <2>3, SelectFacts, Zenon
    <3> QED BY <3>1, Zenon DEF SelectionOf
  <2> HIDE DEF a, b, h, f, t, room, all
  <2>7. /\ w \in Seq(D) /\ Len(w) = Len(g) + Len(f)
        /\ \A i \in 1..Len(g) : w[i] = g[i]
        /\ \A i \in 1..Len(f) : w[Len(g) + i] = f[i]
    BY <1>1, <1>3
  <2> HIDE DEF w
  <2>8. /\ all \in Seq(D) /\ Len(all) = Len(w) + Len(h)
        /\ \A i \in 1..Len(w) : all[i] = w[i]
    <3>1. Len(w) \in Nat /\ Len(h) \in Nat BY <2>6, <2>7
    <3>3. w \in Seq(D) BY <2>7
    <3>2. /\ w \o h \in Seq(D) /\ Len(w \o h) = Len(w) + Len(h)
          /\ \A i \in 1..Len(w) + Len(h) :
               (w \o h)[i] = IF i <= Len(w) THEN w[i] ELSE h[i - Len(w)]
      BY ONLY <2>6, <3>3, ConcatProperties
    <3> QED BY <2>5, <3>1, <3>2
  <2>9. /\ \A i \in 1..Len(g) : r[i] = g[i]
        /\ \A i \in 1..Len(t) : r[Len(g) + i] = t[i]
    BY <1>1, <1>3, <1>4
  <2>10. limit <= Len(w) /\ Len(w) \in Nat /\ Len(h) \in Nat /\ limit = Len(g) + room
    BY <1>1, <1>2, <1>3, <1>5, <1>6, <2>6, <2>7 DEF room
  <2>11. ASSUME NEW i \in 1..limit PROVE r[i] = all[i]
    <3>1. all[i] = w[i] BY <2>8, <2>10
    <3>2. CASE i <= Len(g) BY <1>1, <2>7, <2>9, <3>1, <3>2
    <3>3. CASE i > Len(g)
      <4>1. i - Len(g) \in 1..Len(t) /\ Len(g) + (i - Len(g)) = i BY <1>1, <1>5, <2>10, <3>3
      <4>2. i - Len(g) \in 1..Len(f) BY <1>1, <1>3, <1>5, <1>6, <4>1
      <4>3. r[i] = f[i - Len(g)] BY <1>6, <2>9, <4>1
      <4>4. w[i] = f[i - Len(g)] BY <2>7, <4>1, <4>2
      <4> QED BY <3>1, <4>3, <4>4
    <3> QED BY <1>1, <3>2, <3>3
  <2>12. /\ Upto(all, limit) \in Seq(D) /\ Len(Upto(all, limit)) = limit
         /\ \A i \in 1..limit : Upto(all, limit)[i] = all[i]
    BY <2>8, <2>10, UptoFacts
  <2>13. r = Upto(all, limit)
    <3>1. Len(r) = Len(Upto(all, limit)) BY <1>5, <2>12
    <3>2. \A i \in 1..Len(r) : r[i] = Upto(all, limit)[i] BY <1>5, <2>11, <2>12
    <3> QED BY <1>5, <2>12, <3>1, <3>2, SeqEqual
  <2> QED BY <2>13 DEF all
<1>8. Len(r) - Cardinality(Range(r)) <= ins + rem
  <2> HIDE DEF t
  <2>1. IsFiniteSet(Range(r) \cap Behind(D, s, n + m))
    <3>1. IsFiniteSet(Range(r)) BY <1>5, RangeFinite
    <3>2. Range(r) \cap Behind(D, s, n + m) \subseteq Range(r) OBVIOUS
    <3> QED BY <3>1, <3>2, FS_Subset
  <2>2. Cardinality(Range(r) \cap Behind(D, s, n + m)) \in Nat BY <2>1, FS_CardinalityType
  <2>3. /\ ins + rem \in Nat
        /\ Len(r) <= Cardinality(Range(r) \cap Behind(D, s, n + m)) + (ins + rem)
    <3>1. Len(r) <= Cardinality(Range(r) \cap Behind(D, s, n + m)) + ins + rem
      BY <1>3, <1>4, Zenon
    <3> QED BY <1>1, <1>5, <2>2, <3>1
  <2> QED BY <1>5, <2>3, RepeatsBounded
<1>9. ~(Len(r) < limit) BY <1>5
<1> QED BY <1>5, <1>7, <1>8, <1>9 DEF WalkTold

\* A walk of the call, over the entries s of which K is sought.
Walking(D, first, s, K) ==
  /\ call.limit \in Nat \ {0} /\ inserted \in Nat /\ removed \in Nat /\ s \in Seq(D)
  /\ pc # "done" =>
       /\ OnTheWay(D, first, s, K, walk.start, walk.got, inserted, removed)
       /\ Len(walk.got) < call.limit

UserWalk ==
  /\ Walking(Users, InitialMembers, members, Named)
  /\ pc = "done" /\ outcome.status = "ok" =>
       WalkTold(Users, InitialMembers, members, Named, call.limit, outcome.results,
                inserted, removed)

\* The tree's answer: the pages that were got, in order, and where to go on.
TreeTold(r) ==
  /\ WalkTold(SpacePages, InitialTree, tree, SpacePages, call.limit, r, inserted, removed)
  /\ outcome.results = InTreeOrder(r)
  /\ inserted + removed = 0 =>
       /\ outcome.has_more = (Len(tree) > Len(r))
       /\ outcome.has_more => outcome.next_start = Len(r)

TreeWalk ==
  /\ Walking(SpacePages, InitialTree, tree, SpacePages)
  /\ pc # "done" => walk.start = Len(walk.got)
  /\ pc = "done" /\ outcome.status = "ok" => \E r \in Seq(SpacePages) : TreeTold(r)

WalkInv ==
  /\ call.op = "users" => UserWalk
  /\ call.op = "tree" => TreeWalk

\* A sequence of which no element comes twice, written out.
LEMMA InjectiveFacts ==
  ASSUME NEW D, NEW s \in Seq(D), IsInjective(s)
  PROVE  \A i, j \in 1..Len(s) : s[i] = s[j] => i = j
<1>1. DOMAIN s = 1..Len(s) OBVIOUS
<1> QED BY <1>1 DEF IsInjective

LEMMA WalkStarts == Init => WalkInv
<1> SUFFICES ASSUME Init PROVE WalkInv OBVIOUS
<1>1. /\ members = InitialMembers /\ tree = InitialTree /\ inserted = 0 /\ removed = 0
      /\ walk.start = 0 /\ walk.got = <<>> /\ outcome.status = "pending"
  BY DEF Init, Pending
<1>2. ASSUME call.op \in {"users", "tree"} PROVE call.limit \in Nat \ {0}
  <2>1. call \in Walks BY <1>2 DEF Init, Searches, Diffs, Uploads, Writes, Views
  <2> QED BY <2>1, BoundsAssumption DEF Walks
<1>3. OnTheWay(Users, InitialMembers, InitialMembers, Named, 0, <<>>, 0, 0)
  BY SetsAssumption, InjectiveFacts, WalkBegins
<1>4. OnTheWay(SpacePages, InitialTree, InitialTree, SpacePages, 0, <<>>, 0, 0)
  BY SetsAssumption, InjectiveFacts, WalkBegins
<1>5. Len(<<>>) = 0 OBVIOUS
<1>6. call.op = "users" => UserWalk
  BY <1>1, <1>2, <1>3, <1>5, SetsAssumption DEF UserWalk, Walking
<1>7. call.op = "tree" => TreeWalk
  BY <1>1, <1>2, <1>4, <1>5, SetsAssumption DEF TreeWalk, Walking
<1> QED BY <1>6, <1>7 DEF WalkInv

\* What the server may answer with.
LEMMA PageChosen ==
  ASSUME NEW D, NEW s \in Seq(D), walk.start \in Nat, NEW asked \in Nat \ {0},
         NEW page \in PagesOf(s, asked)
  PROVE  \/ Len(s) <= walk.start /\ page = <<>>
         \/ /\ Len(page) \in 1..asked /\ page # <<>> /\ page \in Seq(D)
            /\ IsPage(s, walk.start, Len(page), page)
<1>1. Len(s) \in Nat OBVIOUS
<1>2. CASE Len(s) - walk.start <= 0
  <2>1. page \in {<<>>} BY <1>2 DEF PagesOf
  <2> QED BY <1>1, <1>2, <2>1
<1>3. CASE ~(Len(s) - walk.start <= 0)
  <2> DEFINE start == walk.start
  <2>1. PICK n \in 1..Smaller(asked, Len(s) - start) : page = SubSeq(s, start + 1, start + n)
    BY <1>3 DEF PagesOf
  <2>2. n \in Nat \ {0} /\ n <= asked /\ start + n <= Len(s)
    BY <1>1, <1>3, <2>1 DEF Smaller
  <2>3. page \in Seq(D) /\ Len(page) = n
    <3>1. start + n \in 0..Len(s) BY <1>1, <2>2
    <3>2. /\ page \in Seq(D) /\ Len(page) = (IF start <= start + n THEN (start + n) - start ELSE 0)
      BY <2>1, <3>1, RunFacts
    <3> QED BY <2>2, <3>2
  <2>4. page # <<>> BY <2>2, <2>3
  <2>5. IsPage(s, start, n, page) BY <2>1, <2>2 DEF IsPage
  <2>6. Len(page) \in 1..asked BY <2>2, <2>3
  <2> QED BY <2>3, <2>4, <2>5, <2>6, Zenon
<1> QED BY <1>2, <1>3

\* A page of members, and what is taken of it.
LEMMA UsersStep ==
  ASSUME call.op = "users", pc = "users", UserWalk, WalkUsers
  PROVE  UserWalk'
<1>1. /\ UNCHANGED <<call, members, inserted, removed>>
      /\ call.limit \in Nat \ {0} /\ inserted \in Nat /\ removed \in Nat
      /\ OnTheWay(Users, InitialMembers, members, Named, walk.start, walk.got, inserted, removed)
      /\ Len(walk.got) < call.limit
  BY DEF WalkUsers, server, history, UserWalk, Walking
<1>2. /\ members \in Seq(Users) /\ walk.start \in Nat /\ walk.got \in Seq(Users)
      /\ Len(walk.got) \in Nat /\ Len(members) \in Nat
  BY <1>1 DEF OnTheWay
<1>3. PICK page \in PagesOf(members, UserPage) :
        LET got == walk.got \o NamedOf(page)
        IN IF page = <<>> \/ ~HasNext(members, page) \/ Len(got) >= call.limit
             THEN /\ Answer([status |-> "ok", results |-> got])
                  /\ UNCHANGED walk
             ELSE /\ walk' = [start |-> UsersNext(page), got |-> got]
                  /\ UNCHANGED <<pc, outcome>>
  BY DEF WalkUsers
<1> DEFINE room == call.limit - Len(walk.got)
           found == Select(page, Named)
           part == Upto(found, room)
           got == walk.got \o NamedOf(page)
<1>4. NamedOf(page) = part BY DEF NamedOf, Upto
<1>5. room \in Nat \ {0} /\ call.limit \in Nat BY <1>1, <1>2
<1>6. \/ Len(members) <= walk.start /\ page = <<>>
      \/ /\ page # <<>> /\ page \in Seq(Users) /\ Len(page) \in Nat
         /\ IsPage(members, walk.start, Len(page), page)
  <2>1. UserPage \in Nat \ {0} BY BoundsAssumption
  <2> QED BY <1>2, <2>1, PageChosen
<1>7. ASSUME Answer([status |-> "ok", results |-> got]),
             WalkTold(Users, InitialMembers, members, Named, call.limit, got, inserted, removed)
      PROVE  UserWalk'
  <2> HIDE DEF got
  <2>1. pc' = "done" /\ outcome'.results = got BY <1>7 DEF Answer
  <2> QED BY <1>1, <1>2, <1>7, <2>1 DEF UserWalk, Walking
<1>8. CASE page = <<>>
  <2>1. Len(members) <= walk.start
    <3>1. CASE ~(Len(members) <= walk.start) BY <1>6, <1>8, <3>1
    <3> QED BY <3>1
  <2>2. got = walk.got
    <3> DEFINE e == <<>>
    <3>1. found = e BY <1>8, SelectNone
    <3>2. e \in Seq(Users) /\ Len(e) = 0 OBVIOUS
    <3>3. walk.got \o e = walk.got BY <1>2, ConcatEmptySeq
    <3> HIDE DEF e, room, found
    <3>5. room \in Nat /\ Len(e) <= room BY <1>5, <3>2
    <3>4. Upto(e, room) = e BY <3>2, <3>5, UptoFacts, Zenon
    <3> QED BY <1>4, <3>1, <3>3, <3>4
  <2>3. WalkTold(Users, InitialMembers, members, Named, call.limit, walk.got, inserted, removed)
    BY <1>1, <1>5, <2>1, EndReached
  <2> QED BY <1>3, <1>7, <1>8, <2>2, <2>3
<1>9. CASE page # <<>>
  <2>1. /\ page \in Seq(Users) /\ Len(page) \in Nat
        /\ IsPage(members, walk.start, Len(page), page)
    BY <1>6, <1>9
  <2>2. got = walk.got \o part BY <1>4
  <2> DEFINE next == walk.start + Len(page)
  <2>3. next \in Nat /\ next <= Len(members) BY <1>2, <2>1 DEF IsPage
  <2>4. /\ found \in Seq(Users) /\ part \in Seq(Users) /\ Len(part) <= room
        /\ Len(part) < room => part = found
        /\ got \in Seq(Users) /\ Len(got) = Len(walk.got) + Len(part)
    <3>1. LET t == Upto(Select(page, Named), room)
          IN  /\ Select(page, Named) \in Seq(Users) /\ t \in Seq(Users) /\ Len(t) <= room
              /\ Len(t) < room => t = Select(page, Named)
              /\ walk.got \o t \in Seq(Users) /\ Len(walk.got \o t) = Len(walk.got) + Len(t)
              /\ Len(walk.got \o t) <= Cardinality(Range(walk.got \o t)
                     \cap Behind(Users, members, walk.start + Len(page))) + inserted + removed
      <4> HIDE DEF room
      <4> QED BY ONLY <1>1, <1>5, <2>1, PartTaken
    <3> HIDE DEF room
    <3> QED BY <2>2, <3>1, Zenon
  <2>5. OnTheWay(Users, InitialMembers, members, Named, next, walk.got \o found, inserted, removed)
    BY <1>1, <2>1, PageRead
  <2>6. ASSUME Len(got) < call.limit PROVE got = walk.got \o found
    <3> HIDE DEF part, found, got
    <3>1. Len(part) \in Nat BY <2>4
    <3>2. Len(part) < room BY <1>2, <1>5, <2>4, <2>6, <3>1
    <3> QED BY <2>2, <2>4, <3>2
  <2>7. CASE Len(got) >= call.limit
    <3>1. WalkTold(Users, InitialMembers, members, Named, call.limit, got, inserted, removed)
      BY <1>1, <1>5, <2>1, <2>2, <2>7, LimitReached
    <3> QED BY <1>3, <1>7, <2>7, <3>1
  <2>8. CASE Len(got) < call.limit /\ ~HasNext(members, page)
    <3>1. Len(members) <= next BY <1>2, <2>3, <2>8 DEF HasNext
    <3>2. WalkTold(Users, InitialMembers, members, Named, call.limit, walk.got \o found,
                   inserted, removed)
      <4>1. Len(walk.got \o found) < call.limit BY <2>6, <2>8
      <4> HIDE DEF next, found
      <4> QED BY <1>5, <2>5, <3>1, <4>1, EndReached
    <3>3. WalkTold(Users, InitialMembers, members, Named, call.limit, got, inserted, removed)
      BY <2>6, <2>8, <3>2
    <3> QED BY <1>3, <1>7, <2>8, <3>3
  <2>9. CASE Len(got) < call.limit /\ HasNext(members, page)
    <3>1. ~(Len(got) >= call.limit)
      <4> HIDE DEF got
      <4>1. got \in Seq(Users) BY <2>4
      <4>2. Len(got) \in Nat BY ONLY <4>1
      <4> QED BY <1>5, <2>9, <4>2
    <3>2. walk' = [start |-> UsersNext(page), got |-> got] /\ UNCHANGED <<pc, outcome>>
      BY <1>3, <1>9, <2>9, <3>1
    <3>3. walk'.start = next /\ walk'.got = got BY <3>2 DEF UsersNext
    <3>4. OnTheWay(Users, InitialMembers, members, Named, walk'.start, walk'.got, inserted, removed)
      BY <2>5, <2>6, <2>9, <3>3
    <3>5. Len(walk'.got) < call.limit BY <2>9, <3>3
    <3> HIDE DEF got, next
    <3> QED BY <1>1, <1>2, <3>2, <3>4, <3>5 DEF UserWalk, Walking
  <2>10. Len(got) >= call.limit \/ Len(got) < call.limit
    <3> HIDE DEF got
    <3>1. got \in Seq(Users) BY <2>4
    <3>2. Len(got) \in Nat BY ONLY <3>1
    <3> QED BY <1>5, <3>2
  <2> QED BY <2>7, <2>8, <2>9, <2>10
<1> QED BY <1>8, <1>9

\* A page of the tree: no more of it was asked for than there is room for.
LEMMA TreeStep ==
  ASSUME call.op = "tree", pc = "tree", TreeWalk, WalkTree
  PROVE  TreeWalk'
<1>1. /\ UNCHANGED <<call, tree, inserted, removed>>
      /\ call.limit \in Nat \ {0} /\ inserted \in Nat /\ removed \in Nat
      /\ OnTheWay(SpacePages, InitialTree, tree, SpacePages, walk.start, walk.got,
                  inserted, removed)
      /\ Len(walk.got) < call.limit /\ walk.start = Len(walk.got)
  BY DEF WalkTree, server, history, TreeWalk, Walking
<1>2. /\ tree \in Seq(SpacePages) /\ walk.start \in Nat /\ walk.got \in Seq(SpacePages)
      /\ Len(walk.got) \in Nat /\ Len(tree) \in Nat
  BY <1>1 DEF OnTheWay
<1> DEFINE room == call.limit - Len(walk.got)
           asked == Smaller(TreePage, room)
<1>3. PICK page \in PagesOf(tree, asked) :
        LET got == walk.got \o page
            next == HasNext(tree, page)
            last == page = <<>> \/ ~next
            start == IF last THEN walk.start ELSE walk.start + Len(page)
        IN IF last \/ Len(got) >= call.limit
             THEN /\ Answer([status |-> "ok", results |-> InTreeOrder(got),
                             has_more |-> TreeHasMore(got, next), next_start |-> start])
                  /\ UNCHANGED walk
             ELSE /\ walk' = [start |-> start, got |-> got]
                  /\ UNCHANGED <<pc, outcome>>
  BY DEF WalkTree
<1> DEFINE got == walk.got \o page
           next == HasNext(tree, page)
           start == IF page = <<>> \/ ~next THEN walk.start ELSE walk.start + Len(page)
           answer == [status |-> "ok", results |-> InTreeOrder(got),
                      has_more |-> TreeHasMore(got, next), next_start |-> start]
           Told == WalkTold(SpacePages, InitialTree, tree, SpacePages, call.limit, got,
                            inserted, removed)
<1>4. room \in Nat \ {0} /\ call.limit \in Nat BY <1>1, <1>2
<1>5. asked \in Nat \ {0} /\ asked <= room
  <2> HIDE DEF room
  <2> QED BY <1>4, BoundsAssumption DEF Smaller
<1>6. \/ Len(tree) <= walk.start /\ page = <<>>
      \/ /\ page # <<>> /\ page \in Seq(SpacePages) /\ Len(page) \in Nat /\ Len(page) <= room
         /\ IsPage(tree, walk.start, Len(page), page)
  <2> HIDE DEF room, asked
  <2>1. \/ Len(tree) <= walk.start /\ page = <<>>
        \/ /\ Len(page) \in 1..asked /\ page # <<>> /\ page \in Seq(SpacePages)
           /\ IsPage(tree, walk.start, Len(page), page)
    BY <1>2, <1>5, PageChosen
  <2>2. Len(page) \in 1..asked => Len(page) \in Nat /\ Len(page) <= room BY <1>4, <1>5
  <2> QED BY <2>1, <2>2
<1>7. ASSUME Answer(answer), Told, got \in Seq(SpacePages),
             inserted + removed = 0 =>
               /\ TreeHasMore(got, next) = (Len(tree) > Len(got))
               /\ TreeHasMore(got, next) => start = Len(got)
      PROVE  TreeWalk'
  <2>1. /\ pc' = "done" /\ outcome'.results = InTreeOrder(got)
        /\ outcome'.has_more = TreeHasMore(got, next) /\ outcome'.next_start = start
    BY <1>7 DEF Answer
  <2> HIDE DEF got, next, start, answer
  <2>2. PICK r \in Seq(SpacePages) : r = got BY <1>7
  <2>3. TreeTold(r)' BY <1>1, <1>7, <2>1, <2>2 DEF TreeTold, Told
  <2>4. \E q \in Seq(SpacePages) : TreeTold(q)' BY <2>3
  <2> QED BY <1>1, <1>2, <2>1, <2>4 DEF TreeWalk, Walking
<1>8. CASE page = <<>>
  <2>1. Len(tree) <= walk.start
    <3>1. CASE ~(Len(tree) <= walk.start) BY <1>6, <1>8, <3>1
    <3> QED BY <3>1
  <2>2. got = walk.got BY <1>2, <1>8, ConcatEmptySeq
  <2>3. Told
    <3>1. WalkTold(SpacePages, InitialTree, tree, SpacePages, call.limit, walk.got,
                   inserted, removed)
      BY <1>1, <1>4, <2>1, EndReached
    <3> QED BY <2>2, <3>1
  <2>4. ~next
    <3>1. Len(page) = 0 BY <1>8
    <3> QED BY <1>2, <2>1, <3>1 DEF HasNext
  <2>5. ~TreeHasMore(got, next) BY <2>4 DEF TreeHasMore
  <2>6. ~(Len(tree) > Len(got)) BY <1>1, <1>2, <2>1, <2>2
  <2>7. TreeHasMore(got, next) = (Len(tree) > Len(got))
    <3> HIDE DEF got
    <3> QED BY <2>5, <2>6 DEF TreeHasMore, HasNext
  <2>8. Answer(answer)
    <3> HIDE DEF Told
    <3> QED BY <1>3, <1>8
  <2>9. got \in Seq(SpacePages) BY <1>2, <2>2
  <2> HIDE DEF got, next, start, answer, Told
  <2> QED BY <1>7, <2>3, <2>5, <2>7, <2>8, <2>9
<1>9. CASE page # <<>>
  <2>1. /\ page \in Seq(SpacePages) /\ Len(page) \in Nat /\ Len(page) <= room
        /\ IsPage(tree, walk.start, Len(page), page)
    BY <1>6, <1>9
  <2> DEFINE to == walk.start + Len(page)
  <2>3. to \in Nat /\ to <= Len(tree) BY <1>2, <2>1 DEF IsPage
  <2>4. Select(page, SpacePages) = page BY <2>1, SelectAll
  <2>5. Upto(Select(page, SpacePages), room) = page
    <3> HIDE DEF room
    <3>1. room \in Nat BY <1>4
    <3>2. Upto(page, room) = page BY <2>1, <3>1, UptoFacts, Zenon
    <3> QED BY <2>4, <3>2
  <2>6. got \in Seq(SpacePages) /\ Len(got) = Len(walk.got) + Len(page)
    BY <1>2, <2>1, ConcatProperties
  <2>7. OnTheWay(SpacePages, InitialTree, tree, SpacePages, to, got, inserted, removed)
    <3>1. OnTheWay(SpacePages, InitialTree, tree, SpacePages, to,
                   walk.got \o Select(page, SpacePages), inserted, removed)
      BY <1>1, <2>1, PageRead
    <3> QED BY <2>4, <3>1
  <2>8. Len(got) = to /\ (next <=> to < Len(tree))
    <3>1. Len(got) = to BY <1>1, <2>6
    <3>2. next <=> to < Len(tree) BY DEF HasNext
    <3> QED BY <3>1, <3>2
  <2> HIDE DEF got, next, to, room
  <2>9. CASE next /\ Len(got) < call.limit
    <3>1. ~(Len(got) >= call.limit)
      <4>1. Len(got) \in Nat BY <2>3, <2>8
      <4> QED BY <1>4, <2>9, <4>1
    <3>2. walk' = [start |-> start, got |-> got] /\ UNCHANGED <<pc, outcome>>
      BY <1>3, <1>9, <2>9, <3>1 DEF got, next
    <3>3. walk'.start = to /\ walk'.got = got BY <1>9, <2>9, <3>2 DEF to
    <3>4. OnTheWay(SpacePages, InitialTree, tree, SpacePages, walk'.start, walk'.got,
                   inserted, removed)
      BY <2>7, <3>3
    <3>5. Len(walk'.got) < call.limit /\ walk'.start = Len(walk'.got) BY <2>8, <2>9, <3>3
    <3> QED BY <1>1, <1>2, <3>2, <3>4, <3>5 DEF TreeWalk, Walking
  <2>10. CASE ~next \/ Len(got) >= call.limit
    <3>1. Answer(answer) BY <1>3, <2>10 DEF got, next
    <3>2. Told
      <4>1. CASE Len(got) >= call.limit
        <5>1. got = walk.got \o Upto(Select(page, SpacePages), call.limit - Len(walk.got))
          BY <2>5 DEF got, room
        <5> QED BY <1>1, <1>4, <2>1, <4>1, <5>1, LimitReached
      <4>2. CASE ~(Len(got) >= call.limit)
        <5>1. Len(tree) <= to
          <6>1. ~next BY <2>10, <4>2
          <6> QED BY <1>2, <2>3, <2>8, <6>1
        <5>2. Len(got) < call.limit
          <6>1. Len(got) \in Nat BY <2>3, <2>8
          <6> QED BY <1>4, <4>2, <6>1
        <5> QED BY <1>4, <2>7, <5>1, <5>2, EndReached
      <4> QED BY <4>1, <4>2
    <3>3. TreeHasMore(got, next) <=> Len(tree) > Len(got)
      <4>1. TreeHasMore(got, next) <=> Len(got) >= call.limit /\ next BY DEF TreeHasMore
      <4>2. next <=> Len(tree) > Len(got) BY <1>2, <2>3, <2>8
      <4> QED BY <2>10, <4>1, <4>2
    <3>4. TreeHasMore(got, next) = (Len(tree) > Len(got)) BY <3>3 DEF TreeHasMore, next, HasNext
    <3>5. TreeHasMore(got, next) => start = Len(got)
      <4>1. TreeHasMore(got, next) => next BY DEF TreeHasMore
      <4>2. next => start = to BY <1>9 DEF to
      <4> QED BY <2>8, <4>1, <4>2
    <3> HIDE DEF answer, Told, start
    <3> QED BY <1>7, <2>6, <3>1, <3>2, <3>4, <3>5
  <2>11. Len(got) < call.limit \/ Len(got) >= call.limit BY <1>4, <2>3, <2>8
  <2> QED BY <2>9, <2>10, <2>11
<1> QED BY <1>8, <1>9

LEMMA WalkStep ==
  ASSUME OnCourse, WalkInv, [Next]_vars
  PROVE  WalkInv'
<1>1. call' = call
  BY DEF Next, Answered, WalkUsers, WalkTree, SearchAnswers, SearchFails, Diff, ReadTitle,
         ReadViews, SingleWrite, AddLabel, ReadLabels, Upload, ReadFails, Others,
         SomethingAdded, SomethingRemoved, OthersWrite, vars
<1> SUFFICES ASSUME call.op \in {"users", "tree"} PROVE WalkInv' BY <1>1 DEF WalkInv
<1>2. pc \in {call.op, "done"} BY DEF OnCourse
<1>3. ASSUME UNCHANGED <<members, tree, inserted, removed, pc, outcome, walk>>
      PROVE  WalkInv'
  <2>1. call.op = "users" => UserWalk' BY <1>1, <1>3 DEF WalkInv, UserWalk, Walking
  <2>2. call.op = "tree" => TreeWalk' BY <1>1, <1>3 DEF WalkInv, TreeWalk, Walking, TreeTold
  <2> QED BY <1>1, <2>1, <2>2 DEF WalkInv
<1>4. CASE WalkUsers
  <2>1. pc = "users" /\ call.op = "users" BY <1>2, <1>4 DEF WalkUsers
  <2> QED BY <1>1, <1>4, <2>1, UsersStep DEF WalkInv
<1>5. CASE WalkTree
  <2>1. pc = "tree" /\ call.op = "tree" BY <1>2, <1>5 DEF WalkTree
  <2> QED BY <1>1, <1>5, <2>1, TreeStep DEF WalkInv
<1>6. CASE ReadFails
  <2>1. /\ pc' = "done" /\ outcome'.status # "ok"
        /\ UNCHANGED <<members, tree, inserted, removed, walk>>
    BY <1>6 DEF ReadFails, Answer, Error, server, history, work
  <2>2. call.op = "users" => UserWalk' BY <1>1, <2>1 DEF WalkInv, UserWalk, Walking
  <2>3. call.op = "tree" => TreeWalk' BY <1>1, <2>1 DEF WalkInv, TreeWalk, Walking
  <2> QED BY <1>1, <2>2, <2>3 DEF WalkInv
<1>7. CASE SomethingAdded
  <2>1. UNCHANGED <<removed, pc, outcome, walk>> /\ pc # "done"
    BY <1>7 DEF SomethingAdded, Change, work
  <2>2. CASE call.op = "users"
    <3>1. Walking(Users, InitialMembers, members, Named) BY <2>2 DEF WalkInv, UserWalk
    <3>2. OnTheWay(Users, InitialMembers, members, Named, walk.start, walk.got, inserted, removed)
      BY <2>1, <3>1 DEF Walking
    <3>3. PICK u \in Users \ Range(members), i \in 1..(Len(members) + 1) :
            /\ members' = InsertAt(members, i, u)
            /\ inserted' = IF i <= Len(members) THEN inserted + 1 ELSE inserted
      BY <1>7, <2>2 DEF SomethingAdded
    <3>4. OnTheWay(Users, InitialMembers, members', Named, walk.start, walk.got, inserted', removed)
      BY <3>2, <3>3, OneInserted
    <3>5. inserted' \in Nat BY <3>1, <3>3 DEF Walking
    <3>7. members' \in Seq(Users) BY <3>4 DEF OnTheWay
    <3> QED BY <1>1, <2>1, <2>2, <3>1, <3>4, <3>5, <3>7 DEF WalkInv, UserWalk, Walking
  <2>3. CASE call.op = "tree"
    <3>1. /\ Walking(SpacePages, InitialTree, tree, SpacePages)
          /\ walk.start = Len(walk.got)
      BY <2>1, <2>3 DEF WalkInv, TreeWalk
    <3>2. OnTheWay(SpacePages, InitialTree, tree, SpacePages, walk.start, walk.got, inserted, removed)
      BY <2>1, <3>1 DEF Walking
    <3>3. PICK p \in SpacePages \ Range(tree), i \in 1..(Len(tree) + 1) :
            /\ tree' = InsertAt(tree, i, p)
            /\ inserted' = IF i <= Len(tree) THEN inserted + 1 ELSE inserted
      BY <1>7, <2>3 DEF SomethingAdded
    <3>4. OnTheWay(SpacePages, InitialTree, tree', SpacePages, walk.start, walk.got,
                   inserted', removed)
      BY <3>2, <3>3, OneInserted
    <3>5. inserted' \in Nat BY <3>1, <3>3 DEF Walking
    <3>7. tree' \in Seq(SpacePages) BY <3>4 DEF OnTheWay
    <3> QED BY <1>1, <2>1, <2>3, <3>1, <3>4, <3>5, <3>7 DEF WalkInv, TreeWalk, Walking
  <2> QED BY <2>2, <2>3
<1>8. CASE SomethingRemoved
  <2>1. UNCHANGED <<inserted, pc, outcome, walk>> /\ pc # "done" /\ removed' = removed + 1
    BY <1>8 DEF SomethingRemoved, Change, work
  <2>2. CASE call.op = "users"
    <3>1. Walking(Users, InitialMembers, members, Named) BY <2>2 DEF WalkInv, UserWalk
    <3>2. OnTheWay(Users, InitialMembers, members, Named, walk.start, walk.got, inserted, removed)
      BY <2>1, <3>1 DEF Walking
    <3>3. PICK i \in DOMAIN members : members' = RemoveAt(members, i)
      BY <1>8, <2>2 DEF SomethingRemoved
    <3>4. i \in 1..Len(members) BY <3>2, <3>3 DEF OnTheWay
    <3>5. OnTheWay(Users, InitialMembers, members', Named, walk.start, walk.got, inserted, removed')
      BY <2>1, <3>2, <3>3, <3>4, OneRemoved
    <3>6. removed' \in Nat BY <2>1, <3>1 DEF Walking
    <3>7. members' \in Seq(Users) BY <3>5 DEF OnTheWay
    <3> QED BY <1>1, <2>1, <2>2, <3>1, <3>5, <3>6, <3>7 DEF WalkInv, UserWalk, Walking
  <2>3. CASE call.op = "tree"
    <3>1. /\ Walking(SpacePages, InitialTree, tree, SpacePages)
          /\ walk.start = Len(walk.got)
      BY <2>1, <2>3 DEF WalkInv, TreeWalk
    <3>2. OnTheWay(SpacePages, InitialTree, tree, SpacePages, walk.start, walk.got, inserted, removed)
      BY <2>1, <3>1 DEF Walking
    <3>3. PICK i \in DOMAIN tree : tree' = RemoveAt(tree, i)
      BY <1>8, <2>3 DEF SomethingRemoved
    <3>4. i \in 1..Len(tree) BY <3>2, <3>3 DEF OnTheWay
    <3>5. OnTheWay(SpacePages, InitialTree, tree', SpacePages, walk.start, walk.got,
                   inserted, removed')
      BY <2>1, <3>2, <3>3, <3>4, OneRemoved
    <3>6. removed' \in Nat BY <2>1, <3>1 DEF Walking
    <3>7. tree' \in Seq(SpacePages) BY <3>5 DEF OnTheWay
    <3> QED BY <1>1, <2>1, <2>3, <3>1, <3>5, <3>6, <3>7 DEF WalkInv, TreeWalk, Walking
  <2> QED BY <2>2, <2>3
<1>9. ~OthersWrite BY DEF OthersWrite
<1>10. ~(SearchAnswers \/ SearchFails \/ Diff \/ ReadTitle \/ ReadViews \/ SingleWrite
         \/ AddLabel \/ ReadLabels \/ Upload)
  BY <1>2 DEF SearchAnswers, SearchFails, Diff, ReadTitle, ReadViews, SingleWrite, AddLabel,
              ReadLabels, Upload
<1>11. CASE UNCHANGED vars BY <1>3, <1>11 DEF vars, server, history, work
<1> QED BY <1>4, <1>5, <1>6, <1>7, <1>8, <1>9, <1>10, <1>11 DEF Next, Answered, Others

LEMMA WalkSafe == ASSUME WalkInv PROVE WalksExact
<1>1. ASSUME Done("users")
      PROVE  /\ inserted + removed = 0 =>
                  outcome.results = Upto(Select(members, Named), call.limit)
             /\ Len(outcome.results) - Cardinality(Range(outcome.results)) <= inserted + removed
             /\ Len(outcome.results) < call.limit =>
                  Cardinality((Range(InitialMembers) \cap Range(members) \cap Named)
                              \ Range(outcome.results)) <= removed
  BY <1>1 DEF WalkInv, UserWalk, WalkTold, Done
<1>2. ASSUME Done("tree")
      PROVE  /\ inserted + removed = 0 =>
                  /\ outcome.results = InTreeOrder(Upto(tree, call.limit))
                  /\ outcome.has_more = (Len(tree) > Len(outcome.results))
                  /\ outcome.has_more => outcome.next_start = Len(outcome.results)
             /\ Len(outcome.results) - Cardinality(Range(outcome.results)) <= inserted + removed
             /\ Len(outcome.results) < call.limit =>
                  Cardinality((Range(InitialTree) \cap Range(tree)) \ Range(outcome.results))
                    <= removed
  <2>1. PICK r \in Seq(SpacePages) : TreeTold(r) BY <1>2 DEF WalkInv, TreeWalk, Done
  <2>2. /\ WalkTold(SpacePages, InitialTree, tree, SpacePages, call.limit, r, inserted, removed)
        /\ outcome.results = InTreeOrder(r)
        /\ inserted + removed = 0 =>
             /\ outcome.has_more = (Len(tree) > Len(r))
             /\ outcome.has_more => outcome.next_start = Len(r)
    BY <2>1 DEF TreeTold
  <2>3. Len(outcome.results) = Len(r) /\ Range(outcome.results) = Range(r)
    BY <2>2, OrderFacts
  <2>4. ASSUME inserted + removed = 0
        PROVE  outcome.results = InTreeOrder(Upto(tree, call.limit))
    <3>1. r = Upto(Select(tree, SpacePages), call.limit) BY <2>2, <2>4 DEF WalkTold
    <3>2. Select(tree, SpacePages) = tree BY <1>2, SelectAll DEF WalkInv, TreeWalk, Walking, Done
    <3> QED BY <2>2, <3>1, <3>2
  <2>5. (Range(InitialTree) \cap Range(tree) \cap SpacePages) \ Range(r)
          = (Range(InitialTree) \cap Range(tree)) \ Range(r)
    <3>1. Range(InitialTree) \subseteq SpacePages BY SetsAssumption, RangeFinite
    <3> QED BY <3>1
  <2>6. /\ Len(r) - Cardinality(Range(r)) <= inserted + removed
        /\ Len(r) < call.limit =>
             Cardinality((Range(InitialTree) \cap Range(tree) \cap SpacePages) \ Range(r)) <= removed
    BY <2>2 DEF WalkTold
  <2>7. Len(r) < call.limit =>
          Cardinality((Range(InitialTree) \cap Range(tree)) \ Range(r)) <= removed
    BY <2>5, <2>6, Zenon
  <2> QED BY <2>2, <2>3, <2>4, <2>6, <2>7
<1>3. ASSUME Done("users") PROVE call.op = "users" /\ ~Done("tree") BY <1>3 DEF Done
<1>4. ASSUME Done("tree") PROVE call.op = "tree" /\ ~Done("users") BY <1>4 DEF Done
<1>5. CASE Done("users") BY <1>1, <1>3, <1>5 DEF WalksExact
<1>6. CASE Done("tree") BY <1>2, <1>4, <1>6 DEF WalksExact
<1>7. CASE ~Done("users") /\ ~Done("tree") BY <1>7 DEF WalksExact
<1> QED BY <1>5, <1>6, <1>7

\* search_user_server_dc and get_space_page_tree, for a group and a space of any size, any
\* pages of the server and any changes meanwhile: what a walk by offset repeats or hides
\* is at most what others moved, and without a move it tells exactly what was there.
THEOREM WalksTrue == Spec => []WalksExact
<1>1. Init => WriteInv /\ WalkInv BY WriteStarts, WalkStarts
<1>2. WriteInv /\ WalkInv /\ [Next]_vars => (WriteInv /\ WalkInv)'
  BY WriteStep, WalkStep DEF WriteInv
<1>3. WalkInv => WalksExact BY WalkSafe
<1> QED BY <1>1, <1>2, <1>3, PTL DEF Spec

-----------------------------------------------------------------------------
(* The diff of two versions.                                               *)

\* What a diff is made of.
Signs == {"same", "gone", "new"}
Entries == [sign : Signs, line : Lines]
OfSigns(signs) == [sign : signs, line : Lines]

\* The lines that a part of a diff holds.
LinesIn(ds) == [i \in DOMAIN ds |-> ds[i].line]

LEMMA LinesInFacts ==
  ASSUME NEW a \in Seq(Entries), NEW b \in Seq(Entries)
  PROVE  /\ LinesIn(a) \in Seq(Lines) /\ Len(LinesIn(a)) = Len(a)
         /\ LinesIn(a \o b) = LinesIn(a) \o LinesIn(b)
<1>1. ASSUME NEW c \in Seq(Entries)
      PROVE  /\ LinesIn(c) \in Seq(Lines) /\ Len(LinesIn(c)) = Len(c)
             /\ \A i \in 1..Len(c) : LinesIn(c)[i] = c[i].line
  <2>1. LinesIn(c) = [i \in 1..Len(c) |-> c[i].line] BY DEF LinesIn
  <2>2. \A i \in 1..Len(c) : c[i].line \in Lines
    <3>1. \A i \in 1..Len(c) : c[i] \in Entries BY ElementOfSeq
    <3> QED BY <3>1 DEF Entries
  <2>3. Len(c) \in Nat OBVIOUS
  <2>4. LinesIn(c) \in [1..Len(c) -> Lines] BY <2>1, <2>2
  <2>5. LinesIn(c) \in Seq(Lines) BY <2>3, <2>4
  <2>6. DOMAIN LinesIn(c) = 1..Len(c) BY <2>1
  <2>7. Len(LinesIn(c)) = Len(c) BY <2>3, <2>5, <2>6
  <2> QED BY <2>1, <2>5, <2>7
<1> DEFINE c == a \o b
           la == LinesIn(a)
           lb == LinesIn(b)
           d == la \o lb
<1>2. /\ c \in Seq(Entries) /\ Len(c) = Len(a) + Len(b)
      /\ \A i \in 1..(Len(a) + Len(b)) : c[i] = IF i <= Len(a) THEN a[i] ELSE b[i - Len(a)]
  BY ConcatProperties
<1>3. /\ d \in Seq(Lines) /\ Len(d) = Len(a) + Len(b)
      /\ \A i \in 1..(Len(a) + Len(b)) :
           d[i] = IF i <= Len(a) THEN la[i] ELSE lb[i - Len(a)]
  <2>1. la \in Seq(Lines) /\ lb \in Seq(Lines) /\ Len(la) = Len(a) /\ Len(lb) = Len(b)
    BY <1>1
  <2> HIDE DEF la, lb
  <2>2. /\ d \in Seq(Lines) /\ Len(d) = Len(la) + Len(lb)
        /\ \A i \in 1..(Len(la) + Len(lb)) :
             d[i] = IF i <= Len(la) THEN la[i] ELSE lb[i - Len(la)]
    BY <2>1, ConcatProperties
  <2> QED BY <2>1, <2>2
<1> HIDE DEF c, d
<1>4. ASSUME NEW i \in 1..(Len(a) + Len(b)) PROVE LinesIn(c)[i] = d[i]
  <2>1. LinesIn(c)[i] = c[i].line BY <1>1, <1>2
  <2>2. CASE i <= Len(a)
    <3>1. i \in 1..Len(a) BY <2>2
    <3> QED BY <1>1, <1>2, <1>3, <2>1, <2>2, <3>1
  <2>3. CASE ~(i <= Len(a))
    <3>1. i - Len(a) \in 1..Len(b) BY <2>3
    <3>2. LinesIn(b)[i - Len(a)] = b[i - Len(a)].line BY <1>1, <3>1
    <3>3. c[i] = b[i - Len(a)] /\ d[i] = LinesIn(b)[i - Len(a)] BY <1>2, <1>3, <2>3
    <3> QED BY <2>1, <3>2, <3>3
  <2> QED BY <2>2, <2>3
<1>5. LinesIn(c) \in Seq(Lines) /\ Len(LinesIn(c)) = Len(a) + Len(b) BY <1>1, <1>2
<1>6. LinesIn(c) = d
  <2>1. \A i \in 1..Len(LinesIn(c)) : LinesIn(c)[i] = d[i] BY <1>4, <1>5
  <2>2. Len(LinesIn(c)) = Len(d) BY <1>3, <1>5
  <2> QED BY <1>3, <1>5, <2>1, <2>2, SeqEqual
<1> QED BY <1>1, <1>6 DEF c, d

\* The lines of a text up to the i-th, one more, and those among them that changed.
UpTo(text, i) == SubSeq(text, 1, Smaller(i, Len(text)))
ChangedUpTo(text, i) == {k \in 1..Smaller(i, Len(text)) : Changed(k)}

LEMMA UpToFacts ==
  ASSUME NEW D, NEW text \in Seq(D), NEW i \in Nat
  PROVE  /\ UpTo(text, 0) = <<>>
         /\ UpTo(text, i) \o LineAt(text, i + 1) = UpTo(text, i + 1)
         /\ i >= Len(text) => UpTo(text, i) = text
<1>1. Len(text) \in Nat OBVIOUS
<1>2. UpTo(text, 0) = <<>> BY <1>1, SubSeqEmpty DEF UpTo, Smaller
<1>3. i >= Len(text) => UpTo(text, i) = text
  <2>1. SubSeq(text, 1, Len(text)) = text BY SubSeqFull
  <2>2. i >= Len(text) => Smaller(i, Len(text)) = Len(text) BY <1>1 DEF Smaller
  <2> QED BY <2>1, <2>2 DEF UpTo
<1>4. CASE i + 1 <= Len(text)
  <2>1. UpTo(text, i) = SubSeq(text, 1, i) /\ UpTo(text, i + 1) = SubSeq(text, 1, i + 1)
    BY <1>1, <1>4 DEF UpTo, Smaller
  <2>2. LineAt(text, i + 1) = <<text[i + 1]>> BY <1>4 DEF LineAt
  <2>3. SubSeq(text, 1, i) \o <<text[i + 1]>> = SubSeq(text, 1, i + 1)
    <3>1. i + 1 \in 1..Len(text) BY <1>1, <1>4
    <3> QED BY <3>1
  <2> QED BY <1>2, <1>3, <2>1, <2>2, <2>3
<1>5. CASE i + 1 > Len(text)
  <2>1. LineAt(text, i + 1) = <<>> BY <1>1, <1>5 DEF LineAt
  <2>2. UpTo(text, i) = UpTo(text, i + 1) BY <1>1, <1>5 DEF UpTo, Smaller
  <2>3. UpTo(text, i) \in Seq(D) BY <1>1 DEF UpTo, Smaller
  <2> QED BY <1>2, <1>3, <2>1, <2>2, <2>3
<1> QED BY <1>1, <1>2, <1>3, <1>4, <1>5

LEMMA ChangedUpToFacts ==
  ASSUME NEW D, NEW text \in Seq(D), NEW i \in Nat
  PROVE  /\ IsFiniteSet(ChangedUpTo(text, i)) /\ Cardinality(ChangedUpTo(text, i)) \in Nat
         /\ Cardinality(ChangedUpTo(text, 0)) = 0
         /\ Cardinality(ChangedUpTo(text, i + 1))
              = Cardinality(ChangedUpTo(text, i))
                + IF Changed(i + 1) /\ i + 1 <= Len(text) THEN 1 ELSE 0
         /\ i >= Len(text) => ChangedUpTo(text, i) = {k \in DOMAIN text : Changed(k)}
<1>1. Len(text) \in Nat /\ DOMAIN text = 1..Len(text) OBVIOUS
<1>2. IsFiniteSet(ChangedUpTo(text, i))
  <2>1. IsFiniteSet(1..Len(text)) BY <1>1, FS_Interval
  <2>2. ChangedUpTo(text, i) \subseteq 1..Len(text) BY <1>1 DEF ChangedUpTo, Smaller
  <2> QED BY <2>1, <2>2, FS_Subset
<1>3. Cardinality(ChangedUpTo(text, i)) \in Nat BY <1>2, FS_CardinalityType
<1>4. Cardinality(ChangedUpTo(text, 0)) = 0
  <2>1. ChangedUpTo(text, 0) = {} BY <1>1 DEF ChangedUpTo, Smaller
  <2> QED BY <2>1, FS_EmptySet
<1>5. i >= Len(text) => ChangedUpTo(text, i) = {k \in DOMAIN text : Changed(k)}
  BY <1>1 DEF ChangedUpTo, Smaller
<1>6. CASE Changed(i + 1) /\ i + 1 <= Len(text)
  <2>1. ChangedUpTo(text, i + 1) = ChangedUpTo(text, i) \cup {i + 1}
    <3>0. ASSUME NEW n \in Nat, i + 1 <= n
          PROVE  Smaller(i, n) = i /\ Smaller(i + 1, n) = i + 1
      BY <3>0 DEF Smaller
    <3>1. Smaller(i, Len(text)) = i /\ Smaller(i + 1, Len(text)) = i + 1 BY <1>1, <1>6, <3>0
    <3>2. 1..(i + 1) = 1..i \cup {i + 1} OBVIOUS
    <3> QED BY <1>6, <3>1, <3>2 DEF ChangedUpTo
  <2>2. i + 1 \notin ChangedUpTo(text, i) BY <1>1 DEF ChangedUpTo, Smaller
  <2>3. Cardinality(ChangedUpTo(text, i) \cup {i + 1}) = Cardinality(ChangedUpTo(text, i)) + 1
    BY <1>2, <2>2, FS_AddElement
  <2> QED BY <1>2, <1>3, <1>4, <1>5, <1>6, <2>1, <2>3
<1>7. CASE ~(Changed(i + 1) /\ i + 1 <= Len(text))
  <2>1. ChangedUpTo(text, i + 1) = ChangedUpTo(text, i)
    <3>1. ASSUME NEW k \in Nat
          PROVE  k \in ChangedUpTo(text, i + 1) <=> k \in ChangedUpTo(text, i)
      <4>1. CASE k = i + 1 BY <1>1, <1>7, <4>1 DEF ChangedUpTo, Smaller
      <4>2. CASE k # i + 1
        <5>1. k <= Smaller(i + 1, Len(text)) <=> k <= Smaller(i, Len(text))
          BY <1>1, <4>2 DEF Smaller
        <5>2. Smaller(i + 1, Len(text)) \in Nat /\ Smaller(i, Len(text)) \in Nat
          BY <1>1 DEF Smaller
        <5> QED BY <5>1, <5>2 DEF ChangedUpTo
      <4> QED BY <4>1, <4>2
    <3>2. ChangedUpTo(text, i + 1) \subseteq Nat /\ ChangedUpTo(text, i) \subseteq Nat
      BY DEF ChangedUpTo
    <3> QED BY <3>1, <3>2
  <2> QED BY <1>2, <1>3, <1>4, <1>5, <1>7, <2>1
<1> QED BY <1>6, <1>7

\* One line with a sign in front of it.
LEMMA SignedFacts ==
  ASSUME NEW sign \in Signs, NEW text \in Seq(Lines), NEW i \in Nat \ {0}, NEW signs
  PROVE  LET s == Signed(sign, text, i)
         IN  /\ s \in Seq(Entries) /\ LinesIn(s) = LineAt(text, i)
             /\ Len(s) = (IF i <= Len(text) THEN 1 ELSE 0)
             /\ Select(s, OfSigns(signs)) = IF sign \in signs THEN s ELSE <<>>
<1> DEFINE s == Signed(sign, text, i)
           none == <<>>
<1>1. none \in Seq(Entries) /\ Len(none) = 0 OBVIOUS
<1>2. Select(none, OfSigns(signs)) = none BY SelectNone
<1>3. CASE i > Len(text)
  <2>1. s = none /\ LineAt(text, i) = none BY <1>3 DEF Signed, LineAt
  <2>2. LinesIn(none) = none BY DEF LinesIn
  <2>3. ~(i <= Len(text)) BY <1>3
  <2> HIDE DEF none, s
  <2>4. Select(s, OfSigns(signs)) = IF sign \in signs THEN s ELSE none BY <1>2, <2>1
  <2> QED BY <1>1, <2>1, <2>2, <2>3, <2>4 DEF s, none
<1>4. CASE i <= Len(text)
  <2> DEFINE d == [sign |-> sign, line |-> text[i]]
  <2>1. text[i] \in Lines
    <3>1. i \in 1..Len(text) BY <1>4
    <3> QED BY <3>1, ElementOfSeq
  <2>2. d \in Entries BY <2>1 DEF Entries
  <2>3. d \in OfSigns(signs) <=> sign \in signs BY <2>1 DEF OfSigns
  <2>4. d.line = text[i] OBVIOUS
  <2>5. s = <<d>> /\ LineAt(text, i) = <<d.line>> BY <1>4 DEF Signed, LineAt
  <2> HIDE DEF d, s
  <2>6. s \in Seq(Entries) /\ Len(s) = 1 /\ s[1] = d BY <2>2, <2>5
  <2>7. s = Append(none, d) BY <2>5
  <2>8. LinesIn(s) = LineAt(text, i) BY <2>5 DEF LinesIn
  <2> HIDE DEF none
  <2>9. Select(s, OfSigns(signs)) = IF d \in OfSigns(signs) THEN Append(none, d) ELSE none
    <3>1. \A S : Select(Append(none, d), S)
                   = IF d \in S THEN Append(Select(none, S), d) ELSE Select(none, S)
      BY <1>1, <2>2, SelectMore
    <3>2. Select(Append(none, d), OfSigns(signs))
            = IF d \in OfSigns(signs) THEN Append(Select(none, OfSigns(signs)), d)
              ELSE Select(none, OfSigns(signs))
      BY <3>1
    <3> QED BY <1>2, <2>7, <3>2
  <2>10. Select(s, OfSigns(signs)) = IF sign \in signs THEN s ELSE none BY <2>3, <2>7, <2>9
  <2> QED BY <1>4, <2>6, <2>8, <2>10 DEF s, none
<1> QED BY <1>3, <1>4

\* What one place of the two texts adds to a diff, by the signs that are read.
ShownAt(i) ==
  /\ Shown(i) \in Seq(Entries)
  /\ Near(i) => /\ LinesIn(Select(Shown(i), OfSigns({"same", "gone"}))) = LineAt(call.from, i)
                /\ LinesIn(Select(Shown(i), OfSigns({"same", "new"}))) = LineAt(call.to, i)
  /\ Len(Select(Shown(i), OfSigns({"gone"})))
       = (IF Changed(i) /\ i <= Len(call.from) THEN 1 ELSE 0)
  /\ Len(Select(Shown(i), OfSigns({"new"})))
       = (IF Changed(i) /\ i <= Len(call.to) THEN 1 ELSE 0)

LEMMA ShownFacts ==
  ASSUME NEW i \in Nat \ {0}, call.from \in Seq(Lines), call.to \in Seq(Lines),
         Changed(i) => Near(i)
  PROVE  ShownAt(i)
<1> DEFINE none == <<>>
           same == Signed("same", call.from, i)
           gone == Signed("gone", call.from, i)
           new == Signed("new", call.to, i)
<1>1. /\ none \in Seq(Entries) /\ Len(none) = 0
      /\ \A S : Select(none, S) = none
  BY SelectNone
<1>2. /\ same \in Seq(Entries) /\ LinesIn(same) = LineAt(call.from, i)
      /\ \A signs : Select(same, OfSigns(signs)) = IF "same" \in signs THEN same ELSE none
  BY SignedFacts DEF Signs
<1>3. /\ gone \in Seq(Entries) /\ LinesIn(gone) = LineAt(call.from, i)
      /\ Len(gone) = (IF i <= Len(call.from) THEN 1 ELSE 0)
      /\ \A signs : Select(gone, OfSigns(signs)) = IF "gone" \in signs THEN gone ELSE none
  <2>1. /\ gone \in Seq(Entries) /\ LinesIn(gone) = LineAt(call.from, i)
        /\ Len(gone) = (IF i <= Len(call.from) THEN 1 ELSE 0)
    BY SignedFacts DEF Signs
  <2>2. \A signs : Select(gone, OfSigns(signs)) = IF "gone" \in signs THEN gone ELSE none
    BY SignedFacts DEF Signs
  <2> QED BY <2>1, <2>2
<1>4. /\ new \in Seq(Entries) /\ LinesIn(new) = LineAt(call.to, i)
      /\ Len(new) = (IF i <= Len(call.to) THEN 1 ELSE 0)
      /\ \A signs : Select(new, OfSigns(signs)) = IF "new" \in signs THEN new ELSE none
  <2>1. /\ new \in Seq(Entries) /\ LinesIn(new) = LineAt(call.to, i)
        /\ Len(new) = (IF i <= Len(call.to) THEN 1 ELSE 0)
    BY SignedFacts DEF Signs
  <2>2. \A signs : Select(new, OfSigns(signs)) = IF "new" \in signs THEN new ELSE none
    BY SignedFacts DEF Signs
  <2> QED BY <2>1, <2>2
<1>5. Shown(i) = IF ~Near(i) THEN none ELSE IF ~Changed(i) THEN same ELSE gone \o new
  BY DEF Shown
<1>6. /\ gone \o new \in Seq(Entries)
      /\ \A S : Select(gone \o new, S) = Select(gone, S) \o Select(new, S)
  <2> HIDE DEF gone, new
  <2> QED BY <1>3, <1>4, SelectConcat
<1>7. gone \o none = gone /\ none \o new = new BY <1>3, <1>4, ConcatEmptySeq
<1> HIDE DEF none, same, gone, new
<1>8. CASE ~Near(i) BY <1>1, <1>5, <1>8 DEF ShownAt
<1>9. CASE Near(i) /\ ~Changed(i)
  <2>1. Shown(i) = same BY <1>5, <1>9
  <2>2. LineAt(call.from, i) = LineAt(call.to, i) BY <1>9 DEF Changed
  <2>3. /\ Select(same, OfSigns({"same", "gone"})) = same
        /\ Select(same, OfSigns({"same", "new"})) = same
        /\ Select(same, OfSigns({"gone"})) = none
        /\ Select(same, OfSigns({"new"})) = none
    BY <1>2
  <2> QED BY <1>1, <1>2, <1>9, <2>1, <2>2, <2>3 DEF ShownAt
<1>10. CASE Near(i) /\ Changed(i)
  <2>1. Shown(i) = gone \o new BY <1>5, <1>10
  <2>2. /\ Select(gone, OfSigns({"same", "gone"})) = gone
        /\ Select(gone, OfSigns({"same", "new"})) = none
        /\ Select(gone, OfSigns({"gone"})) = gone
        /\ Select(gone, OfSigns({"new"})) = none
    BY <1>3
  <2>3. /\ Select(new, OfSigns({"same", "gone"})) = none
        /\ Select(new, OfSigns({"same", "new"})) = new
        /\ Select(new, OfSigns({"gone"})) = none
        /\ Select(new, OfSigns({"new"})) = new
    BY <1>4
  <2>4. /\ Select(gone \o new, OfSigns({"same", "gone"})) = gone
        /\ Select(gone \o new, OfSigns({"same", "new"})) = new
        /\ Select(gone \o new, OfSigns({"gone"})) = gone
        /\ Select(gone \o new, OfSigns({"new"})) = new
    BY <1>6, <1>7, <2>2, <2>3
  <2> QED BY <1>3, <1>4, <1>6, <1>10, <2>1, <2>4 DEF ShownAt
<1> QED BY <1>8, <1>9, <1>10

\* A diff of the first i places: what can be read back from it.
TellsUpTo(d, i) ==
  /\ d \in Seq(Entries)
  /\ call.context = <<>> =>
       /\ LinesIn(Select(d, OfSigns({"same", "gone"}))) = UpTo(call.from, i)
       /\ LinesIn(Select(d, OfSigns({"same", "new"}))) = UpTo(call.to, i)
  /\ Len(Select(d, OfSigns({"gone"}))) = Cardinality(ChangedUpTo(call.from, i))
  /\ Len(Select(d, OfSigns({"new"}))) = Cardinality(ChangedUpTo(call.to, i))

LEMMA NothingTold ==
  ASSUME call.from \in Seq(Lines), call.to \in Seq(Lines)
  PROVE  TellsUpTo(<<>>, 0)
<1> DEFINE none == <<>>
<1>1. none \in Seq(Entries) /\ Len(none) = 0 /\ LinesIn(none) = none BY DEF LinesIn
<1>2. \A S : Select(none, S) = none BY SelectNone
<1>3. /\ UpTo(call.from, 0) = none /\ UpTo(call.to, 0) = none
      /\ Cardinality(ChangedUpTo(call.from, 0)) = 0 /\ Cardinality(ChangedUpTo(call.to, 0)) = 0
  BY UpToFacts, ChangedUpToFacts
<1> HIDE DEF none
<1>4. TellsUpTo(none, 0) BY <1>1, <1>2, <1>3 DEF TellsUpTo
<1> QED BY <1>4 DEF none

LEMMA OneMorePlace ==
  ASSUME NEW i \in Nat, NEW d, TellsUpTo(d, i), ShownAt(i + 1),
         call.from \in Seq(Lines), call.to \in Seq(Lines)
  PROVE  TellsUpTo(d \o Shown(i + 1), i + 1)
<1> DEFINE e == Shown(i + 1)
<1>1. d \in Seq(Entries) /\ e \in Seq(Entries) BY DEF TellsUpTo, ShownAt
<1>2. call.context = <<>> => Near(i + 1) BY DEF Near
<1> HIDE DEF e
<1>3. d \o e \in Seq(Entries) BY <1>1
<1>4. ASSUME NEW S
      PROVE  /\ Select(d \o e, S) = Select(d, S) \o Select(e, S)
             /\ Select(d, S) \in Seq(Entries) /\ Select(e, S) \in Seq(Entries)
             /\ LinesIn(Select(d \o e, S)) = LinesIn(Select(d, S)) \o LinesIn(Select(e, S))
             /\ Len(Select(d \o e, S)) = Len(Select(d, S)) + Len(Select(e, S))
  <2>1. Select(d \o e, S) = Select(d, S) \o Select(e, S) BY <1>1, SelectConcat
  <2>2. Select(d, S) \in Seq(Entries) /\ Select(e, S) \in Seq(Entries)
    BY <1>1, SelectFacts DEF SelectionOf
  <2>3. LinesIn(Select(d, S) \o Select(e, S)) = LinesIn(Select(d, S)) \o LinesIn(Select(e, S))
    BY <2>2, LinesInFacts
  <2>4. Len(Select(d, S) \o Select(e, S)) = Len(Select(d, S)) + Len(Select(e, S))
    BY <2>2, ConcatProperties
  <2> QED BY <2>1, <2>2, <2>3, <2>4
<1>5. ASSUME call.context = <<>>
      PROVE  /\ LinesIn(Select(d \o e, OfSigns({"same", "gone"}))) = UpTo(call.from, i + 1)
             /\ LinesIn(Select(d \o e, OfSigns({"same", "new"}))) = UpTo(call.to, i + 1)
  <2>1. /\ LinesIn(Select(d, OfSigns({"same", "gone"}))) = UpTo(call.from, i)
        /\ LinesIn(Select(d, OfSigns({"same", "new"}))) = UpTo(call.to, i)
    BY <1>5 DEF TellsUpTo
  <2>2. /\ LinesIn(Select(e, OfSigns({"same", "gone"}))) = LineAt(call.from, i + 1)
        /\ LinesIn(Select(e, OfSigns({"same", "new"}))) = LineAt(call.to, i + 1)
    BY <1>2, <1>5 DEF ShownAt, e
  <2>3. /\ UpTo(call.from, i) \o LineAt(call.from, i + 1) = UpTo(call.from, i + 1)
        /\ UpTo(call.to, i) \o LineAt(call.to, i + 1) = UpTo(call.to, i + 1)
    BY UpToFacts
  <2> QED BY <1>4, <2>1, <2>2, <2>3
<1>6. Len(Select(d \o e, OfSigns({"gone"}))) = Cardinality(ChangedUpTo(call.from, i + 1))
  <2>1. Len(Select(d, OfSigns({"gone"}))) = Cardinality(ChangedUpTo(call.from, i))
    BY DEF TellsUpTo
  <2>2. Len(Select(e, OfSigns({"gone"})))
          = (IF Changed(i + 1) /\ i + 1 <= Len(call.from) THEN 1 ELSE 0)
    BY DEF ShownAt, e
  <2>3. Cardinality(ChangedUpTo(call.from, i + 1))
          = Cardinality(ChangedUpTo(call.from, i))
            + (IF Changed(i + 1) /\ i + 1 <= Len(call.from) THEN 1 ELSE 0)
    BY ChangedUpToFacts
  <2> QED BY <1>4, <2>1, <2>2, <2>3
<1>7. Len(Select(d \o e, OfSigns({"new"}))) = Cardinality(ChangedUpTo(call.to, i + 1))
  <2>1. Len(Select(d, OfSigns({"new"}))) = Cardinality(ChangedUpTo(call.to, i))
    BY DEF TellsUpTo
  <2>2. Len(Select(e, OfSigns({"new"})))
          = (IF Changed(i + 1) /\ i + 1 <= Len(call.to) THEN 1 ELSE 0)
    BY DEF ShownAt, e
  <2>3. Cardinality(ChangedUpTo(call.to, i + 1))
          = Cardinality(ChangedUpTo(call.to, i))
            + (IF Changed(i + 1) /\ i + 1 <= Len(call.to) THEN 1 ELSE 0)
    BY ChangedUpToFacts
  <2> QED BY <1>4, <2>1, <2>2, <2>3
<1>8. TellsUpTo(d \o e, i + 1) BY <1>3, <1>5, <1>6, <1>7 DEF TellsUpTo
<1> QED BY <1>8 DEF e

\* A line that changed is shown whatever the context.
LEMMA ChangedIsNear ==
  ASSUME NEW i \in Nat \ {0}, call.from \in Seq(Lines), call.to \in Seq(Lines),
         call.context \in Contexts, Changed(i)
  PROVE  Near(i)
<1>1. Len(call.from) \in Nat /\ Len(call.to) \in Nat OBVIOUS
<1>2. i <= Len(call.from) \/ i <= Len(call.to) BY <1>1 DEF Changed, LineAt
<1>3. i \in 1..LineCount BY <1>1, <1>2 DEF LineCount
<1>4. CASE call.context # <<>>
  <2>1. call.context[1] \in Nat
    <3>1. PICK n \in ContextLines : call.context = <<n>> BY <1>4 DEF Contexts
    <3> QED BY <3>1, BoundsAssumption
  <2>2. i - i <= call.context[1] BY <2>1
  <2>3. \E c \in 1..LineCount :
           Changed(c) /\ (IF c >= i THEN c - i ELSE i - c) <= call.context[1]
    BY <1>3, <2>2
  <2> QED BY <2>3 DEF Near
<1> QED BY <1>4 DEF Near

LEMMA DiffTells ==
  ASSUME call.from \in Seq(Lines), call.to \in Seq(Lines),
         call.context \in Contexts, call.from # call.to
  PROVE  TellsUpTo(DiffLines, LineCount)
<1> DEFINE n == LineCount
           s == [i \in 1..n |-> Shown(i)]
<1>1. n \in Nat \ {0}
  <2>1. Len(call.from) \in Nat /\ Len(call.to) \in Nat OBVIOUS
  <2>2. Len(call.from) > 0 \/ Len(call.to) > 0 BY EmptySeq
  <2> QED BY <2>1, <2>2 DEF LineCount
<1>2. \A i \in Nat \ {0} : ShownAt(i) BY ChangedIsNear, ShownFacts
<1>3. \A i \in 1..n : s[i] = Shown(i) OBVIOUS
<1>4. Len(s) = n
  <2>1. \A i \in 1..n : Shown(i) \in Seq(Entries) BY <1>1, <1>2 DEF ShownAt
  <2> HIDE DEF n
  <2>2. s \in Seq(Seq(Entries)) /\ DOMAIN s = 1..n BY <1>1, <2>1
  <2> QED BY <1>1, <2>2
<1>5. DiffLines = FlattenSeq(s) BY DEF DiffLines
<1> HIDE DEF n, s
<1>6. PICK F : /\ F[1] = s[1]
               /\ \A i \in 1..(n - 1) : F[i + 1] = F[i] \o s[i + 1]
               /\ FlattenSeq(s) = F[n]
  BY <1>1, <1>4, FlattenFacts
<1> DEFINE T == {i \in Nat : i \in 1..n => TellsUpTo(F[i], i)}
<1>7. 0 \in T OBVIOUS
<1>8. ASSUME NEW i \in Nat, i \in T PROVE i + 1 \in T
  <2>1. CASE i = 0
    <3>1. ShownAt(1) BY <1>2
    <3>2. TellsUpTo(<<>> \o Shown(1), 1)
      <4>1. 0 \in Nat /\ 0 + 1 = 1 OBVIOUS
      <4> QED BY <3>1, <4>1, NothingTold, OneMorePlace
    <3>3. <<>> \o Shown(1) = Shown(1) BY <3>1, ConcatEmptySeq DEF ShownAt
    <3>4. 1 \in 1..n => TellsUpTo(F[1], 1) BY <1>3, <1>6, <3>2, <3>3
    <3> QED BY <2>1, <3>4
  <2>2. CASE i # 0 /\ i + 1 \in 1..n
    <3>1. i \in 1..(n - 1) /\ i \in 1..n BY <1>1, <2>2
    <3>2. TellsUpTo(F[i], i) BY <1>8, <3>1
    <3>3. ShownAt(i + 1) BY <1>2
    <3>4. TellsUpTo(F[i] \o Shown(i + 1), i + 1) BY <3>2, <3>3, OneMorePlace
    <3>5. F[i + 1] = F[i] \o Shown(i + 1) BY <1>3, <1>6, <2>2, <3>1
    <3>6. TellsUpTo(F[i + 1], i + 1) BY <3>4, <3>5, Zenon
    <3> QED BY <3>6
  <2> QED BY <2>1, <2>2
<1>9. \A i \in Nat : i \in T
  <2> HIDE DEF T
  <2> QED BY <1>7, <1>8, Inductive
<1>10. TellsUpTo(F[n], n) BY <1>1, <1>9
<1> QED BY <1>5, <1>6, <1>10 DEF n

\* What a diff that was answered holds.
DiffInv ==
  call.op = "diff" =>
    /\ call \in Diffs
    /\ pc = "done" /\ outcome.status = "ok" =>
         outcome.diff = DiffLines /\ outcome.has_changes = (call.from # call.to)

LEMMA DiffStarts == Init => DiffInv
<1> SUFFICES ASSUME Init, call.op = "diff" PROVE DiffInv BY DEF DiffInv
<1>1. call \in Diffs BY DEF Init, Walks, Searches, Uploads, Writes, Views
<1>2. pc # "done" BY DEF Init
<1> QED BY <1>1, <1>2 DEF DiffInv

LEMMA DiffStep ==
  ASSUME OnCourse, DiffInv, [Next]_vars
  PROVE  DiffInv'
<1>1. call' = call
  BY DEF Next, Answered, WalkUsers, WalkTree, SearchAnswers, SearchFails, Diff, ReadTitle,
         ReadViews, SingleWrite, AddLabel, ReadLabels, Upload, ReadFails, Others,
         SomethingAdded, SomethingRemoved, OthersWrite, vars
<1>2. DiffLines' = DiffLines
  BY <1>1 DEF DiffLines, Shown, LineCount, Near, Changed, LineAt, Signed
<1> SUFFICES ASSUME call.op = "diff" PROVE DiffInv' BY <1>1 DEF DiffInv
<1>3. pc \in {"diff", "done"} BY DEF OnCourse
<1>4. CASE Diff
  <2>1. CASE Answer([status |-> "ok", diff |-> DiffLines, has_changes |-> call.from # call.to])
    BY <1>1, <1>2, <2>1 DEF Answer, DiffInv
  <2>2. CASE Answer(Error("upstream"))
    <3>1. outcome'.status # "ok" BY <2>2 DEF Answer, Error
    <3> QED BY <1>1, <3>1 DEF DiffInv
  <2> QED BY <1>4, <2>1, <2>2 DEF Diff
<1>5. CASE UNCHANGED <<pc, outcome>> BY <1>1, <1>2, <1>5 DEF DiffInv
<1>6. Others => UNCHANGED <<pc, outcome>>
  BY DEF Others, SomethingAdded, SomethingRemoved, OthersWrite, Change
<1>7. ~(WalkUsers \/ WalkTree \/ SearchAnswers \/ SearchFails \/ ReadTitle \/ ReadViews
        \/ SingleWrite \/ AddLabel \/ ReadLabels \/ Upload \/ ReadFails)
  BY <1>3 DEF WalkUsers, WalkTree, SearchAnswers, SearchFails, ReadTitle, ReadViews,
              SingleWrite, AddLabel, ReadLabels, Upload, ReadFails
<1>8. UNCHANGED vars => UNCHANGED <<pc, outcome>> BY DEF vars
<1> QED BY <1>4, <1>5, <1>6, <1>7, <1>8 DEF Next, Answered

LEMMA DiffSafe == ASSUME DiffInv PROVE DiffComplete
<1> SUFFICES ASSUME Done("diff") PROVE DiffComplete BY DEF DiffComplete
<1> DEFINE texts(ds) == [i \in DOMAIN ds |-> ds[i].line]
           changed(text) == {i \in DOMAIN text : Changed(i)}
           of(signs) == Select(outcome.diff, [sign : signs, line : Lines])
<1>1. /\ call \in Diffs /\ outcome.diff = DiffLines
      /\ outcome.has_changes = (call.from # call.to)
  BY DEF Done, DiffInv
<1>2. call.from \in Seq(Lines) /\ call.to \in Seq(Lines)
  <2>1. \A t \in Texts : t \in Seq(Lines)
    <3> SUFFICES ASSUME NEW t \in Texts PROVE t \in Seq(Lines) OBVIOUS
    <3>1. t \in Seq(Range(t)) BY SetsAssumption
    <3>2. Range(t) \subseteq Lines BY DEF Lines
    <3> QED BY <3>1, <3>2
  <2>2. call.from \in Texts /\ call.to \in Texts BY <1>1 DEF Diffs
  <2> QED BY <2>1, <2>2
<1>3. call.context \in Contexts BY <1>1 DEF Diffs
<1> HIDE DEF changed, texts, of
<1>4. CASE call.from = call.to
  <2> DEFINE none == <<>>
  <2>1. outcome.diff = none /\ ~outcome.has_changes BY <1>1, <1>4 DEF DiffLines
  <2>2. \A S : Select(none, S) = none /\ Len(none) = 0 BY SelectNone
  <2>3. changed(call.from) = {} /\ changed(call.to) = {} BY <1>4 DEF changed, Changed
  <2> HIDE DEF none
  <2>4. \A signs : Len(of(signs)) = 0 BY <2>1, <2>2 DEF of
  <2>5. Cardinality(changed(call.from)) = 0 /\ Cardinality(changed(call.to)) = 0
    BY <2>3, FS_EmptySet
  <2>6. /\ Len(of({"gone"})) = Cardinality(changed(call.from))
        /\ Len(of({"new"})) = Cardinality(changed(call.to))
    BY <2>4, <2>5
  <2> QED BY <2>1, <2>6 DEF DiffComplete, of, changed
<1>5. CASE call.from # call.to
  <2>1. TellsUpTo(outcome.diff, LineCount) BY <1>1, <1>2, <1>3, <1>5, DiffTells
  <2>2. LineCount \in Nat /\ LineCount >= Len(call.from) /\ LineCount >= Len(call.to)
    <3>1. Len(call.from) \in Nat /\ Len(call.to) \in Nat BY <1>2
    <3> QED BY <3>1 DEF LineCount
  <2>3. /\ UpTo(call.from, LineCount) = call.from /\ UpTo(call.to, LineCount) = call.to
        /\ ChangedUpTo(call.from, LineCount) = changed(call.from)
        /\ ChangedUpTo(call.to, LineCount) = changed(call.to)
    BY <1>2, <2>2, UpToFacts, ChangedUpToFacts DEF changed
  <2>4. /\ Len(of({"gone"})) = Cardinality(changed(call.from))
        /\ Len(of({"new"})) = Cardinality(changed(call.to))
    BY <2>1, <2>3 DEF TellsUpTo, OfSigns, of
  <2>5. call.context = <<>> =>
          /\ texts(of({"same", "gone"})) = call.from
          /\ texts(of({"same", "new"})) = call.to
    BY <2>1, <2>3 DEF TellsUpTo, OfSigns, LinesIn, texts, of
  <2> QED BY <2>4, <2>5 DEF DiffComplete, of, changed, texts
<1> QED BY <1>4, <1>5

\* confluence_unified_diff, for any two texts: without context lines both can be read back
\* from the diff, and with or without them every line that changed is in it, once.
THEOREM DiffTrue == Spec => []DiffComplete
<1>1. Init => WriteInv /\ DiffInv BY WriteStarts, DiffStarts
<1>2. WriteInv /\ DiffInv /\ [Next]_vars => (WriteInv /\ DiffInv)'
  BY WriteStep, DiffStep DEF WriteInv
<1>3. DiffInv => DiffComplete BY DiffSafe
<1> QED BY <1>1, <1>2, <1>3, PTL DEF Spec
=============================================================================
