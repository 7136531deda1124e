---------------------------- MODULE CatalogProofs ----------------------------
(***************************************************************************)
(* Theorems about RegistryCatalog, for any objects, contents, shipped files *)
(* and any number of callers, proposals and operations.                     *)
(***************************************************************************)
EXTENDS RegistryCatalog, TLAPS

-----------------------------------------------------------------------------
(* The types *)

Drafts == Contents \cup {NoContent}
Bodies == Drafts \cup {Torn(x) : x \in Contents} \cup {ConfigFiles[o] : o \in Objects}
Named == Objects \cup {NoObject}
Trees == {"config", "data"}
Rows == [digest : Bodies, source : Trees \cup {"none"}, trust : TrustStatuses \cup {"none"}]

Publishing == {"pub_write", "pub_copy", "pub_copied", "pub_index", "pub_mark"}
Reviewing == {"pub_check", "pub_verify", "pub_parse", "pub_read"}
Revising == {"upd_write", "upd_unlink", "upd_record", "rej_record"}
Reindexing == {"rx_next", "rx_upsert"}
Places == Publishing \cup Reviewing \cup Revising \cup Reindexing \cup Readers \cup {"idle"}

CallShapes == [pc : Places, object : Named, content : Bodies, proposal : Proposals \cup {"none"},
               digest : Bodies, old : Named, source : Trees \cup {"none"},
               todo : SUBSET (Trees \X Objects), pending : [Objects -> Rows],
               wasBlocked : BOOLEAN]

\* A call that is about a content, a proposal or an object has one.
Calls ==
    {r \in CallShapes :
        /\ r.pc \in Publishing \cup (Revising \ {"rej_record"}) => r.content \in Contents
        /\ r.pc \in Reviewing \cup Revising => r.proposal \in Proposals
        /\ r.pc \in Readers \cup Reviewing \cup (Revising \ {"rej_record"}) => r.object \in Objects}

Kinds == {NoObject.kind} \cup {o.kind : o \in Objects}
ProposalRows == [status : {"none", "draft", "rejected", "published"}, kind : Kinds,
                 object : Named, digest : Drafts, published : Bodies]

\* Every variable has its type; a draft is of an object.
CatalogTypeOK ==
    /\ data \in [Objects -> Bodies]
    /\ rows \in [Objects -> Rows]
    /\ proposals \in [Proposals -> ProposalRows]
    /\ drafts \in [Proposals -> [Objects -> Drafts]]
    /\ lock \in Callers \cup {"none"}
    /\ call \in [Callers -> Calls]
    /\ ruling \in [Objects -> TrustStatuses \cup {"none"}]
    /\ clean \in BOOLEAN
    /\ \A p \in Proposals : proposals[p].status = "draft" => proposals[p].object \in Objects

-----------------------------------------------------------------------------
(* The inductive invariants *)

\* What a reindex is about to write keeps the trust of the rows that are there,
\* because it holds the lock from the first such row on.
PendingKeepsTrust ==
    \A c \in Callers, o \in Objects : call[c].pending[o] # NoRow =>
        /\ call[c].pc \in Reindexing
        /\ lock = c
        /\ rows[o] # NoRow => call[c].pending[o].trust = rows[o].trust

\* A reader of a blocked object has not got past its row.
BlockedAreStopped ==
    \A c \in Callers : call[c].wasBlocked =>
        /\ call[c].pc \in {"read_row", "search_row"}
        /\ call[c].object \in Objects
        /\ Blocked(call[c].object)

TrustInv ==
    /\ CatalogTypeOK
    /\ OperatorRulingStands
    /\ PendingKeepsTrust
    /\ BlockedAreStopped

OneWriter == \A c, d \in Callers : Writing(c) /\ Writing(d) => c = d

\* What is on its way to the tree has been reviewed, or it has slipped into the
\* draft after the check of its digest.
Reviewed == named \cup slipped
ReviewedByThen(c) ==
    /\ call[c].pc \in Reviewing => call[c].digest \in named \cap Contents
    /\ call[c].pc \in {"pub_verify", "pub_parse", "pub_read"} =>
          DraftOf(c) \in Reviewed \cup {NoContent}
    /\ call[c].pc = "pub_read" => call[c].old \in Objects
    /\ call[c].pc \in Publishing => call[c].content \in Reviewed /\ call[c].object \in Objects

OnlyReviewedOnTheWay == \A c \in Callers : ReviewedByThen(c)

ReviewInv ==
    /\ CatalogTypeOK
    /\ OnlyReviewedOnTheWay
    /\ OnlyReviewedLands

\* The file a row is about: a file of the data tree hides the shipped one.
FileOf(o) == IF data[o] # NoContent THEN data[o] ELSE ConfigFiles[o]
Agrees(o) == rows[o] # NoRow /\ FileOf(o) # NoContent => rows[o].digest = FileOf(o)

\* Where a reindex is: the shipped files come first, and what it has passed is
\* what it will write.
WillWrite(c, o, x) ==
    x # NoContent => call[c].pending[o] # NoRow /\ call[c].pending[o].digest = x
AtUpsert(c, tree, o) ==
    call[c].pc = "rx_upsert" /\ call[c].source = tree /\ call[c].object = o
Passed(c, tree, o) == <<tree, o>> \notin call[c].todo /\ ~AtUpsert(c, tree, o)

ReindexProgress(c) ==
    /\ \A o, q \in Objects : <<"config", o>> \in call[c].todo => <<"data", q>> \in call[c].todo
    /\ call[c].pc = "rx_upsert" =>
          /\ call[c].object \in Objects /\ call[c].source \in Trees
          /\ <<call[c].source, call[c].object>> \notin call[c].todo
          /\ call[c].content # NoContent
          /\ call[c].content = FileAt(<<call[c].source, call[c].object>>)
          /\ call[c].source = "config" => \A q \in Objects : <<"data", q>> \in call[c].todo
    /\ \A o \in Objects :
          /\ Passed(c, "data", o) => WillWrite(c, o, FileOf(o))
          /\ Passed(c, "config", o) /\ ~Passed(c, "data", o) => WillWrite(c, o, ConfigFiles[o])

\* While only AWF's completed operations have touched the tree, every row agrees
\* with its file but that of the object being published, and a reindex is on its
\* way to such rows.
Rewriting(c, o) ==
    call[c].pc \in {"pub_copy", "pub_copied", "pub_index"} /\ call[c].object = o
OthersAgree == \A o \in Objects : Agrees(o) \/ \E c \in Callers : Rewriting(c, o)
OnTheWay(c) ==
    /\ call[c].pc = "pub_index" => data[call[c].object] = call[c].content
    /\ call[c].pc \in Reindexing => ReindexProgress(c)

RowsAgree ==
    clean => /\ (\A c \in Callers : call[c].pc \notin Reindexing) => OthersAgree
             /\ \A c \in Callers : OnTheWay(c)

IndexInv ==
    /\ ReviewInv
    /\ clean => OneWriter
    /\ RowsAgree

-----------------------------------------------------------------------------
(* What one caller does *)

OnlyThisCall(c) ==
    /\ call' \in [Callers -> Calls]
    /\ \A d \in Callers : d # c => call'[d] = call[d]

\* An operation begins: nothing but its call is there of it yet.
Begun(c) ==
    /\ OnlyThisCall(c)
    /\ call'[c].pending = NoCall.pending
    /\ UNCHANGED <<data, drafts, rows, proposals, lock, ruling>>

-----------------------------------------------------------------------------
(* Operators *)

\* What a row, a proposal and a call are at first.
LEMMA Nothing ==
    /\ NoRow \in Rows /\ NoRow.trust = "none"
    /\ NoProposal \in ProposalRows /\ NoProposal.status = "none"
    /\ NoCall \in Calls
    /\ NoCall.pc = "idle" /\ ~NoCall.wasBlocked
    /\ \A o \in Objects : NoCall.pending[o] = NoRow
  <1>1. NoRow \in Rows /\ NoRow.trust = "none"
    BY DEF NoRow, Rows, Bodies, Drafts
  <1>2. NoProposal \in ProposalRows /\ NoProposal.status = "none"
    BY DEF NoProposal, ProposalRows, Kinds, Named, Drafts, Bodies, NoObject
  <1>3. /\ [o \in Objects |-> NoRow] \in [Objects -> Rows]
        /\ NoContent \in Bodies /\ NoObject \in Named
    BY <1>1 DEF Bodies, Drafts, Named
  <1>4. NoCall \in CallShapes
    BY <1>3 DEF NoCall, CallShapes, Places
  <1>5. /\ NoCall.pc = "idle" /\ ~NoCall.wasBlocked
        /\ NoCall.pending = [o \in Objects |-> NoRow]
    BY DEF NoCall
  <1> QED
    BY <1>1, <1>2, <1>4, <1>5 DEF Calls, Publishing, Reviewing, Revising, Readers

\* The fields of a call.
LEMMA CallFields ==
    ASSUME CatalogTypeOK, NEW c \in Callers
    PROVE  /\ call[c] \in Calls
           /\ call[c].pc \in Places
           /\ call[c].object \in Named /\ call[c].old \in Named
           /\ call[c].content \in Bodies /\ call[c].digest \in Bodies
           /\ call[c].proposal \in Proposals \cup {"none"}
           /\ call[c].source \in Trees \cup {"none"}
           /\ call[c].todo \subseteq Trees \X Objects
           /\ call[c].pending \in [Objects -> Rows]
           /\ call[c].wasBlocked \in BOOLEAN
           /\ call[c].pc \in Publishing \cup (Revising \ {"rej_record"}) => call[c].content \in Contents
           /\ call[c].pc \in Reviewing \cup Revising => call[c].proposal \in Proposals
           /\ call[c].pc \in Readers \cup Reviewing \cup (Revising \ {"rej_record"}) =>
                 call[c].object \in Objects
  <1>1. call[c] \in Calls
    BY DEF CatalogTypeOK
  <1>2. call[c] \in CallShapes
    BY <1>1 DEF Calls
  <1> QED
    BY <1>1, <1>2 DEF Calls, CallShapes

\* One call changes.
LEMMA CallBecomes ==
    ASSUME CatalogTypeOK, NEW c \in Callers, NEW r \in Calls,
           call' = [call EXCEPT ![c] = r]
    PROVE  OnlyThisCall(c) /\ call'[c] = r
  BY DEF CatalogTypeOK, OnlyThisCall

\* A call that is over is forgotten.
LEMMA DoneForgets ==
    ASSUME CatalogTypeOK, NEW c \in Callers, Done(c)
    PROVE  OnlyThisCall(c) /\ call'[c] = NoCall
  BY Nothing, CallBecomes DEF Done

\* A call that goes on keeps everything but its place.
LEMMA StepKeeps ==
    ASSUME CatalogTypeOK, NEW c \in Callers, NEW pc \in Places, Step(c, pc),
           pc \in Publishing \cup (Revising \ {"rej_record"}) => call[c].content \in Contents,
           pc \in Reviewing \cup Revising => call[c].proposal \in Proposals,
           pc \in Readers \cup Reviewing \cup (Revising \ {"rej_record"}) => call[c].object \in Objects
    PROVE  /\ OnlyThisCall(c)
           /\ call'[c].pc = pc
           /\ call'[c].object = call[c].object /\ call'[c].content = call[c].content
           /\ call'[c].proposal = call[c].proposal /\ call'[c].digest = call[c].digest
           /\ call'[c].old = call[c].old /\ call'[c].source = call[c].source
           /\ call'[c].todo = call[c].todo /\ call'[c].pending = call[c].pending
           /\ call'[c].wasBlocked = call[c].wasBlocked
  <1> DEFINE r == [call[c] EXCEPT !.pc = pc]
  <1>0. call[c] \in CallShapes
    BY CallFields DEF Calls
  <1>1. /\ r \in CallShapes
        /\ r.pc = pc
        /\ r.object = call[c].object /\ r.content = call[c].content
        /\ r.proposal = call[c].proposal /\ r.digest = call[c].digest
        /\ r.old = call[c].old /\ r.source = call[c].source
        /\ r.todo = call[c].todo /\ r.pending = call[c].pending
        /\ r.wasBlocked = call[c].wasBlocked
    BY <1>0 DEF CallShapes
  <1>2. call' = [call EXCEPT ![c] = r]
    BY DEF Step
  <1> HIDE DEF r
  <1>3. r \in Calls
    BY <1>1 DEF Calls
  <1> QED
    BY <1>1, <1>2, <1>3, CallBecomes

\* What is written is of an object there is.
LEMMA ContentsAreOfObjects ==
    /\ \A x \in Contents : x.object \in Objects /\ x \in Drafts /\ x \in Bodies
    /\ \A x \in Drafts : x.object \in Named /\ x \in Bodies
    /\ \A x \in Contents : Torn(x) \in Bodies
    /\ NoContent \in Bodies
    /\ \A o \in Objects : o \in Named
  BY CatalogAssumption DEF Drafts, Bodies, Named, NoContent

\* What either tree holds is a content.
LEMMA FilesAreBodies ==
    ASSUME CatalogTypeOK, NEW o \in Objects
    PROVE  /\ data[o] \in Bodies /\ ConfigFiles[o] \in Bodies
           /\ \A q \in Objects : TreeOf(q)[o] \in Bodies
  BY CatalogAssumption DEF CatalogTypeOK, TreeOf, Bodies

-----------------------------------------------------------------------------
(* Types: the operations that begin *)

\* What an operation begins with is a call.
LEMMA BeginsACall ==
    ASSUME CatalogTypeOK, NEW c \in Callers,
           \/ StartPublish(c) \/ StartReindex(c) \/ StartResolve(c)
           \/ \E p \in Proposals : \/ StartUpdate(c, p) \/ StartReject(c, p)
                                   \/ \E d \in Contents : StartProposalPublish(c, p, d)
           \/ \E o \in Objects : StartSearch(c, o)
    PROVE  Begun(c)
  <1> USE Nothing, ContentsAreOfObjects DEF Begun
  <1>0. NoCall \in CallShapes
    BY DEF Calls
  <1>1. CASE StartPublish(c)
    <2>1. PICK new \in Contents :
            call' = [call EXCEPT ![c] = [NoCall EXCEPT
                       !.pc = "pub_write", !.object = new.object, !.content = new]]
      BY <1>1 DEF StartPublish
    <2> DEFINE r == [NoCall EXCEPT !.pc = "pub_write", !.object = new.object,
                                   !.content = new]
    <2>2. r \in CallShapes
      BY <1>0 DEF CallShapes, Places, Publishing
    <2>3. r.pc = "pub_write" /\ r.content = new /\ r.pending = NoCall.pending
      BY <1>0 DEF CallShapes
    <2> HIDE DEF r
    <2>4. r \in Calls
      BY <2>2, <2>3 DEF Calls, Reviewing, Revising, Readers
    <2> QED
      BY <1>1, <2>1, <2>3, <2>4, CallBecomes DEF StartPublish, files, db, r
  <1>2. CASE StartReindex(c)
    <2> DEFINE r == [NoCall EXCEPT !.pc = "rx_next", !.todo = Trees \X Objects]
    <2>1. r \in CallShapes /\ r.pc = "rx_next" /\ r.pending = NoCall.pending
      BY <1>0 DEF CallShapes, Places, Reindexing
    <2>2. call' = [call EXCEPT ![c] = r]
      BY <1>2 DEF StartReindex, Trees
    <2> HIDE DEF r
    <2>3. r \in Calls
      BY <2>1 DEF Calls, Publishing, Reviewing, Revising, Readers
    <2> QED
      BY <1>2, <2>1, <2>2, <2>3, CallBecomes DEF StartReindex, files, db
  <1>3. CASE StartResolve(c)
    <2>1. PICK o \in Objects : Reading(c, "read_row", o)
      BY <1>3 DEF StartResolve
    <2> DEFINE r == [NoCall EXCEPT !.pc = "read_row", !.object = o,
                                   !.wasBlocked = Blocked(o)]
    <2>2. Blocked(o) \in BOOLEAN
      BY DEF Blocked
    <2>3. r \in CallShapes /\ r.pc = "read_row" /\ r.pending = NoCall.pending /\ r.object = o
      BY <1>0, <2>2 DEF CallShapes, Places, Readers
    <2>4. call' = [call EXCEPT ![c] = r]
      BY <2>1 DEF Reading
    <2> HIDE DEF r
    <2>5. r \in Calls
      BY <2>3 DEF Calls, Publishing, Reviewing, Revising, Readers
    <2> QED
      BY <1>3, <2>3, <2>4, <2>5, CallBecomes DEF StartResolve, files, db, history
  <1>4. ASSUME NEW p \in Proposals, StartUpdate(c, p)
        PROVE  Begun(c)
    <2>1. PICK new \in Contents :
            call' = [call EXCEPT ![c] = [NoCall EXCEPT
                       !.pc = "upd_write", !.proposal = p, !.object = new.object,
                       !.content = new, !.old = proposals[p].object]]
      BY <1>4 DEF StartUpdate
    <2> DEFINE r == [NoCall EXCEPT !.pc = "upd_write", !.proposal = p,
                       !.object = new.object, !.content = new, !.old = proposals[p].object]
    <2>2. proposals[p].object \in Named
      BY DEF CatalogTypeOK, ProposalRows
    <2>3. r \in CallShapes /\ r.pending = NoCall.pending /\ r.pc = "upd_write"
          /\ r.content = new /\ r.proposal = p /\ r.object = new.object
      BY <1>0, <2>2 DEF CallShapes, Places, Revising
    <2> HIDE DEF r
    <2>4. r \in Calls
      BY <2>3 DEF Calls, Publishing, Reviewing, Readers
    <2> QED
      BY <1>4, <2>1, <2>3, <2>4, CallBecomes DEF StartUpdate, files, db, history, r
  <1>5. ASSUME NEW p \in Proposals, StartReject(c, p)
        PROVE  Begun(c)
    <2> DEFINE r == [NoCall EXCEPT !.pc = "rej_record", !.proposal = p]
    <2>1. r \in CallShapes /\ r.pending = NoCall.pending /\ r.pc = "rej_record"
          /\ r.proposal = p
      BY <1>0 DEF CallShapes, Places, Revising
    <2>2. call' = [call EXCEPT ![c] = r]
      BY <1>5 DEF StartReject
    <2> HIDE DEF r
    <2>3. r \in Calls
      BY <2>1 DEF Calls, Publishing, Reviewing, Readers
    <2> QED
      BY <1>5, <2>1, <2>2, <2>3, CallBecomes DEF StartReject, files, db, history
  <1>6. ASSUME NEW p \in Proposals, NEW digest \in Contents, StartProposalPublish(c, p, digest)
        PROVE  Begun(c)
    <2> DEFINE r == [NoCall EXCEPT !.pc = "pub_check", !.proposal = p, !.digest = digest,
                                   !.object = proposals[p].object]
    <2>1. proposals[p].object \in Objects
      BY <1>6 DEF StartProposalPublish, Got, CatalogTypeOK
    <2>2. r \in CallShapes /\ r.pending = NoCall.pending /\ r.pc = "pub_check"
          /\ r.proposal = p /\ r.object = proposals[p].object
      BY <1>0, <2>1 DEF CallShapes, Places, Reviewing
    <2>3. call' = [call EXCEPT ![c] = r]
      BY <1>6 DEF StartProposalPublish
    <2> HIDE DEF r
    <2>4. r \in Calls
      BY <2>1, <2>2 DEF Calls, Publishing, Revising, Readers
    <2> QED
      BY <1>6, <2>2, <2>3, <2>4, CallBecomes DEF StartProposalPublish, files, db
  <1>7. ASSUME NEW o \in Objects, StartSearch(c, o)
        PROVE  Begun(c)
    <2> DEFINE r == [NoCall EXCEPT !.pc = "search_row", !.object = o,
                       !.content = TreeOf(o)[o], !.wasBlocked = Blocked(o)]
    <2>1. Blocked(o) \in BOOLEAN /\ TreeOf(o)[o] \in Bodies
      BY FilesAreBodies DEF Blocked
    <2>2. r \in CallShapes /\ r.pending = NoCall.pending /\ r.pc = "search_row" /\ r.object = o
      BY <1>0, <2>1 DEF CallShapes, Places, Readers
    <2>3. call' = [call EXCEPT ![c] = r]
      BY <1>7 DEF StartSearch
    <2> HIDE DEF r
    <2>4. r \in Calls
      BY <2>2 DEF Calls, Publishing, Reviewing, Revising, Readers
    <2>5. UNCHANGED <<data, drafts, rows, proposals, lock, ruling>>
      BY <1>7 DEF StartSearch, files, db, history
    <2> QED
      BY <2>2, <2>3, <2>4, <2>5, CallBecomes
  <1> QED
    BY <1>1, <1>2, <1>3, <1>4, <1>5, <1>6, <1>7

-----------------------------------------------------------------------------
(* Types: the operations that go on *)

\* Publishing keeps the types.
LEMMA PublishKeepsTypes ==
    ASSUME CatalogTypeOK, NEW c \in Callers, Publish(c)
    PROVE  CatalogTypeOK' /\ OnlyThisCall(c)
  <1> USE CallFields, ContentsAreOfObjects, StepKeeps, DoneForgets
      DEF Places, Publishing, Reviewing, Revising, Readers, At, db, history, bounds, files
  <1>1. CASE RemoveDirectory(c)
    <2>1. OnlyThisCall(c)
      BY <1>1 DEF RemoveDirectory
    <2>2. data' \in [Objects -> Bodies]
      BY <1>1 DEF RemoveDirectory, CatalogTypeOK
    <2> QED
      BY <1>1, <2>1, <2>2 DEF RemoveDirectory, CatalogTypeOK, OnlyThisCall
  <1>2. CASE CopyPart(c)
    <2>1. OnlyThisCall(c)
      BY <1>2 DEF CopyPart
    <2>2. data' \in [Objects -> Bodies]
      BY <1>2 DEF CopyPart, CatalogTypeOK
    <2> QED
      BY <1>2, <2>1, <2>2 DEF CopyPart, CatalogTypeOK, OnlyThisCall
  <1>3. CASE WriteObject(c)
    <2>1. OnlyThisCall(c)
      BY <1>3 DEF WriteObject
    <2>2. data' \in [Objects -> Bodies]
      BY <1>3 DEF WriteObject, CatalogTypeOK
    <2> QED
      BY <1>3, <2>1, <2>2 DEF WriteObject, CatalogTypeOK, OnlyThisCall
  <1>4. CASE IndexObject(c)
    <2>1. OnlyThisCall(c)
      BY <1>4 DEF IndexObject
    <2>2. ASSUME NEW row \in Rows PROVE PublishedRow(row, call[c].content) \in Rows
      BY <2>2 DEF PublishedRow, Rows, Trees, TrustStatuses
    <2>3. rows' \in [Objects -> Rows]
      BY <1>4, <2>2 DEF IndexObject, CatalogTypeOK
    <2> QED
      BY <1>4, <2>1, <2>3 DEF IndexObject, CatalogTypeOK, OnlyThisCall
  <1> QED
    BY <1>1, <1>2, <1>3, <1>4 DEF Publish

\* Revising and rejecting keep the types.
LEMMA ReviseKeepsTypes ==
    ASSUME CatalogTypeOK, NEW c \in Callers, Revise(c)
    PROVE  CatalogTypeOK' /\ OnlyThisCall(c)
  <1> USE CallFields, ContentsAreOfObjects, StepKeeps, DoneForgets
      DEF Places, Publishing, Reviewing, Revising, Readers, At, db, history, bounds, files
  <1>1. CASE WriteDraft(c)
    <2>1. OnlyThisCall(c)
      BY <1>1 DEF WriteDraft
    <2>2. drafts' \in [Proposals -> [Objects -> Drafts]]
      BY <1>1 DEF WriteDraft, PutDraft, CatalogTypeOK
    <2> QED
      BY <1>1, <2>1, <2>2 DEF WriteDraft, CatalogTypeOK, OnlyThisCall
  <1>2. CASE UnlinkDraft(c)
    <2>1. OnlyThisCall(c)
      BY <1>2 DEF UnlinkDraft
    <2>2. drafts' \in [Proposals -> [Objects -> Drafts]]
      BY <1>2 DEF UnlinkDraft, CatalogTypeOK, Drafts
    <2> QED
      BY <1>2, <2>1, <2>2 DEF UnlinkDraft, CatalogTypeOK, OnlyThisCall
  <1>3. CASE RecordDraft(c)
    <2>1. OnlyThisCall(c)
      BY <1>3 DEF RecordDraft
    <2> DEFINE p == call[c].proposal
               r == [proposals[p] EXCEPT !.object = call[c].object,
                                         !.digest = call[c].content]
    <2>2. /\ p \in Proposals /\ call[c].object \in Objects
          /\ call[c].content \in Drafts
      BY <1>3 DEF RecordDraft
    <2>3. proposals[p] \in ProposalRows
      BY <2>2 DEF CatalogTypeOK
    <2>4. r \in ProposalRows /\ r.object = call[c].object
      BY <2>2, <2>3 DEF ProposalRows
    <2>5. proposals' = [proposals EXCEPT ![p] = r]
      BY <1>3, <2>2 DEF RecordDraft, CatalogTypeOK
    <2> HIDE DEF p, r
    <2>6. /\ proposals' \in [Proposals -> ProposalRows]
          /\ \A q \in Proposals : proposals'[q].status = "draft" =>
                                      proposals'[q].object \in Objects
      BY <2>2, <2>4, <2>5 DEF CatalogTypeOK
    <2> QED
      BY <1>3, <2>1, <2>6 DEF RecordDraft, CatalogTypeOK, OnlyThisCall
  <1>4. CASE RecordRejection(c)
    <2>1. OnlyThisCall(c)
      BY <1>4 DEF RecordRejection
    <2> DEFINE p == call[c].proposal
               r == [proposals[p] EXCEPT !.status = "rejected"]
    <2>2. p \in Proposals
      BY <1>4 DEF RecordRejection
    <2>3. proposals[p] \in ProposalRows
      BY <2>2 DEF CatalogTypeOK
    <2>4. r \in ProposalRows /\ r.status = "rejected"
      BY <2>3 DEF ProposalRows
    <2>5. proposals' = [proposals EXCEPT ![p] = r]
      BY <1>4 DEF RecordRejection
    <2> HIDE DEF p, r
    <2>6. /\ proposals' \in [Proposals -> ProposalRows]
          /\ \A q \in Proposals : proposals'[q].status = "draft" =>
                                      proposals'[q].object \in Objects
      BY <2>2, <2>4, <2>5 DEF CatalogTypeOK
    <2> QED
      BY <1>4, <2>1, <2>6 DEF RecordRejection, CatalogTypeOK, OnlyThisCall
  <1> QED
    BY <1>1, <1>2, <1>3, <1>4 DEF Revise

\* The file under review is a draft.
LEMMA DraftIsADraft ==
    ASSUME CatalogTypeOK, NEW c \in Callers, call[c].pc \in Reviewing
    PROVE  /\ call[c].proposal \in Proposals /\ call[c].object \in Objects
           /\ DraftOf(c) \in Drafts
  BY CallFields DEF CatalogTypeOK, DraftOf, Reviewing

\* A file that is read for its identity: what the call then knows.
LEMMA ParseKeeps ==
    ASSUME CatalogTypeOK, NEW c \in Callers, At(c, "pub_parse"),
           call' = [call EXCEPT ![c].pc = "pub_read", ![c].old = DraftOf(c).object]
    PROVE  /\ OnlyThisCall(c)
           /\ call'[c].pc = "pub_read"
           /\ call'[c].old = DraftOf(c).object
           /\ call'[c].object = call[c].object /\ call'[c].digest = call[c].digest
           /\ call'[c].proposal = call[c].proposal /\ call'[c].pending = call[c].pending
           /\ call'[c].wasBlocked = call[c].wasBlocked
  <1> DEFINE r == [call[c] EXCEPT !.pc = "pub_read", !.old = DraftOf(c).object]
  <1>0. call[c] \in CallShapes /\ DraftOf(c).object \in Named
    BY CallFields, DraftIsADraft, ContentsAreOfObjects DEF Calls, At, Reviewing
  <1>1. /\ r \in CallShapes
        /\ r.pc = "pub_read" /\ r.old = DraftOf(c).object
        /\ r.object = call[c].object /\ r.digest = call[c].digest
        /\ r.proposal = call[c].proposal /\ r.pending = call[c].pending
        /\ r.wasBlocked = call[c].wasBlocked
    BY <1>0 DEF CallShapes, Places, Reviewing
  <1>2. call' = [call EXCEPT ![c] = r]
    BY DEF CatalogTypeOK
  <1> HIDE DEF r
  <1>3. r \in Calls
    BY <1>1, CallFields DEF Calls, At, Publishing, Reviewing, Revising, Readers
  <1> QED
    BY <1>1, <1>2, <1>3, CallBecomes

\* A file that is read for its bytes.
LEMMA ReadKeeps ==
    ASSUME CatalogTypeOK, NEW c \in Callers, At(c, "pub_read"), DraftOf(c) # NoContent,
           call' = [call EXCEPT ![c].pc = "pub_write", ![c].content = DraftOf(c),
                                ![c].object = call[c].old]
    PROVE  /\ OnlyThisCall(c)
           /\ call'[c].pc = "pub_write"
           /\ call'[c].content = DraftOf(c)
           /\ call'[c].object = call[c].old
           /\ call'[c].proposal = call[c].proposal /\ call'[c].pending = call[c].pending
           /\ call'[c].wasBlocked = call[c].wasBlocked
  <1> DEFINE r == [call[c] EXCEPT !.pc = "pub_write", !.content = DraftOf(c),
                                  !.object = call[c].old]
  <1>0. /\ call[c] \in CallShapes /\ call[c].old \in Named
        /\ DraftOf(c) \in Contents /\ DraftOf(c) \in Bodies
    BY CallFields, DraftIsADraft, ContentsAreOfObjects DEF Calls, At, Reviewing, Drafts
  <1>1. /\ r \in CallShapes
        /\ r.pc = "pub_write" /\ r.content = DraftOf(c) /\ r.object = call[c].old
        /\ r.proposal = call[c].proposal /\ r.pending = call[c].pending
        /\ r.wasBlocked = call[c].wasBlocked
    BY <1>0 DEF CallShapes, Places, Publishing
  <1>2. call' = [call EXCEPT ![c] = r]
    BY DEF CatalogTypeOK
  <1> HIDE DEF r
  <1>3. r \in Calls
    BY <1>0, <1>1 DEF Calls, Publishing, Reviewing, Revising, Readers
  <1> QED
    BY <1>1, <1>2, <1>3, CallBecomes

\* Reviewing a proposal for its publication keeps the types.
LEMMA ReviewKeepsTypes ==
    ASSUME CatalogTypeOK, NEW c \in Callers, Review(c)
    PROVE  CatalogTypeOK' /\ OnlyThisCall(c)
  <1>0. ASSUME UNCHANGED <<data, drafts, rows, proposals, lock, ruling, clean>>,
               call' \in [Callers -> Calls]
        PROVE  CatalogTypeOK'
    BY <1>0 DEF CatalogTypeOK
  <1> USE CallFields, StepKeeps, DoneForgets
      DEF Places, Publishing, Reviewing, Revising, Readers, At, db, history, bounds, files
  <1>1. CASE CheckDraft(c)
    <2>1. OnlyThisCall(c)
      BY <1>1 DEF CheckDraft
    <2> QED
      BY <1>1, <2>1 DEF CheckDraft, CatalogTypeOK, OnlyThisCall
  <1>2. CASE VerifyDraft(c)
    <2>1. Step(c, "pub_parse") \/ Done(c)
      BY <1>2 DEF VerifyDraft
    <2>2. OnlyThisCall(c)
      BY <1>2, <2>1 DEF VerifyDraft
    <2> QED
      BY <1>2, <2>2 DEF VerifyDraft, CatalogTypeOK, OnlyThisCall
  <1>3. CASE ParseDraft(c)
    <2>1. OnlyThisCall(c)
      BY <1>3, ParseKeeps DEF ParseDraft
    <2> QED
      BY <1>3, <2>1 DEF ParseDraft, CatalogTypeOK, OnlyThisCall
  <1>4. CASE ReadDraft(c)
    <2>1. OnlyThisCall(c)
      BY <1>4, ReadKeeps DEF ReadDraft
    <2> QED
      BY <1>4, <2>1 DEF ReadDraft, CatalogTypeOK, OnlyThisCall
  <1>5. CASE MarkPublished(c)
    <2>1. OnlyThisCall(c)
      BY <1>5 DEF MarkPublished
    <2>2. CASE proposals' = proposals
      <3>1. UNCHANGED <<data, drafts, rows, lock, ruling, clean>>
        BY <1>5 DEF MarkPublished, files, history
      <3>2. call' \in [Callers -> Calls]
        BY <2>1 DEF OnlyThisCall
      <3> QED
        BY <1>0, <2>1, <2>2, <3>1, <3>2
    <2>3. CASE proposals' # proposals
      <3> DEFINE p == call[c].proposal
                 r == [proposals[p] EXCEPT !.status = "published", !.published = call[c].content]
      <3>1. proposals' = [proposals EXCEPT ![p] = r]
        BY <1>5, <2>3 DEF MarkPublished
      <3>2. p \in Proposals
        BY <2>3, <3>1 DEF CatalogTypeOK
      <3>3. proposals[p] \in ProposalRows /\ call[c].content \in Bodies
        BY <3>2 DEF CatalogTypeOK
      <3>4. r \in ProposalRows /\ r.status = "published"
        BY <3>3 DEF ProposalRows
      <3> HIDE DEF p, r
      <3>5. /\ proposals' \in [Proposals -> ProposalRows]
            /\ \A q \in Proposals : proposals'[q].status = "draft" =>
                                        proposals'[q].object \in Objects
        BY <3>1, <3>2, <3>4 DEF CatalogTypeOK
      <3> QED
        BY <1>5, <2>1, <3>5 DEF MarkPublished, CatalogTypeOK, OnlyThisCall
    <2> QED
      BY <2>2, <2>3
  <1> QED
    BY <1>1, <1>2, <1>3, <1>4, <1>5 DEF Review

\* The next file of a reindex: what the call then knows.
LEMMA DigestKeeps ==
    ASSUME CatalogTypeOK, NEW c \in Callers, ReindexDigest(c)
    PROVE  \E slot \in Phase(call[c].todo) :
             /\ slot \in call[c].todo /\ slot \in Trees \X Objects
             /\ OnlyThisCall(c)
             /\ call'[c].pc = IF FileAt(slot) = NoContent THEN "rx_next" ELSE "rx_upsert"
             /\ call'[c].todo = call[c].todo \ {slot}
             /\ call'[c].content = FileAt(slot)
             /\ call'[c].object = slot[2] /\ call'[c].source = slot[1]
             /\ call'[c].pending = call[c].pending
             /\ call'[c].wasBlocked = call[c].wasBlocked
  <1>1. call[c].todo # {} /\ call[c] \in CallShapes /\ call[c].todo \subseteq Trees \X Objects
    BY CallFields DEF ReindexDigest, Calls
  <1>2. PICK slot \in Phase(call[c].todo) :
          call' = [call EXCEPT
                    ![c].todo = @ \ {slot},
                    ![c].pc = IF FileAt(slot) = NoContent THEN "rx_next" ELSE "rx_upsert",
                    ![c].content = FileAt(slot), ![c].object = slot[2],
                    ![c].source = slot[1]]
    <2>1. (CHOOSE x \in Phase(call[c].todo) : TRUE) \in Phase(call[c].todo)
      BY <1>1 DEF Phase
    <2> QED
      BY <2>1 DEF ReindexDigest
  <1>3. slot \in call[c].todo
    BY <1>2 DEF Phase
  <1>4. /\ slot \in Trees \X Objects
        /\ slot[2] \in Named /\ slot[1] \in Trees /\ FileAt(slot) \in Bodies
    BY <1>1, <1>3, FilesAreBodies, ContentsAreOfObjects DEF FileAt
  <1> DEFINE pc == IF FileAt(slot) = NoContent THEN "rx_next" ELSE "rx_upsert"
             r == [call[c] EXCEPT !.todo = call[c].todo \ {slot}, !.pc = pc,
                                  !.content = FileAt(slot), !.object = slot[2],
                                  !.source = slot[1]]
  <1>5. call' = [call EXCEPT ![c] = r]
    BY <1>2 DEF CatalogTypeOK
  <1>6. pc \in Reindexing
    BY DEF Reindexing
  <1> HIDE DEF pc
  <1>7. /\ r \in CallShapes
        /\ r.pc = pc /\ r.todo = call[c].todo \ {slot}
        /\ r.content = FileAt(slot) /\ r.object = slot[2] /\ r.source = slot[1]
        /\ r.pending = call[c].pending /\ r.wasBlocked = call[c].wasBlocked
    BY <1>1, <1>4, <1>6 DEF CallShapes, Places
  <1> HIDE DEF r
  <1>8. r \in Calls
    BY <1>6, <1>7 DEF Calls, Reindexing, Publishing, Reviewing, Revising, Readers
  <1>9. OnlyThisCall(c) /\ call'[c] = r
    BY <1>5, <1>8, CallBecomes
  <1> QED
    BY <1>2, <1>3, <1>4, <1>7, <1>9 DEF pc

\* The row a reindex will write.
LEMMA UpsertKeeps ==
    ASSUME CatalogTypeOK, NEW c \in Callers, ReindexUpsert(c)
    PROVE  LET o == call[c].object
               row == IF call[c].pending[o] = NoRow THEN rows[o] ELSE call[c].pending[o]
           IN  /\ OnlyThisCall(c)
               /\ call'[c].pc = "rx_next"
               /\ call'[c].pending = [call[c].pending EXCEPT
                                        ![o] = Indexed(row, call[c].content, call[c].source)]
               /\ call'[c].todo = call[c].todo
               /\ call'[c].wasBlocked = call[c].wasBlocked
  <1> DEFINE o == call[c].object
             row == IF call[c].pending[o] = NoRow THEN rows[o] ELSE call[c].pending[o]
             new == Indexed(row, call[c].content, call[c].source)
             r == [call[c] EXCEPT !.pc = "rx_next",
                                  !.pending = [call[c].pending EXCEPT ![o] = new]]
  <1>1. /\ call[c] \in CallShapes
        /\ call[c].pending \in [Objects -> Rows]
        /\ call[c].content \in Bodies /\ call[c].source \in Trees \cup {"none"}
    BY CallFields DEF Calls
  <1>2. call' = [call EXCEPT ![c] = r]
    BY DEF ReindexUpsert, CatalogTypeOK
  <1>3. ASSUME o \in Objects PROVE new \in Rows
    <2>1. row \in Rows
      BY <1>1, <1>3 DEF CatalogTypeOK
    <2> HIDE DEF row
    <2> QED
      BY <1>1, <2>1 DEF Indexed, Rows, DefaultTrust, TrustStatuses
  <1> HIDE DEF new
  <1>4. [call[c].pending EXCEPT ![o] = new] \in [Objects -> Rows]
    BY <1>1, <1>3
  <1>5. /\ r \in CallShapes
        /\ r.pc = "rx_next" /\ r.pending = [call[c].pending EXCEPT ![o] = new]
        /\ r.todo = call[c].todo /\ r.wasBlocked = call[c].wasBlocked
    BY <1>1, <1>4 DEF CallShapes, Places, Reindexing
  <1> HIDE DEF r
  <1>6. r \in Calls
    BY <1>5 DEF Calls, Publishing, Reviewing, Revising, Readers
  <1>7. OnlyThisCall(c) /\ call'[c] = r
    BY <1>2, <1>6, CallBecomes
  <1> QED
    BY <1>5, <1>7 DEF new

\* Reindexing keeps the types.
LEMMA ReindexKeepsTypes ==
    ASSUME CatalogTypeOK, NEW c \in Callers, Reindex(c)
    PROVE  CatalogTypeOK' /\ OnlyThisCall(c)
  <1> USE DEF db, history, bounds, files
  <1>1. CASE ReindexDigest(c)
    <2>1. OnlyThisCall(c)
      BY <1>1, DigestKeeps
    <2> QED
      BY <1>1, <2>1 DEF ReindexDigest, CatalogTypeOK, OnlyThisCall
  <1>2. CASE ReindexUpsert(c)
    <2>1. OnlyThisCall(c)
      BY <1>2, UpsertKeeps
    <2> QED
      BY <1>2, <2>1 DEF ReindexUpsert, CatalogTypeOK, OnlyThisCall
  <1>3. CASE ReindexCommit(c)
    <2>1. OnlyThisCall(c)
      BY <1>3, DoneForgets DEF ReindexCommit
    <2>2. call[c].pending \in [Objects -> Rows]
      BY CallFields
    <2>3. rows' \in [Objects -> Rows]
      BY <1>3, <2>2 DEF ReindexCommit, CatalogTypeOK
    <2> QED
      BY <1>3, <2>1, <2>3 DEF ReindexCommit, Released, CatalogTypeOK, OnlyThisCall
  <1> QED
    BY <1>1, <1>2, <1>3 DEF Reindex

\* What a reader knows once it has looked at the row.
LEMMA RowKeeps ==
    ASSUME CatalogTypeOK, NEW c \in Callers, ResolveRow(c)
    PROVE  /\ OnlyThisCall(c)
           /\ \/ call'[c] = NoCall
              \/ /\ call'[c].pc \in {"read_digest", "read_load"}
                 /\ rows[call[c].object] = NoRow \/ RowAllows(call[c].object)
                 /\ call'[c].wasBlocked = call[c].wasBlocked
                 /\ call'[c].pending = call[c].pending
  <1> DEFINE o == call[c].object
             load == [call[c] EXCEPT !.pc = "read_load"]
             compare == [call[c] EXCEPT !.pc = "read_digest", !.digest = rows[o].digest]
  <1>1. call[c] \in CallShapes /\ o \in Objects
    BY CallFields DEF Calls, ResolveRow, At, Readers
  <1>2. rows[o].digest \in Bodies
    BY <1>1 DEF CatalogTypeOK, Rows
  <1>3. /\ load \in CallShapes /\ load.pc = "read_load" /\ load.object = o
        /\ load.wasBlocked = call[c].wasBlocked /\ load.pending = call[c].pending
    BY <1>1 DEF CallShapes, Places, Readers
  <1>4. /\ compare \in CallShapes /\ compare.pc = "read_digest" /\ compare.object = o
        /\ compare.wasBlocked = call[c].wasBlocked /\ compare.pending = call[c].pending
    BY <1>1, <1>2 DEF CallShapes, Places, Readers
  <1>5. \/ rows[o] = NoRow /\ call' = [call EXCEPT ![c] = load]
        \/ RowAllows(o) /\ call' = [call EXCEPT ![c] = compare]
        \/ call' = [call EXCEPT ![c] = NoCall]
    BY DEF ResolveRow, CatalogTypeOK
  <1> HIDE DEF load, compare
  <1>6. load \in Calls /\ compare \in Calls
    BY <1>1, <1>3, <1>4 DEF Calls, Publishing, Reviewing, Revising, Readers
  <1> QED
    BY <1>3, <1>4, <1>5, <1>6, Nothing, CallBecomes

\* What a reader is served.
LEMMA LoadKeeps ==
    ASSUME CatalogTypeOK, NEW c \in Callers, Load(c)
    PROVE  /\ OnlyThisCall(c)
           /\ \/ call'[c] = NoCall
              \/ /\ call'[c].pc = "served"
                 /\ call'[c].wasBlocked = call[c].wasBlocked
                 /\ call'[c].pending = call[c].pending
  <1> DEFINE found == TreeOf(call[c].object)[call[c].object]
             r == [call[c] EXCEPT !.pc = "served", !.content = found]
  <1>1. call[c] \in CallShapes /\ call[c].object \in Objects
    BY CallFields DEF Calls, Load, At, Readers
  <1>2. found \in Bodies
    BY <1>1, FilesAreBodies
  <1>3. call' = [call EXCEPT ![c] = r] \/ Done(c)
    BY DEF Load, CatalogTypeOK
  <1> HIDE DEF found
  <1>4. /\ r \in CallShapes /\ r.pc = "served" /\ r.object = call[c].object
        /\ r.wasBlocked = call[c].wasBlocked /\ r.pending = call[c].pending
    BY <1>1, <1>2 DEF CallShapes, Places, Readers
  <1> HIDE DEF r
  <1>5. r \in Calls
    BY <1>1, <1>4 DEF Calls, Publishing, Reviewing, Revising, Readers
  <1> QED
    BY <1>3, <1>4, <1>5, CallBecomes, DoneForgets

\* Reading keeps the types.
LEMMA ReadKeepsTypes ==
    ASSUME CatalogTypeOK, NEW c \in Callers, Read(c)
    PROVE  CatalogTypeOK' /\ OnlyThisCall(c)
  <1>1. OnlyThisCall(c)
    BY RowKeeps, LoadKeeps, CallFields, StepKeeps, DoneForgets
    DEF Read, ResolveDigest, SearchRow, Served, At, Places, Publishing, Reviewing,
        Revising, Readers
  <1>2. UNCHANGED <<data, drafts, rows, proposals, lock, ruling, named, clean>>
    BY DEF Read, ResolveRow, ResolveDigest, Load, SearchRow, Served, files, db, history
  <1> QED
    BY <1>1, <1>2 DEF CatalogTypeOK, OnlyThisCall

-----------------------------------------------------------------------------
(* Types: what is one step *)

\* A new draft, a decision on trust, a crash and an edit keep the types.
LEMMA DraftKeepsTypes ==
    ASSUME CatalogTypeOK, NEW c \in Callers, NEW p \in Proposals,
           NEW new \in Contents, NewDraft(c, p, new)
    PROVE  CatalogTypeOK' /\ OnlyThisCall(c)
  <1> DEFINE r == [NoProposal EXCEPT !.status = "draft", !.kind = new.object.kind,
                                     !.object = new.object, !.digest = new]
  <1>1. new.object \in Objects /\ new \in Drafts
    BY ContentsAreOfObjects
  <1>2. r \in ProposalRows /\ r.object = new.object
    BY <1>1, Nothing DEF ProposalRows, Kinds, Named
  <1>3. proposals' = [proposals EXCEPT ![p] = r]
    BY DEF NewDraft
  <1> HIDE DEF r
  <1>4. /\ proposals' \in [Proposals -> ProposalRows]
        /\ \A q \in Proposals : proposals'[q].status = "draft" =>
                                    proposals'[q].object \in Objects
    BY <1>1, <1>2, <1>3 DEF CatalogTypeOK
  <1>5. drafts' \in [Proposals -> [Objects -> Drafts]]
    BY <1>1 DEF NewDraft, PutDraft, CatalogTypeOK
  <1>6. UNCHANGED <<data, rows, lock, call, ruling>> /\ clean' \in BOOLEAN
    BY DEF NewDraft, Overlaps, CatalogTypeOK
  <1> QED
    BY <1>4, <1>5, <1>6 DEF CatalogTypeOK, OnlyThisCall

\* What a decision on trust changes.
LEMMA TrustKeeps ==
    ASSUME CatalogTypeOK, NEW c \in Callers, NEW o \in Objects, NEW status \in Rulings,
           SetTrust(c, o, status)
    PROVE  /\ CatalogTypeOK'
           /\ \A d \in Callers :
                 /\ call'[d] = [call[d] EXCEPT !.wasBlocked = call'[d].wasBlocked]
                 /\ call'[d].wasBlocked =>
                       call[d].wasBlocked /\ (status = "blocked" \/ call[d].object # o)
  <1>1. status \in TrustStatuses
    BY CatalogAssumption
  <1>2. rows' \in [Objects -> Rows] /\ ruling' \in [Objects -> TrustStatuses \cup {"none"}]
    BY <1>1 DEF SetTrust, CatalogTypeOK, Rows
  <1>3. ASSUME NEW d \in Callers
        PROVE  /\ call'[d] \in Calls
               /\ call'[d] = [call[d] EXCEPT !.wasBlocked = call'[d].wasBlocked]
               /\ call'[d].wasBlocked =>
                     call[d].wasBlocked /\ (status = "blocked" \/ call[d].object # o)
    <2> DEFINE r == [call[d] EXCEPT !.wasBlocked = FALSE]
    <2>1. call[d] \in CallShapes /\ call[d] \in Calls
      BY CallFields DEF Calls
    <2>2. r \in Calls /\ ~r.wasBlocked
      BY <2>1 DEF Calls, CallShapes
    <2>3. CASE status # "blocked" /\ call[d].object = o
      <3>1. call'[d] = r
        BY <2>3 DEF SetTrust
      <3> QED
        BY <2>1, <2>2, <3>1 DEF CallShapes
    <2>4. CASE status = "blocked" \/ call[d].object # o
      <3>1. call'[d] = call[d]
        BY <2>4 DEF SetTrust
      <3> QED
        BY <2>1, <2>4, <3>1 DEF CallShapes
    <2> QED
      BY <2>3, <2>4
  <1>4. DOMAIN call' = Callers
    BY DEF SetTrust
  <1>5. call' = [d \in Callers |-> call'[d]]
    BY DEF SetTrust
  <1> QED
    BY <1>2, <1>3, <1>5 DEF SetTrust, Overlaps, CatalogTypeOK, files

\* A crash forgets the call and gives its lock back.
LEMMA CrashKeepsTypes ==
    ASSUME CatalogTypeOK, NEW c \in Callers, Crash(c)
    PROVE  CatalogTypeOK' /\ OnlyThisCall(c)
  <1>1. OnlyThisCall(c)
    BY DoneForgets DEF Crash
  <1> QED
    BY <1>1 DEF Crash, Released, CatalogTypeOK, OnlyThisCall, files

\* An edit writes what people write.
LEMMA EditKeepsTypes ==
    ASSUME CatalogTypeOK, NEW o \in Objects,
           Edit(o) \/ \E p \in Proposals : EditDraft(p, o)
    PROVE  CatalogTypeOK'
  <1>1. CASE Edit(o)
    <2>1. data' \in [Objects -> Bodies]
      BY <1>1, ContentsAreOfObjects DEF Edit, CatalogTypeOK
    <2> QED
      BY <1>1, <2>1 DEF Edit, CatalogTypeOK, db
  <1>2. ASSUME NEW p \in Proposals, EditDraft(p, o)
        PROVE  CatalogTypeOK'
    <2>1. drafts' \in [Proposals -> [Objects -> Drafts]]
      BY <1>2, ContentsAreOfObjects DEF EditDraft, PutDraft, CatalogTypeOK, Proposable
    <2> QED
      BY <1>2, <2>1 DEF EditDraft, CatalogTypeOK, db, history
  <1> QED
    BY <1>1, <1>2

\* Every step keeps the types.
LEMMA TypesKept ==
    ASSUME CatalogTypeOK, [Next]_vars
    PROVE  CatalogTypeOK'
  <1>1. ASSUME NEW c \in Callers, Begin(c)
        PROVE  CatalogTypeOK'
    <2>1. CASE Begun(c)
      <3>1. clean' \in BOOLEAN
        BY <1>1 DEF Begin, StartPublish, StartReindex, StartResolve, StartUpdate, StartReject,
                    StartProposalPublish, StartSearch, NewDraft, AuthorWorkflow,
                    ProposeMemory, SetTrust, Overlaps, NobodyWrites, Writing, history,
                    CatalogTypeOK
      <3> QED
        BY <2>1, <3>1 DEF Begun, OnlyThisCall, CatalogTypeOK
    <2> QED
      BY <1>1, <2>1, BeginsACall, DraftKeepsTypes, TrustKeeps
      DEF Begin, AuthorWorkflow, ProposeMemory
  <1>2. CASE UNCHANGED vars
    BY <1>2 DEF vars, CatalogTypeOK
  <1> QED
    BY <1>1, <1>2, PublishKeepsTypes, ReviseKeepsTypes, ReviewKeepsTypes, ReindexKeepsTypes,
       ReadKeepsTypes, CrashKeepsTypes, EditKeepsTypes
    DEF Next

-----------------------------------------------------------------------------
(* Trust *)

\* A caller that publishes, revises or reviews takes nothing it has read of the
\* rows with it, and writes the rows only when it indexes.
LEMMA WritesGoOn ==
    ASSUME CatalogTypeOK, NEW c \in Callers, Publish(c) \/ Revise(c) \/ Review(c)
    PROVE  /\ OnlyThisCall(c)
           /\ call[c].pc \notin Reindexing \cup Readers
           /\ \/ call'[c] = NoCall
              \/ /\ call'[c].wasBlocked = call[c].wasBlocked
                 /\ call'[c].pending = call[c].pending
           /\ UNCHANGED <<lock, ruling>>
           /\ IndexObject(c) \/ rows' = rows
  <1> USE CallFields, StepKeeps, DoneForgets
      DEF Places, Publishing, Reviewing, Revising, Reindexing, Readers, At, db, history,
          files
  <1>1. CASE Publish(c)
    BY <1>1, PublishKeepsTypes
    DEF Publish, RemoveDirectory, CopyPart, WriteObject, IndexObject
  <1>2. CASE Revise(c)
    BY <1>2, ReviseKeepsTypes
    DEF Revise, WriteDraft, UnlinkDraft, RecordDraft, RecordRejection
  <1>3. CASE Review(c)
    <2>1. OnlyThisCall(c)
      BY <1>3, ReviewKeepsTypes
    <2>2. CASE CheckDraft(c)
      BY <2>1, <2>2 DEF CheckDraft
    <2>3. CASE VerifyDraft(c)
      <3>1. Step(c, "pub_parse") \/ Done(c)
        BY <2>3 DEF VerifyDraft
      <3> QED
        BY <2>1, <2>3, <3>1 DEF VerifyDraft
    <2>4. CASE ParseDraft(c)
      BY <2>1, <2>4, ParseKeeps DEF ParseDraft
    <2>5. CASE ReadDraft(c)
      BY <2>1, <2>5, ReadKeeps DEF ReadDraft
    <2>6. CASE MarkPublished(c)
      BY <2>1, <2>6 DEF MarkPublished
    <2> QED
      BY <1>3, <2>2, <2>3, <2>4, <2>5, <2>6 DEF Review
  <1> QED
    BY <1>1, <1>2, <1>3

\* A reader passes the row of no object that is blocked.
LEMMA ReadersGoOn ==
    ASSUME CatalogTypeOK, NEW c \in Callers, Read(c)
    PROVE  /\ OnlyThisCall(c)
           /\ UNCHANGED <<rows, lock, ruling>>
           /\ call[c].pc \in Readers
           /\ \/ call'[c] = NoCall
              \/ /\ call'[c].wasBlocked = call[c].wasBlocked
                 /\ call'[c].pending = call[c].pending
           /\ call[c].pc \in {"read_row", "search_row"} =>
                 \/ call'[c] = NoCall
                 \/ rows[call[c].object].trust # "blocked"
  <1> USE CallFields, StepKeeps, DoneForgets
      DEF Places, Publishing, Reviewing, Revising, Reindexing, Readers, At, db, files,
          RowAllows
  <1>0. OnlyThisCall(c)
    BY ReadKeepsTypes
  <1>1. CASE ResolveRow(c)
    BY <1>0, <1>1, RowKeeps, Nothing DEF ResolveRow, history
  <1>2. CASE ResolveDigest(c)
    BY <1>0, <1>2 DEF ResolveDigest, history
  <1>3. CASE Load(c)
    BY <1>0, <1>3, LoadKeeps DEF Load, history
  <1>4. CASE SearchRow(c)
    BY <1>0, <1>4 DEF SearchRow, history
  <1>5. CASE Served(c)
    BY <1>0, <1>5 DEF Served, history
  <1> QED
    BY <1>1, <1>2, <1>3, <1>4, <1>5 DEF Read

\* Only the holder of the lock, or anybody when there is none, writes rows.
LEMMA LockedOut ==
    ASSUME NEW c \in Callers, NEW d \in Callers, lock = d, Free(c)
    PROVE  c = d
  BY CatalogAssumption DEF Free

\* A row that is written over keeps its trust.
LEMMA TrustIsKept ==
    ASSUME CatalogTypeOK, NEW row \in Rows, NEW x, NEW source
    PROVE  /\ row # NoRow => Indexed(row, x, source).trust = row.trust
           /\ row # NoRow => PublishedRow(row, x).trust = row.trust
  BY DEF Indexed, PublishedRow, Rows

\* Every step keeps what the operator ruled.
LEMMA RulingsKept ==
    ASSUME TrustInv, [Next]_vars
    PROVE  OperatorRulingStands'
  <1> USE DEF TrustInv
  <1>0. /\ rows \in [Objects -> Rows] /\ ruling \in [Objects -> TrustStatuses \cup {"none"}]
        /\ \A o \in Objects : ruling[o] # "none" => rows[o].trust = ruling[o]
        /\ NoRow.trust = "none"
    BY Nothing DEF CatalogTypeOK, OperatorRulingStands
  <1>1. ASSUME NEW c \in Callers, IndexObject(c)
        PROVE  OperatorRulingStands'
    <2>1. \A o \in Objects :
            rows'[o] = rows[o] \/ rows'[o] = PublishedRow(rows[o], call[c].content)
      BY <1>0, <1>1 DEF IndexObject
    <2> QED
      BY <1>0, <1>1, <2>1, TrustIsKept DEF IndexObject, history, OperatorRulingStands
  <1>2. ASSUME NEW c \in Callers, ReindexCommit(c)
        PROVE  OperatorRulingStands'
    <2>1. \A o \in Objects :
            rows'[o] = IF call[c].pending[o] = NoRow THEN rows[o] ELSE call[c].pending[o]
      BY <1>2 DEF ReindexCommit
    <2> QED
      BY <1>0, <1>2, <2>1 DEF ReindexCommit, history, OperatorRulingStands, PendingKeepsTrust
  <1>3. ASSUME NEW c \in Callers, NEW o \in Objects, NEW status \in Rulings,
               SetTrust(c, o, status)
        PROVE  OperatorRulingStands'
    <2>1. /\ rows'[o].trust = status /\ ruling'[o] = status
          /\ \A q \in Objects : q # o => rows'[q] = rows[q] /\ ruling'[q] = ruling[q]
      BY <1>0, <1>3 DEF SetTrust, Rows
    <2> QED
      BY <1>0, <2>1 DEF OperatorRulingStands
  <1>4. CASE UNCHANGED <<rows, ruling>>
    BY <1>4 DEF OperatorRulingStands
  <1>5. ASSUME NEW c \in Callers, Begin(c)
        PROVE  \/ UNCHANGED <<rows, ruling>>
               \/ \E o \in Objects : \E status \in Rulings : SetTrust(c, o, status)
    BY <1>5, BeginsACall DEF Begin, Begun, AuthorWorkflow, ProposeMemory, NewDraft, history
  <1>6. ASSUME NEW c \in Callers, Publish(c) \/ Revise(c) \/ Review(c) \/ Read(c)
        PROVE  UNCHANGED <<rows, ruling>> \/ IndexObject(c)
    BY <1>6, WritesGoOn, ReadersGoOn
  <1>7. ASSUME NEW c \in Callers, Reindex(c) \/ Crash(c)
        PROVE  UNCHANGED <<rows, ruling>> \/ ReindexCommit(c)
    BY <1>7 DEF Reindex, ReindexDigest, ReindexUpsert, Crash, db, history
  <1>8. ASSUME NEW o \in Objects, Edit(o) \/ \E p \in Proposals : EditDraft(p, o)
        PROVE  UNCHANGED <<rows, ruling>>
    BY <1>8 DEF Edit, EditDraft, db, history
  <1> QED
    BY <1>1, <1>2, <1>3, <1>4, <1>5, <1>6, <1>7, <1>8 DEF Next, vars

\* Every step keeps what a reindex will write in agreement with the rows.
LEMMA PendingKept ==
    ASSUME TrustInv, [Next]_vars
    PROVE  PendingKeepsTrust'
  <1> USE DEF TrustInv
  <1>0. /\ rows \in [Objects -> Rows]
        /\ \A d \in Callers, o \in Objects : call[d].pending[o] # NoRow =>
              /\ call[d].pc \in Reindexing
              /\ lock = d
              /\ rows[o] # NoRow => call[d].pending[o].trust = rows[o].trust
        /\ \A d \in Callers : call[d].pending \in [Objects -> Rows]
        /\ NoCall.pending \in [Objects -> Rows] /\ NoRow \in Rows
        /\ \A o \in Objects : NoCall.pending[o] = NoRow
    BY CallFields, Nothing DEF CatalogTypeOK, PendingKeepsTrust, Calls, CallShapes
  <1>1. ASSUME NEW c \in Callers, Begun(c)
        PROVE  PendingKeepsTrust'
    BY <1>0, <1>1 DEF Begun, OnlyThisCall, PendingKeepsTrust
  <1>2. ASSUME NEW c \in Callers, Publish(c) \/ Revise(c) \/ Review(c)
        PROVE  PendingKeepsTrust'
    <2>1. \A o \in Objects : call'[c].pending[o] = NoRow
      BY <1>0, <1>2, WritesGoOn
    <2>2. IndexObject(c) => Free(c)
      BY DEF IndexObject
    <2>3. ASSUME NEW d \in Callers, NEW o \in Objects, call'[d].pending[o] # NoRow
          PROVE  call'[d] = call[d] /\ rows' = rows /\ lock' = lock
      BY <1>0, <1>2, <2>1, <2>2, <2>3, WritesGoOn, LockedOut DEF OnlyThisCall
    <2> QED
      BY <1>0, <2>3 DEF PendingKeepsTrust
  <1>3. ASSUME NEW c \in Callers, Read(c)
        PROVE  PendingKeepsTrust'
    <2>1. \A o \in Objects : call'[c].pending[o] = NoRow
      BY <1>0, <1>3, ReadersGoOn DEF Readers, Reindexing
    <2> QED
      BY <1>0, <1>3, <2>1, ReadersGoOn DEF OnlyThisCall, PendingKeepsTrust
  <1>4. ASSUME NEW c \in Callers, ReindexDigest(c)
        PROVE  PendingKeepsTrust'
    <2>1. /\ OnlyThisCall(c) /\ call'[c].pending = call[c].pending
          /\ call'[c].pc \in Reindexing
          /\ UNCHANGED <<rows, lock>>
      BY <1>4, DigestKeeps DEF ReindexDigest, db, Reindexing
    <2> QED
      BY <1>0, <2>1 DEF OnlyThisCall, PendingKeepsTrust
  <1>5. ASSUME NEW c \in Callers, ReindexUpsert(c)
        PROVE  PendingKeepsTrust'
    <2> DEFINE o == call[c].object
               row == IF call[c].pending[o] = NoRow THEN rows[o] ELSE call[c].pending[o]
               new == Indexed(row, call[c].content, call[c].source)
    <2>1. /\ OnlyThisCall(c) /\ call'[c].pending = [call[c].pending EXCEPT ![o] = new]
          /\ call'[c].pc \in Reindexing
          /\ rows' = rows /\ lock' = c /\ Free(c)
      BY <1>5, UpsertKeeps DEF ReindexUpsert, Reindexing
    <2>2. ASSUME o \in Objects, rows[o] # NoRow PROVE new.trust = rows[o].trust
      <3>1. row \in Rows /\ row # NoRow /\ row.trust = rows[o].trust
        BY <1>0, <2>2
      <3> QED
        BY <3>1, TrustIsKept
    <2> HIDE DEF new
    <2>3. ASSUME NEW q \in Objects, call'[c].pending[q] # NoRow, rows[q] # NoRow
          PROVE  call'[c].pending[q].trust = rows[q].trust
      BY <1>0, <2>1, <2>2, <2>3
    <2>4. ASSUME NEW d \in Callers, NEW q \in Objects, call[d].pending[q] # NoRow
          PROVE  c = d
      BY <1>0, <2>1, <2>4, LockedOut
    <2> QED
      BY <1>0, <2>1, <2>3, <2>4 DEF OnlyThisCall, PendingKeepsTrust
  <1>6. ASSUME NEW c \in Callers, ReindexCommit(c)
        PROVE  PendingKeepsTrust'
    <2>1. OnlyThisCall(c) /\ call'[c] = NoCall /\ Free(c)
      BY <1>6, DoneForgets DEF ReindexCommit
    <2>2. ASSUME NEW d \in Callers, NEW q \in Objects, call'[d].pending[q] # NoRow
          PROVE  FALSE
      BY <1>0, <2>1, <2>2, LockedOut DEF OnlyThisCall
    <2> QED
      BY <2>2 DEF PendingKeepsTrust
  <1>7. ASSUME NEW c \in Callers, Crash(c)
        PROVE  PendingKeepsTrust'
    <2>1. OnlyThisCall(c) /\ call'[c] = NoCall /\ rows' = rows /\ lock' = Released(c)
      BY <1>7, DoneForgets DEF Crash
    <2> QED
      BY <1>0, <2>1 DEF OnlyThisCall, Released, PendingKeepsTrust
  <1>8. ASSUME NEW c \in Callers, NEW o \in Objects, NEW status \in Rulings,
               SetTrust(c, o, status)
        PROVE  PendingKeepsTrust'
    <2>1. Free(c) /\ call[c].pc = "idle" /\ lock' = lock
      BY <1>8 DEF SetTrust, MayBegin, At
    <2>2. \A d \in Callers : call'[d].pending = call[d].pending /\ call'[d].pc = call[d].pc
      <3> SUFFICES ASSUME NEW d \in Callers
                   PROVE  call'[d].pending = call[d].pending /\ call'[d].pc = call[d].pc
        OBVIOUS
      <3>1. call[d] \in CallShapes /\ call'[d] = [call[d] EXCEPT !.wasBlocked = call'[d].wasBlocked]
        BY <1>8, TrustKeeps, CallFields DEF Calls
      <3> QED
        BY <3>1 DEF CallShapes
    <2>3. ASSUME NEW d \in Callers, NEW q \in Objects, call[d].pending[q] # NoRow
          PROVE  FALSE
      BY <1>0, <2>1, <2>3, LockedOut DEF Reindexing
    <2> QED
      BY <2>2, <2>3 DEF PendingKeepsTrust
  <1>9. CASE UNCHANGED <<rows, lock, call>>
    BY <1>9 DEF PendingKeepsTrust
  <1>10. ASSUME NEW o \in Objects, Edit(o) \/ \E p \in Proposals : EditDraft(p, o)
         PROVE  UNCHANGED <<rows, lock, call>>
    BY <1>10 DEF Edit, EditDraft, db, history
  <1>11. ASSUME NEW c \in Callers, Begin(c)
         PROVE  \/ Begun(c) \/ UNCHANGED <<rows, lock, call>>
                \/ \E o \in Objects : \E status \in Rulings : SetTrust(c, o, status)
    BY <1>11, BeginsACall DEF Begin, AuthorWorkflow, ProposeMemory, NewDraft
  <1> QED
    BY <1>1, <1>2, <1>3, <1>4, <1>5, <1>6, <1>7, <1>8, <1>9, <1>10, <1>11
    DEF Next, vars, Reindex

\* Every step keeps that a reader of a blocked object is stopped at its row.
LEMMA StoppedKept ==
    ASSUME TrustInv, [Next]_vars
    PROVE  BlockedAreStopped'
  <1> USE DEF TrustInv
  <1>0. /\ \A d \in Callers : call[d].wasBlocked =>
              /\ call[d].pc \in {"read_row", "search_row"}
              /\ call[d].object \in Objects
              /\ Blocked(call[d].object)
        /\ ~NoCall.wasBlocked
    BY Nothing DEF BlockedAreStopped
  <1>1. ASSUME NEW c \in Callers, OnlyThisCall(c), UNCHANGED ruling,
               call'[c].wasBlocked => /\ call'[c].pc \in {"read_row", "search_row"}
                                      /\ call'[c].object \in Objects
                                      /\ Blocked(call'[c].object)
        PROVE  BlockedAreStopped'
    BY <1>0, <1>1 DEF OnlyThisCall, BlockedAreStopped, Blocked
  <1>2. ASSUME NEW c \in Callers, Begin(c)
        PROVE  BlockedAreStopped' \/ \E o \in Objects : \E status \in Rulings : SetTrust(c, o, status)
    <2>0. NoCall \in CallShapes /\ call \in [Callers -> Calls]
      BY Nothing DEF Calls, CatalogTypeOK
    <2>1. CASE StartResolve(c) \/ \E o \in Objects : StartSearch(c, o)
      <3>1. PICK o \in Objects : \E r \in CallShapes :
              /\ call' = [call EXCEPT ![c] = r]
              /\ r.pc \in {"read_row", "search_row"}
              /\ r.object = o /\ r.wasBlocked = Blocked(o)
        <4>1. CASE StartResolve(c)
          <5>1. PICK o \in Objects : Reading(c, "read_row", o)
            BY <4>1 DEF StartResolve
          <5> DEFINE r == [NoCall EXCEPT !.pc = "read_row", !.object = o,
                                         !.wasBlocked = Blocked(o)]
          <5>2. Blocked(o) \in BOOLEAN
            BY DEF Blocked
          <5>3. r \in CallShapes /\ r.pc = "read_row" /\ r.object = o /\ r.wasBlocked = Blocked(o)
            BY <2>0, <5>2, ContentsAreOfObjects DEF CallShapes, Places, Readers
          <5>4. call' = [call EXCEPT ![c] = r]
            BY <5>1 DEF Reading
          <5> HIDE DEF r
          <5> QED
            BY <5>3, <5>4
        <4>2. ASSUME NEW o \in Objects, StartSearch(c, o)
              PROVE  \E r \in CallShapes :
                       /\ call' = [call EXCEPT ![c] = r]
                       /\ r.pc \in {"read_row", "search_row"}
                       /\ r.object = o /\ r.wasBlocked = Blocked(o)
          <5> DEFINE r == [NoCall EXCEPT !.pc = "search_row", !.object = o,
                             !.content = TreeOf(o)[o], !.wasBlocked = Blocked(o)]
          <5>2. Blocked(o) \in BOOLEAN /\ TreeOf(o)[o] \in Bodies
            BY FilesAreBodies DEF Blocked
          <5>3. r \in CallShapes /\ r.pc = "search_row" /\ r.object = o
                /\ r.wasBlocked = Blocked(o)
            BY <2>0, <5>2, ContentsAreOfObjects DEF CallShapes, Places, Readers
          <5>4. call' = [call EXCEPT ![c] = r]
            BY <4>2 DEF StartSearch
          <5> HIDE DEF r
          <5> QED
            BY <5>3, <5>4
        <4> QED
          BY <2>1, <4>1, <4>2
      <3>2. OnlyThisCall(c) /\ UNCHANGED ruling
        BY <2>1, BeginsACall DEF Begun
      <3> QED
        BY <1>1, <2>0, <3>1, <3>2 DEF Blocked
    <2>2. ASSUME \/ StartPublish(c) \/ StartReindex(c)
                 \/ \E p \in Proposals : \/ StartUpdate(c, p) \/ StartReject(c, p)
                                         \/ \E x \in Contents : StartProposalPublish(c, p, x)
          PROVE  BlockedAreStopped'
      <3>1. ~call'[c].wasBlocked
        <4>0. \A r : call' = [call EXCEPT ![c] = r] => call'[c] = r
          BY <2>0
        <4>1. CASE StartPublish(c)
          BY <2>0, <4>0, <4>1, <1>0 DEF StartPublish, CallShapes
        <4>2. CASE StartReindex(c)
          BY <2>0, <4>0, <4>2, <1>0 DEF StartReindex, CallShapes
        <4>3. ASSUME NEW p \in Proposals, StartUpdate(c, p)
              PROVE  ~call'[c].wasBlocked
          BY <2>0, <4>0, <4>3, <1>0 DEF StartUpdate, CallShapes
        <4>4. ASSUME NEW p \in Proposals, StartReject(c, p)
              PROVE  ~call'[c].wasBlocked
          BY <2>0, <4>0, <4>4, <1>0 DEF StartReject, CallShapes
        <4>5. ASSUME NEW p \in Proposals, NEW x \in Contents, StartProposalPublish(c, p, x)
              PROVE  ~call'[c].wasBlocked
          BY <2>0, <4>0, <4>5, <1>0 DEF StartProposalPublish, CallShapes
        <4> QED
          BY <2>2, <4>1, <4>2, <4>3, <4>4, <4>5
      <3>2. OnlyThisCall(c) /\ UNCHANGED ruling
        BY <2>2, BeginsACall DEF Begun
      <3> QED
        BY <1>1, <3>1, <3>2
    <2>3. ASSUME NEW p \in Proposals, AuthorWorkflow(c, p) \/ ProposeMemory(c, p)
          PROVE  BlockedAreStopped'
      <3>1. UNCHANGED <<call, ruling>>
        BY <2>3 DEF AuthorWorkflow, ProposeMemory, NewDraft, history
      <3> QED
        BY <3>1 DEF BlockedAreStopped, Blocked
    <2> QED
      BY <1>2, <2>1, <2>2, <2>3 DEF Begin
  <1>3. ASSUME NEW c \in Callers, Publish(c) \/ Revise(c) \/ Review(c)
        PROVE  BlockedAreStopped'
    BY <1>0, <1>1, <1>3, WritesGoOn DEF Readers
  <1>4. ASSUME NEW c \in Callers, Read(c)
        PROVE  BlockedAreStopped'
    <2>1. ~call'[c].wasBlocked
      <3>1. CASE call[c].wasBlocked
        <4>1. rows[call[c].object].trust = "blocked"
          BY <1>0, <3>1 DEF Blocked, OperatorRulingStands
        <4> QED
          BY <1>0, <1>4, <3>1, <4>1, ReadersGoOn
      <3>2. CASE ~call[c].wasBlocked
        BY <1>0, <1>4, <3>2, ReadersGoOn
      <3> QED
        BY <3>1, <3>2
    <2> QED
      BY <1>1, <1>4, <2>1, ReadersGoOn
  <1>5. ASSUME NEW c \in Callers, Reindex(c) \/ Crash(c)
        PROVE  BlockedAreStopped'
    <2>1. OnlyThisCall(c) /\ ~call'[c].wasBlocked
      BY <1>0, <1>5, DigestKeeps, UpsertKeeps, DoneForgets
      DEF Reindex, ReindexDigest, ReindexUpsert, ReindexCommit, Crash, At
    <2>2. UNCHANGED ruling
      BY <1>5 DEF Reindex, ReindexDigest, ReindexUpsert, ReindexCommit, Crash, history
    <2> QED
      BY <1>1, <2>1, <2>2
  <1>6. ASSUME NEW c \in Callers, NEW o \in Objects, NEW status \in Rulings,
               SetTrust(c, o, status)
        PROVE  BlockedAreStopped'
    <2> SUFFICES ASSUME NEW d \in Callers, call'[d].wasBlocked
                 PROVE  /\ call'[d].pc \in {"read_row", "search_row"}
                        /\ call'[d].object \in Objects
                        /\ ruling'[call'[d].object] = "blocked"
      BY DEF BlockedAreStopped, Blocked
    <2>0. call[d] \in CallShapes
      BY CallFields DEF Calls
    <2>1. call'[d] = [call[d] EXCEPT !.wasBlocked = call'[d].wasBlocked]
      BY <1>6, TrustKeeps
    <2>4. call[d].wasBlocked /\ (status = "blocked" \/ call[d].object # o)
      <3>1. call'[d] = IF status # "blocked" /\ call[d].object = o
                       THEN [call[d] EXCEPT !.wasBlocked = FALSE] ELSE call[d]
        BY <1>6 DEF SetTrust
      <3> QED
        BY <2>0, <3>1 DEF CallShapes
    <2>2. call'[d].pc = call[d].pc /\ call'[d].object = call[d].object
      BY <2>0, <2>1 DEF CallShapes
    <2>3. ruling' = [ruling EXCEPT ![o] = status]
      BY <1>6 DEF SetTrust
    <2> QED
      BY <1>0, <2>2, <2>3, <2>4 DEF Blocked, CatalogTypeOK
  <1>7. CASE UNCHANGED <<call, ruling>>
    BY <1>7 DEF BlockedAreStopped, Blocked
  <1>8. ASSUME NEW o \in Objects, Edit(o) \/ \E p \in Proposals : EditDraft(p, o)
        PROVE  UNCHANGED <<call, ruling>>
    BY <1>8 DEF Edit, EditDraft, history
  <1> QED
    BY <1>2, <1>3, <1>4, <1>5, <1>6, <1>7, <1>8 DEF Next, vars

\* It holds when nothing has been indexed.
LEMMA InitTrustInv ==
    ASSUME Init
    PROVE  TrustInv
  <1>1. CatalogTypeOK
    BY Nothing, ContentsAreOfObjects DEF Init, CatalogTypeOK, Drafts
  <1>2. OperatorRulingStands
    BY DEF Init, OperatorRulingStands
  <1>3. PendingKeepsTrust /\ BlockedAreStopped
    BY Nothing DEF Init, PendingKeepsTrust, BlockedAreStopped
  <1> QED
    BY <1>1, <1>2, <1>3 DEF TrustInv

\* The types, the rulings, and what they rest on, hold of every reachable state,
\* overlapping writers or not (op_registry_trust, reindex, _verify).
THEOREM TrustInvariant == Spec => []TrustInv
  <1>1. TrustInv /\ [Next]_vars => TrustInv'
    BY TypesKept, RulingsKept, PendingKept, StoppedKept DEF TrustInv
  <1> QED
    BY <1>1, InitTrustInv, PTL DEF Spec

\* What an operator ruled of an object is what its row says, in every state
\* (_upsert, op_registry_publish).
THEOREM RulingsStand == Spec => []OperatorRulingStands
  <1>1. TrustInv => OperatorRulingStands
    BY DEF TrustInv
  <1> QED
    BY <1>1, TrustInvariant, PTL

\* Nobody is served what was blocked when the request began
\* (_verify, search_semantic_memories).
THEOREM BlockedIsNotServed == Spec => []ServedNotBlocked
  <1>1. TrustInv => ServedNotBlocked
    BY DEF TrustInv, BlockedAreStopped, ServedNotBlocked, At
  <1> QED
    BY <1>1, TrustInvariant, PTL

-----------------------------------------------------------------------------
(* One writer at a time *)

\* What an operation begins with.
LEMMA BeginsWith ==
    ASSUME CatalogTypeOK, NEW c \in Callers
    PROVE  /\ StartPublish(c) =>
                 /\ call'[c].pc = "pub_write" /\ call'[c].content \in named'
                 /\ call'[c].object \in Objects
           /\ StartReindex(c) => call'[c].pc = "rx_next" /\ call'[c].todo = Trees \X Objects
           /\ \A p \in Proposals :
                 /\ StartUpdate(c, p) => call'[c].pc = "upd_write"
                 /\ StartReject(c, p) => call'[c].pc = "rej_record"
                 /\ \A x \in Contents : StartProposalPublish(c, p, x) =>
                       call'[c].pc = "pub_check" /\ call'[c].digest = x
           /\ StartResolve(c) => call'[c].pc = "read_row"
           /\ \A o \in Objects : StartSearch(c, o) => call'[c].pc = "search_row"
  <1>0. NoCall \in CallShapes /\ call \in [Callers -> Calls]
    BY Nothing DEF Calls, CatalogTypeOK
  <1>1. ASSUME StartPublish(c)
        PROVE  /\ call'[c].pc = "pub_write" /\ call'[c].content \in named'
               /\ call'[c].object \in Objects
    <2>1. PICK new \in Contents :
            /\ call' = [call EXCEPT ![c] = [NoCall EXCEPT
                          !.pc = "pub_write", !.object = new.object, !.content = new]]
            /\ named' = named \cup {new}
      BY <1>1 DEF StartPublish
    <2>2. call'[c] = [NoCall EXCEPT !.pc = "pub_write", !.object = new.object,
                                    !.content = new]
      BY <1>0, <2>1
    <2>3. call'[c].pc = "pub_write" /\ call'[c].object = new.object /\ call'[c].content = new
      BY <1>0, <2>2 DEF CallShapes
    <2> QED
      BY <2>1, <2>3, ContentsAreOfObjects
  <1>2. ASSUME StartReindex(c)
        PROVE  call'[c].pc = "rx_next" /\ call'[c].todo = Trees \X Objects
    <2>1. call'[c] = [NoCall EXCEPT !.pc = "rx_next", !.todo = Trees \X Objects]
      BY <1>0, <1>2 DEF StartReindex, Trees
    <2> QED
      BY <1>0, <2>1 DEF CallShapes
  <1>3. ASSUME NEW p \in Proposals, StartUpdate(c, p)
        PROVE  call'[c].pc = "upd_write"
    BY <1>0, <1>3 DEF StartUpdate, CallShapes
  <1>4. ASSUME NEW p \in Proposals, StartReject(c, p)
        PROVE  call'[c].pc = "rej_record"
    <2>1. call'[c] = [NoCall EXCEPT !.pc = "rej_record", !.proposal = p]
      BY <1>0, <1>4 DEF StartReject
    <2> QED
      BY <1>0, <2>1 DEF CallShapes
  <1>5. ASSUME NEW p \in Proposals, NEW x \in Contents, StartProposalPublish(c, p, x)
        PROVE  call'[c].pc = "pub_check" /\ call'[c].digest = x
    <2>1. call'[c] = [NoCall EXCEPT !.pc = "pub_check", !.proposal = p, !.digest = x,
                                    !.object = proposals[p].object]
      BY <1>0, <1>5 DEF StartProposalPublish
    <2> QED
      BY <1>0, <2>1 DEF CallShapes
  <1>6. ASSUME StartResolve(c)
        PROVE  call'[c].pc = "read_row"
    <2>1. PICK o \in Objects : Reading(c, "read_row", o)
      BY <1>6 DEF StartResolve
    <2>2. call'[c] = [NoCall EXCEPT !.pc = "read_row", !.object = o, !.wasBlocked = Blocked(o)]
      BY <1>0, <2>1 DEF Reading
    <2> QED
      BY <1>0, <2>2 DEF CallShapes
  <1>7. ASSUME NEW o \in Objects, StartSearch(c, o)
        PROVE  call'[c].pc = "search_row"
    <2>1. call'[c] = [NoCall EXCEPT !.pc = "search_row", !.object = o,
                        !.content = TreeOf(o)[o], !.wasBlocked = Blocked(o)]
      BY <1>0, <1>7 DEF StartSearch
    <2> QED
      BY <1>0, <2>1 DEF CallShapes
  <1> QED
    BY <1>1, <1>2, <1>3, <1>4, <1>5, <1>6, <1>7

\* Where a reader goes.
LEMMA ReadersRead ==
    ASSUME CatalogTypeOK, NEW c \in Callers, Read(c)
    PROVE  call'[c].pc \in Readers \cup {"idle"}
  BY RowKeeps, LoadKeeps, CallFields, StepKeeps, DoneForgets, Nothing
  DEF Read, ResolveDigest, SearchRow, Served, At, Places, Publishing, Reviewing, Revising,
      Readers

\* Where a reindex goes.
LEMMA ReindexersReindex ==
    ASSUME CatalogTypeOK, NEW c \in Callers, Reindex(c)
    PROVE  /\ call[c].pc \in Reindexing
           /\ call'[c].pc \in Reindexing \cup {"idle"}
           /\ UNCHANGED <<data, drafts, proposals, named, clean>>
  <1> USE DEF Reindexing, At, files, history
  <1>1. CASE ReindexDigest(c)
    <2>1. call'[c].pc \in {"rx_next", "rx_upsert"}
      BY <1>1, DigestKeeps
    <2> QED
      BY <1>1, <2>1 DEF ReindexDigest, db
  <1>2. CASE ReindexUpsert(c)
    BY <1>2, UpsertKeeps DEF ReindexUpsert
  <1>3. CASE ReindexCommit(c)
    BY <1>3, DoneForgets, Nothing DEF ReindexCommit
  <1> QED
    BY <1>1, <1>2, <1>3 DEF Reindex

\* Only a rebuild can make an index that was in doubt clean again.
LEMMA CleanChanges ==
    ASSUME [Next]_vars, clean'
    PROVE  clean \/ \E c \in Callers : StartReindex(c)
  <1> USE DEF history
  <1>1. ASSUME NEW c \in Callers, Begin(c)
        PROVE  clean \/ StartReindex(c)
    BY <1>1 DEF Begin, StartPublish, StartResolve, StartUpdate, StartReject,
       StartProposalPublish, StartSearch, NewDraft, AuthorWorkflow,
       ProposeMemory, SetTrust, Overlaps
  <1>2. ASSUME NEW c \in Callers, Publish(c) \/ Revise(c)
        PROVE  clean
    BY <1>2 DEF Publish, RemoveDirectory, CopyPart, WriteObject, IndexObject,
       Revise, WriteDraft, UnlinkDraft, RecordDraft, RecordRejection
  <1>3. ASSUME NEW c \in Callers, Review(c) \/ Reindex(c)
        PROVE  clean
    BY <1>3 DEF Review, CheckDraft, VerifyDraft, ParseDraft, ReadDraft, MarkPublished,
       Reindex, ReindexDigest, ReindexUpsert, ReindexCommit
  <1>4. ASSUME NEW c \in Callers, Read(c) \/ Crash(c)
        PROVE  clean
    BY <1>4 DEF Read, ResolveRow, ResolveDigest, Load, SearchRow, Served, Crash
  <1>5. ASSUME NEW o \in Objects, Edit(o) \/ \E p \in Proposals : EditDraft(p, o)
        PROVE  clean
    BY <1>5 DEF Edit, EditDraft
  <1> QED
    BY <1>1, <1>2, <1>3, <1>4, <1>5 DEF Next, vars

\* While the tree is clean, who begins to write is the only one, and so is who
\* goes on.
LEMMA WriterIsAlone ==
    ASSUME CatalogTypeOK, clean => OneWriter, clean', NEW c \in Callers,
           \/ Overlaps \/ StartReindex(c)
           \/ Publish(c) \/ Revise(c) \/ Review(c) \/ Reindex(c)
    PROVE  \A d \in Callers : d # c => ~Writing(d)
  <1>1. CASE Overlaps \/ StartReindex(c)
    BY <1>1 DEF Overlaps, StartReindex, NobodyWrites
  <1>2. CASE Publish(c) \/ Revise(c) \/ Review(c) \/ Reindex(c)
    <2>1. Writing(c)
      BY <1>2, WritesGoOn, ReindexersReindex, CallFields
      DEF Writing, Places, Publishing, Reviewing, Revising, Reindexing, Readers,
          Publish, Revise, Review, RemoveDirectory, CopyPart, WriteObject, IndexObject,
          WriteDraft, UnlinkDraft, RecordDraft, RecordRejection, CheckDraft, VerifyDraft,
          ParseDraft, ReadDraft, MarkPublished, At
    <2>2. clean
      <3>1. CASE Publish(c) \/ Revise(c)
        BY <3>1 DEF Publish, RemoveDirectory, CopyPart, WriteObject, IndexObject,
           Revise, WriteDraft, UnlinkDraft, RecordDraft, RecordRejection, history
      <3>2. CASE Review(c) \/ Reindex(c)
        BY <3>2, ReindexersReindex
        DEF Review, CheckDraft, VerifyDraft, ParseDraft, ReadDraft, MarkPublished, history
      <3> QED
        BY <1>2, <3>1, <3>2
    <2> QED
      BY <2>1, <2>2 DEF OneWriter
  <1> QED
    BY <1>1, <1>2

\* A decision on trust takes nobody anywhere.
LEMMA TrustMovesNobody ==
    ASSUME CatalogTypeOK, NEW c \in Callers, NEW o \in Objects, NEW status \in Rulings,
           SetTrust(c, o, status), NEW d \in Callers
    PROVE  call'[d].pc = call[d].pc
  <1>1. call[d] \in CallShapes
    BY CallFields DEF Calls
  <1>2. call'[d] = IF status # "blocked" /\ call[d].object = o
                   THEN [call[d] EXCEPT !.wasBlocked = FALSE] ELSE call[d]
    BY DEF SetTrust
  <1> QED
    BY <1>1, <1>2 DEF CallShapes

\* What a step can be: of the only writer, of a reader, or of nobody's call.
StepOfWriter(c) ==
    /\ OnlyThisCall(c)
    /\ \A d \in Callers : d # c => ~Writing(d)

StepOfReader(c) ==
    /\ OnlyThisCall(c)
    /\ ~Writing(c)
    /\ call'[c].pc \in Readers \cup {"idle"}
    /\ UNCHANGED <<data, drafts, rows, proposals, lock, ruling, named, clean>>

NobodyMoves == \A d \in Callers : call'[d].pc = call[d].pc

\* A reader's steps, an operation that begins to read among them.
LEMMA ReadersStep ==
    ASSUME CatalogTypeOK, NEW c \in Callers,
           Read(c) \/ StartResolve(c) \/ \E o \in Objects : StartSearch(c, o)
    PROVE  StepOfReader(c)
  <1>1. CASE Read(c)
    <2>1. UNCHANGED <<data, drafts, rows, proposals, lock, ruling, named, clean>>
      BY <1>1 DEF Read, ResolveRow, ResolveDigest, Load, SearchRow, Served, files, db, history
    <2> QED
      BY <1>1, <2>1, ReadersGoOn, ReadersRead DEF StepOfReader, Writing
  <1>2. CASE StartResolve(c) \/ \E o \in Objects : StartSearch(c, o)
    <2>1. call[c].pc = "idle" /\ call'[c].pc \in Readers /\ UNCHANGED <<named, clean>>
      BY <1>2, BeginsWith DEF StartResolve, StartSearch, MayBegin, At, Readers, history
    <2> QED
      BY <1>2, <2>1, BeginsACall DEF Begun, StepOfReader, Writing
  <1> QED
    BY <1>1, <1>2

\* A writer's steps, while the tree is clean.
LEMMA WritersStep ==
    ASSUME CatalogTypeOK, clean => OneWriter, clean', NEW c \in Callers,
           \/ StartPublish(c) \/ StartReindex(c)
           \/ \E p \in Proposals : \/ StartUpdate(c, p) \/ StartReject(c, p)
                                   \/ \E x \in Contents : StartProposalPublish(c, p, x)
           \/ Publish(c) \/ Revise(c) \/ Review(c) \/ Reindex(c)
    PROVE  StepOfWriter(c)
  <1>1. OnlyThisCall(c)
    BY BeginsACall, WritesGoOn, ReindexKeepsTypes DEF Begun
  <1>2. \A d \in Callers : d # c => ~Writing(d)
    <2>1. \/ Overlaps \/ StartReindex(c)
          \/ Publish(c) \/ Revise(c) \/ Review(c) \/ Reindex(c)
      BY DEF StartPublish, StartUpdate, StartReject, StartProposalPublish
    <2> QED
      BY <2>1, WriterIsAlone
  <1> QED
    BY <1>1, <1>2 DEF StepOfWriter

\* No step lets a second writer in and leaves the tree clean.
LEMMA OneWriterKept ==
    ASSUME CatalogTypeOK, clean => OneWriter, [Next]_vars, clean'
    PROVE  OneWriter'
  <1>0. OneWriter \/ \E c \in Callers : StartReindex(c)
    BY CleanChanges
  <1>1. ASSUME NEW c \in Callers, StepOfWriter(c)
        PROVE  OneWriter'
    BY <1>1 DEF StepOfWriter, OnlyThisCall, OneWriter, Writing
  <1>2. ASSUME NEW c \in Callers, StepOfReader(c), OneWriter
        PROVE  OneWriter'
    BY <1>2 DEF StepOfReader, OnlyThisCall, OneWriter, Writing
  <1>3. CASE NobodyMoves /\ OneWriter
    BY <1>3 DEF NobodyMoves, OneWriter, Writing
  <1>4. ASSUME NEW c \in Callers, Crash(c), OneWriter
        PROVE  OneWriter'
    <2>1. OnlyThisCall(c) /\ ~Writing(c)'
      BY <1>4, DoneForgets, Nothing DEF Crash, Writing
    <2> QED
      BY <1>4, <2>1 DEF OnlyThisCall, OneWriter, Writing
  <1>5. ASSUME NEW c \in Callers, Begin(c)
        PROVE  StepOfWriter(c) \/ StepOfReader(c) \/ NobodyMoves
    BY <1>5, WritersStep, ReadersStep, TrustMovesNobody
    DEF Begin, AuthorWorkflow, ProposeMemory, NewDraft, NobodyMoves
  <1>6. ASSUME NEW o \in Objects, Edit(o) \/ \E p \in Proposals : EditDraft(p, o)
        PROVE  NobodyMoves
    BY <1>6 DEF Edit, EditDraft, NobodyMoves
  <1>7. CASE UNCHANGED vars /\ OneWriter
    BY <1>7, <1>3 DEF vars, NobodyMoves
  <1>8. ASSUME NEW c \in Callers, StartReindex(c)
        PROVE  OneWriter'
    BY <1>1, <1>8, WritersStep
  <1>9. CASE OneWriter
    BY <1>1, <1>2, <1>3, <1>4, <1>5, <1>6, <1>7, <1>9, WritersStep, ReadersStep DEF Next
  <1> QED
    BY <1>0, <1>8, <1>9

-----------------------------------------------------------------------------
(* What lands was reviewed *)

\* Named contents stay named, and what slipped in stays known.
LEMMA NamesStay ==
    ASSUME [Next]_vars
    PROVE  named \subseteq named' /\ slipped \subseteq slipped'
  <1> USE DEF history, PutDraft
  <1>1. ASSUME NEW c \in Callers, Begin(c)
        PROVE  named \subseteq named' /\ slipped \subseteq slipped'
    BY <1>1 DEF Begin, StartPublish, StartReindex, StartResolve, StartUpdate, StartReject,
       StartProposalPublish, StartSearch, NewDraft, AuthorWorkflow, ProposeMemory, SetTrust
  <1>2. ASSUME NEW c \in Callers, Publish(c) \/ Revise(c)
        PROVE  named \subseteq named' /\ slipped \subseteq slipped'
    BY <1>2 DEF Publish, RemoveDirectory, CopyPart, WriteObject, IndexObject,
       Revise, WriteDraft, UnlinkDraft, RecordDraft, RecordRejection
  <1>3. ASSUME NEW c \in Callers, Review(c) \/ Reindex(c)
        PROVE  named \subseteq named' /\ slipped \subseteq slipped'
    BY <1>3 DEF Review, CheckDraft, VerifyDraft, ParseDraft, ReadDraft, MarkPublished,
       Reindex, ReindexDigest, ReindexUpsert, ReindexCommit
  <1>4. ASSUME NEW c \in Callers, Read(c) \/ Crash(c)
        PROVE  named \subseteq named' /\ slipped \subseteq slipped'
    BY <1>4 DEF Read, ResolveRow, ResolveDigest, Load, SearchRow, Served, Crash
  <1>5. ASSUME NEW o \in Objects, Edit(o) \/ \E p \in Proposals : EditDraft(p, o)
        PROVE  named \subseteq named' /\ slipped \subseteq slipped'
    BY <1>5 DEF Edit, EditDraft
  <1> QED
    BY <1>1, <1>2, <1>3, <1>4, <1>5 DEF Next, vars

\* A publisher's own part: what it takes on its way was reviewed.
LEMMA OwnPartIsReviewed ==
    ASSUME CatalogTypeOK, OnlyReviewedOnTheWay, [Next]_vars,
           NEW c \in Callers,
           \/ StartPublish(c) \/ StartReindex(c)
           \/ \E p \in Proposals : \/ StartUpdate(c, p) \/ StartReject(c, p)
                                   \/ \E x \in Contents : StartProposalPublish(c, p, x)
           \/ Publish(c) \/ Revise(c) \/ Review(c) \/ Reindex(c)
    PROVE  ReviewedByThen(c)'
  <1> USE DEF ReviewedByThen, Reviewed
  <1>0. ReviewedByThen(c) /\ named \subseteq named' /\ slipped \subseteq slipped'
    BY NamesStay DEF OnlyReviewedOnTheWay
  <1>1. CASE StartPublish(c) \/ StartReindex(c)
    BY <1>1, BeginsWith DEF Reviewing, Publishing
  <1>2. CASE \E p \in Proposals : StartUpdate(c, p) \/ StartReject(c, p)
    BY <1>2, BeginsWith DEF Reviewing, Publishing
  <1>3. ASSUME NEW p \in Proposals, NEW x \in Contents, StartProposalPublish(c, p, x)
        PROVE  ReviewedByThen(c)'
    <2>1. call'[c].pc = "pub_check" /\ call'[c].digest = x
      BY <1>3, BeginsWith
    <2>2. x \in named'
      BY <1>3 DEF StartProposalPublish
    <2> QED
      BY <2>1, <2>2 DEF Reviewing, Publishing
  <1>4. CASE Publish(c)
    <2>1. \/ call'[c] = NoCall
          \/ /\ call[c].pc \in Publishing /\ call'[c].pc \in Publishing
             /\ call'[c].content = call[c].content /\ call'[c].object = call[c].object
      BY <1>4, CallFields, StepKeeps, DoneForgets
      DEF Publish, RemoveDirectory, CopyPart, WriteObject, IndexObject, At, Publishing,
          Places, Revising, Reviewing, Readers
    <2> QED
      BY <1>0, <2>1, Nothing DEF Publishing, Reviewing
  <1>5. CASE Revise(c) \/ Reindex(c)
    <2>1. call'[c].pc \in Revising \cup Reindexing \cup {"idle"}
      <3>1. CASE Reindex(c)
        BY <3>1, ReindexersReindex
      <3>2. CASE WriteDraft(c) \/ UnlinkDraft(c)
        BY <3>2, CallFields, StepKeeps
        DEF WriteDraft, UnlinkDraft, At, Publishing, Places, Revising, Reviewing, Readers
      <3>3. CASE RecordDraft(c) \/ RecordRejection(c)
        BY <3>3, DoneForgets, Nothing DEF RecordDraft, RecordRejection
      <3> QED
        BY <1>5, <3>1, <3>2, <3>3 DEF Revise
    <2> QED
      BY <2>1 DEF Publishing, Reviewing, Revising, Reindexing
  <1>6. CASE Review(c)
    <2> USE DEF At, Reviewing
    <2>1. CASE CheckDraft(c)
      <3>1. \/ call'[c] = NoCall
            \/ Step(c, "pub_verify") /\ DraftOf(c) = call[c].digest
        BY <2>1, DoneForgets DEF CheckDraft, DigestMatches
      <3>2. CASE Step(c, "pub_verify") /\ DraftOf(c) = call[c].digest
        <4>1. /\ call'[c].pc = "pub_verify" /\ call'[c].digest = call[c].digest
              /\ call'[c].proposal = call[c].proposal /\ call'[c].object = call[c].object
          BY <2>1, <3>2, CallFields, StepKeeps
          DEF CheckDraft, Places, Publishing, Revising, Readers
        <4> QED
          BY <1>0, <2>1, <3>2, <4>1 DEF CheckDraft, DraftOf, files, Publishing
      <3> QED
        BY <3>1, <3>2, Nothing DEF Publishing
    <2>2. CASE VerifyDraft(c)
      <3>1. call'[c] = NoCall \/ Step(c, "pub_parse")
        BY <2>2, DoneForgets DEF VerifyDraft
      <3>2. CASE Step(c, "pub_parse")
        <4>1. /\ call'[c].pc = "pub_parse" /\ call'[c].digest = call[c].digest
              /\ call'[c].proposal = call[c].proposal /\ call'[c].object = call[c].object
          BY <2>2, <3>2, CallFields, StepKeeps
          DEF VerifyDraft, Places, Publishing, Revising, Readers
        <4> QED
          BY <1>0, <2>2, <3>2, <4>1 DEF VerifyDraft, DraftOf, files, Publishing
      <3> QED
        BY <3>1, <3>2, Nothing DEF Publishing
    <2>3. CASE ParseDraft(c)
      <3>1. \/ call'[c] = NoCall
            \/ /\ DraftOf(c) # NoContent
               /\ call' = [call EXCEPT ![c].pc = "pub_read", ![c].old = DraftOf(c).object]
        BY <2>3, DoneForgets DEF ParseDraft
      <3>2. CASE /\ DraftOf(c) # NoContent
                 /\ call' = [call EXCEPT ![c].pc = "pub_read", ![c].old = DraftOf(c).object]
        <4>1. /\ call'[c].pc = "pub_read" /\ call'[c].digest = call[c].digest
              /\ call'[c].proposal = call[c].proposal /\ call'[c].object = call[c].object
              /\ call'[c].old = DraftOf(c).object
          BY <2>3, <3>2, ParseKeeps DEF ParseDraft
        <4>2. DraftOf(c) \in Contents
          BY <2>3, <3>2, DraftIsADraft DEF ParseDraft, Drafts
        <4> QED
          BY <1>0, <2>3, <4>1, <4>2, ContentsAreOfObjects DEF ParseDraft, DraftOf, files, Publishing
      <3> QED
        BY <3>1, <3>2, Nothing DEF Publishing
    <2>4. CASE ReadDraft(c)
      <3>1. \/ call'[c] = NoCall
            \/ /\ DraftOf(c) # NoContent
               /\ call' = [call EXCEPT ![c].pc = "pub_write", ![c].content = DraftOf(c),
                                       ![c].object = call[c].old]
        BY <2>4, DoneForgets DEF ReadDraft
      <3>2. CASE /\ DraftOf(c) # NoContent
                 /\ call' = [call EXCEPT ![c].pc = "pub_write", ![c].content = DraftOf(c),
                                         ![c].object = call[c].old]
        <4>1. /\ call'[c].pc = "pub_write" /\ call'[c].content = DraftOf(c)
              /\ call'[c].object = call[c].old
          BY <2>4, <3>2, ReadKeeps DEF ReadDraft
        <4> QED
          BY <1>0, <2>4, <3>2, <4>1 DEF ReadDraft, Publishing
      <3> QED
        BY <3>1, <3>2, Nothing DEF Publishing
    <2>5. CASE MarkPublished(c)
      BY <2>5, DoneForgets, Nothing DEF MarkPublished, Publishing
    <2> QED
      BY <1>6, <2>1, <2>2, <2>3, <2>4, <2>5 DEF Review
  <1> QED
    BY <1>1, <1>2, <1>3, <1>4, <1>5, <1>6

\* What a draft under publication can become: gone, or what slips in.
LEMMA DraftSlips ==
    ASSUME CatalogTypeOK, [Next]_vars, NEW d \in Callers,
           call[d].pc \in {"pub_verify", "pub_parse", "pub_read"}
    PROVE  drafts'[call[d].proposal][call[d].object]
               \in {DraftOf(d), NoContent} \cup slipped'
  <1> DEFINE p == call[d].proposal
             o == call[d].object
  <1>0. p \in Proposals /\ o \in Objects /\ drafts \in [Proposals -> [Objects -> Drafts]]
    BY CallFields DEF Reviewing, Readers, CatalogTypeOK
  <1>1. CASE drafts' = drafts
    BY <1>1 DEF DraftOf
  <1>2. ASSUME NEW q, NEW r, NEW new, PutDraft(q, r, new)
        PROVE  drafts'[p][o] \in {DraftOf(d), NoContent} \cup slipped'
    <2>1. CASE q = p
      <3>1. Unguarded(q)
        BY <2>1 DEF Unguarded
      <3>2. new \in slipped'
        BY <1>2, <3>1 DEF PutDraft
      <3>3. drafts'[p][o] \in {drafts[p][o], new}
        BY <1>0, <1>2, <2>1 DEF PutDraft
      <3> QED
        BY <3>2, <3>3 DEF DraftOf
    <2>2. CASE q # p
      BY <1>0, <1>2, <2>2 DEF PutDraft, DraftOf
    <2> QED
      BY <2>1, <2>2
  <1>3. ASSUME NEW c \in Callers, UnlinkDraft(c)
        PROVE  drafts'[p][o] \in {DraftOf(d), NoContent}
    <2>1. drafts' = [drafts EXCEPT ![call[c].proposal][call[c].old] = NoContent]
      BY <1>3 DEF UnlinkDraft
    <2> QED
      BY <1>0, <2>1 DEF DraftOf
  <1>4. ASSUME NEW c \in Callers, Begin(c)
        PROVE  \/ drafts' = drafts
               \/ \E q \in Proposals : \E new \in Contents : PutDraft(q, new.object, new)
    BY <1>4 DEF Begin, StartPublish, StartReindex, StartResolve, StartUpdate, StartReject,
       StartProposalPublish, StartSearch, NewDraft, AuthorWorkflow, ProposeMemory, SetTrust,
       files
  <1>5. ASSUME NEW c \in Callers, Publish(c) \/ Reindex(c) \/ Read(c) \/ Crash(c)
        PROVE  drafts' = drafts
    BY <1>5, ReindexersReindex
    DEF Publish, RemoveDirectory, CopyPart, WriteObject, IndexObject, Read, ResolveRow,
        ResolveDigest, Load, SearchRow, Served, Crash, files
  <1>6. ASSUME NEW c \in Callers, Review(c) \/ RecordDraft(c) \/ RecordRejection(c)
        PROVE  drafts' = drafts
    BY <1>6 DEF Review, CheckDraft, VerifyDraft, ParseDraft, ReadDraft, MarkPublished,
       RecordDraft, RecordRejection, files
  <1>7. ASSUME NEW c \in Callers, WriteDraft(c)
        PROVE  PutDraft(call[c].proposal, call[c].object, call[c].content)
    BY <1>7 DEF WriteDraft
  <1>8. ASSUME NEW q \in Objects, Edit(q)
        PROVE  drafts' = drafts
    BY <1>8 DEF Edit
  <1>9. ASSUME NEW r \in Objects, NEW q \in Proposals, EditDraft(q, r)
        PROVE  \E new \in Proposable : PutDraft(q, r, new)
    BY <1>9 DEF EditDraft
  <1>10. drafts'[p][o] \in {DraftOf(d), NoContent} \cup slipped'
    <2>1. ASSUME NEW c \in Callers, Begin(c) \/ WriteDraft(c)
          PROVE  drafts'[p][o] \in {DraftOf(d), NoContent} \cup slipped'
      <3>1. CASE Begin(c)
        BY <1>1, <1>2, <1>4, <3>1
      <3>2. CASE WriteDraft(c)
        BY <1>2, <1>7, <3>2
      <3> QED
        BY <2>1, <3>1, <3>2
    <2>2. ASSUME NEW q \in Objects, NEW r \in Proposals, EditDraft(r, q)
          PROVE  drafts'[p][o] \in {DraftOf(d), NoContent} \cup slipped'
      BY <1>2, <1>9, <2>2
    <2>3. CASE UNCHANGED vars
      BY <1>1, <2>3 DEF vars
    <2> QED
      BY <1>1, <1>3, <1>5, <1>6, <1>8, <2>1, <2>2, <2>3 DEF Next, Revise
  <1> QED
    BY <1>10

\* Nobody puts on another's way what was not reviewed.
LEMMA OthersPartIsReviewed ==
    ASSUME CatalogTypeOK, OnlyReviewedOnTheWay, [Next]_vars, NEW d \in Callers,
           /\ call'[d].pc = call[d].pc /\ call'[d].proposal = call[d].proposal
           /\ call'[d].object = call[d].object /\ call'[d].digest = call[d].digest
           /\ call'[d].old = call[d].old /\ call'[d].content = call[d].content
    PROVE  ReviewedByThen(d)'
  <1>1. ReviewedByThen(d) /\ named \subseteq named' /\ slipped \subseteq slipped'
    BY NamesStay DEF OnlyReviewedOnTheWay
  <1>2. ASSUME call[d].pc \in {"pub_verify", "pub_parse", "pub_read"}
        PROVE  DraftOf(d)' \in Reviewed' \cup {NoContent}
    BY <1>1, <1>2, DraftSlips DEF DraftOf, ReviewedByThen, Reviewed
  <1> QED
    BY <1>1, <1>2 DEF ReviewedByThen, Reviewed

\* No step puts on its way what was not reviewed.
LEMMA ReviewedOnTheWayKept ==
    ASSUME CatalogTypeOK, OnlyReviewedOnTheWay, [Next]_vars
    PROVE  OnlyReviewedOnTheWay'
  <1>1. ASSUME NEW c \in Callers, OnlyThisCall(c), ReviewedByThen(c)'
        PROVE  OnlyReviewedOnTheWay'
    BY <1>1, OthersPartIsReviewed DEF OnlyReviewedOnTheWay, OnlyThisCall
  <1>2. CASE call' = call
    BY <1>2, OthersPartIsReviewed DEF OnlyReviewedOnTheWay
  <1>3. ASSUME NEW c \in Callers, StepOfReader(c) \/ Crash(c)
        PROVE  OnlyReviewedOnTheWay'
    <2>1. OnlyThisCall(c) /\ call'[c].pc \in Readers \cup {"idle"}
      BY <1>3, DoneForgets, Nothing DEF StepOfReader, Crash
    <2>2. ReviewedByThen(c)'
      BY <2>1 DEF ReviewedByThen, Readers, Reviewing, Publishing
    <2> QED
      BY <1>1, <2>1, <2>2
  <1>4. ASSUME NEW c \in Callers, NEW o \in Objects, NEW s \in Rulings, SetTrust(c, o, s)
        PROVE  OnlyReviewedOnTheWay'
    <2>1. ASSUME NEW d \in Callers
          PROVE  ReviewedByThen(d)'
      <3>1. call[d] \in CallShapes
        BY CallFields DEF Calls
      <3>2. call'[d] = [call[d] EXCEPT !.wasBlocked = call'[d].wasBlocked]
        BY <1>4, TrustKeeps
      <3>3. PICK b : call'[d] = [call[d] EXCEPT !.wasBlocked = b]
        BY <3>2
      <3> QED
        BY <3>1, <3>3, OthersPartIsReviewed DEF CallShapes
    <2> QED
      BY <2>1 DEF OnlyReviewedOnTheWay
  <1>5. ASSUME NEW c \in Callers,
               \/ StartPublish(c) \/ StartReindex(c)
               \/ \E p \in Proposals : \/ StartUpdate(c, p) \/ StartReject(c, p)
                                       \/ \E x \in Contents : StartProposalPublish(c, p, x)
               \/ Publish(c) \/ Revise(c) \/ Review(c) \/ Reindex(c)
        PROVE  OnlyReviewedOnTheWay'
    <2>1. OnlyThisCall(c)
      BY <1>5, BeginsACall, WritesGoOn, ReindexKeepsTypes DEF Begun
    <2> QED
      BY <1>1, <1>5, <2>1, OwnPartIsReviewed
  <1>6. ASSUME NEW c \in Callers, Begin(c)
        PROVE  OnlyReviewedOnTheWay'
    <2>1. ASSUME NEW p \in Proposals, AuthorWorkflow(c, p) \/ ProposeMemory(c, p)
          PROVE  OnlyReviewedOnTheWay'
      BY <1>2, <2>1 DEF AuthorWorkflow, ProposeMemory, NewDraft
    <2> QED
      BY <1>3, <1>4, <1>5, <1>6, <2>1, ReadersStep DEF Begin
  <1>7. ASSUME NEW o \in Objects, Edit(o) \/ \E p \in Proposals : EditDraft(p, o)
        PROVE  call' = call
    BY <1>7 DEF Edit, EditDraft
  <1> QED
    BY <1>2, <1>3, <1>5, <1>6, <1>7, ReadersStep DEF Next, vars

\* The data tree changes by a publish or an edit only.
LEMMA TreeChanges ==
    ASSUME [Next]_vars
    PROVE  \/ data' = data
           \/ \E c \in Callers : RemoveDirectory(c) \/ CopyPart(c) \/ WriteObject(c)
           \/ \E o \in Objects : Edit(o)
  <1> USE DEF files
  <1>1. ASSUME NEW c \in Callers, Begin(c)
        PROVE  data' = data
    BY <1>1 DEF Begin, StartPublish, StartReindex, StartResolve, StartUpdate, StartReject,
       StartProposalPublish, StartSearch, NewDraft, AuthorWorkflow, ProposeMemory, SetTrust
  <1>2. ASSUME NEW c \in Callers, Revise(c) \/ IndexObject(c)
        PROVE  data' = data
    BY <1>2 DEF IndexObject, Revise, WriteDraft, UnlinkDraft, RecordDraft, RecordRejection
  <1>3. ASSUME NEW c \in Callers, Review(c) \/ Reindex(c)
        PROVE  data' = data
    BY <1>3 DEF Review, CheckDraft, VerifyDraft, ParseDraft, ReadDraft, MarkPublished,
       Reindex, ReindexDigest, ReindexUpsert, ReindexCommit
  <1>4. ASSUME NEW c \in Callers, Read(c) \/ Crash(c)
        PROVE  data' = data
    BY <1>4 DEF Read, ResolveRow, ResolveDigest, Load, SearchRow, Served, Crash
  <1>5. ASSUME NEW o \in Objects, NEW p \in Proposals, EditDraft(p, o)
        PROVE  data' = data
    BY <1>5 DEF EditDraft
  <1> QED
    BY <1>1, <1>2, <1>3, <1>4, <1>5 DEF Next, Publish, vars

\* The rows of proposals change by a draft, a revision or a publication only.
LEMMA ProposalsChange ==
    ASSUME [Next]_vars
    PROVE  \/ proposals' = proposals
           \/ \E c \in Callers :
                \/ RecordDraft(c) \/ RecordRejection(c) \/ MarkPublished(c)
                \/ \E p \in Proposals : \E x \in Contents : NewDraft(c, p, x)
  <1> USE DEF db
  <1>1. ASSUME NEW c \in Callers, Begin(c)
        PROVE  \/ proposals' = proposals
               \/ \E p \in Proposals : \E x \in Contents : NewDraft(c, p, x)
    BY <1>1 DEF Begin, StartPublish, StartReindex, StartResolve, StartUpdate, StartReject,
       StartProposalPublish, StartSearch, AuthorWorkflow, ProposeMemory, SetTrust
  <1>2. ASSUME NEW c \in Callers, Publish(c) \/ WriteDraft(c) \/ UnlinkDraft(c)
        PROVE  proposals' = proposals
    BY <1>2 DEF Publish, RemoveDirectory, CopyPart, WriteObject, IndexObject, WriteDraft,
       UnlinkDraft
  <1>3. ASSUME NEW c \in Callers,
               \/ CheckDraft(c) \/ VerifyDraft(c) \/ ParseDraft(c) \/ ReadDraft(c)
               \/ Reindex(c)
        PROVE  proposals' = proposals
    BY <1>3 DEF CheckDraft, VerifyDraft, ParseDraft, ReadDraft,
       Reindex, ReindexDigest, ReindexUpsert, ReindexCommit
  <1>4. ASSUME NEW c \in Callers, Read(c) \/ Crash(c)
        PROVE  proposals' = proposals
    BY <1>4 DEF Read, ResolveRow, ResolveDigest, Load, SearchRow, Served, Crash
  <1>5. ASSUME NEW o \in Objects, Edit(o) \/ \E p \in Proposals : EditDraft(p, o)
        PROVE  proposals' = proposals
    BY <1>5 DEF Edit, EditDraft
  <1> QED
    BY <1>1, <1>2, <1>3, <1>4, <1>5 DEF Next, Revise, Review, vars

\* No step puts into the tree, or records as published, what nobody named.
LEMMA ReviewedLandsKept ==
    ASSUME ReviewInv, [Next]_vars
    PROVE  OnlyReviewedLands'
  <1> USE DEF ReviewInv, Reviewed
  <1>0. Reviewed \subseteq Reviewed' /\ named \subseteq named'
    BY NamesStay
  <1>1. ASSUME NEW o \in Objects, data'[o] # NoContent
        PROVE  \E x \in Reviewed' : data'[o] \in {x, Torn(x)}
    <2>1. CASE data' = data
      BY <1>0, <1>1, <2>1 DEF OnlyReviewedLands, Landed
    <2>2. ASSUME NEW c \in Callers, RemoveDirectory(c) \/ CopyPart(c) \/ WriteObject(c)
          PROVE  \E x \in Reviewed' : data'[o] \in {x, Torn(x)}
      <3>1. call[c].content \in Reviewed
        BY <2>2 DEF OnlyReviewedOnTheWay, ReviewedByThen, RemoveDirectory, CopyPart, WriteObject,
           At, Publishing
      <3>2. data'[o] = data[o] \/ data'[o] \in {NoContent, call[c].content, Torn(call[c].content)}
        BY <2>2 DEF RemoveDirectory, CopyPart, WriteObject, CatalogTypeOK
      <3> QED
        BY <1>0, <1>1, <3>1, <3>2 DEF OnlyReviewedLands, Landed
    <2>3. ASSUME NEW q \in Objects, Edit(q)
          PROVE  \E x \in Reviewed' : data'[o] \in {x, Torn(x)}
      <3>1. PICK new \in Contents :
              data' = [data EXCEPT ![q] = new] /\ named' = named \cup {new}
        BY <2>3 DEF Edit
      <3> QED
        BY <1>0, <1>1, <3>1 DEF OnlyReviewedLands, Landed, CatalogTypeOK
    <2> QED
      BY <2>1, <2>2, <2>3, TreeChanges
  <1>2. ASSUME NEW p \in Proposals, proposals'[p].status = "published"
        PROVE  proposals'[p].published \in Reviewed'
    <2>0. /\ proposals \in [Proposals -> ProposalRows] /\ proposals[p] \in ProposalRows
          /\ NoProposal \in ProposalRows
          /\ proposals[p].status = "published" => proposals[p].published \in Reviewed'
      BY <1>0, Nothing DEF CatalogTypeOK, OnlyReviewedLands, Landed
    <2>1. ASSUME proposals'[p] = proposals[p]
          PROVE  proposals'[p].published \in Reviewed'
      BY <1>2, <2>0, <2>1
    <2>2. ASSUME NEW c \in Callers, RecordDraft(c)
          PROVE  proposals'[p].published \in Reviewed'
      <3>1. CASE call[c].proposal = p
        <4>1. proposals'[p] = [proposals[p] EXCEPT !.object = call[c].object,
                                                   !.digest = call[c].content]
          BY <2>0, <2>2, <3>1 DEF RecordDraft
        <4>2. /\ proposals'[p].status = proposals[p].status
              /\ proposals'[p].published = proposals[p].published
          BY <2>0, <4>1 DEF ProposalRows
        <4> QED
          BY <1>2, <2>0, <4>2
      <3>2. CASE call[c].proposal # p
        BY <2>0, <2>1, <2>2, <3>2 DEF RecordDraft
      <3> QED
        BY <3>1, <3>2
    <2>3. ASSUME NEW c \in Callers, RecordRejection(c)
          PROVE  proposals'[p].published \in Reviewed'
      <3>1. CASE call[c].proposal = p
        <4>1. proposals'[p] = [proposals[p] EXCEPT !.status = "rejected"]
          BY <2>0, <2>3, <3>1 DEF RecordRejection
        <4> QED
          BY <1>2, <2>0, <4>1 DEF ProposalRows
      <3>2. CASE call[c].proposal # p
        BY <2>0, <2>1, <2>3, <3>2 DEF RecordRejection
      <3> QED
        BY <3>1, <3>2
    <2>4. ASSUME NEW c \in Callers, MarkPublished(c)
          PROVE  proposals'[p].published \in Reviewed'
      <3>0. call[c].content \in Reviewed
        BY <2>4 DEF OnlyReviewedOnTheWay, ReviewedByThen, MarkPublished, At, Publishing
      <3>1. CASE Got(call[c].proposal) /\ call[c].proposal = p
        <4>1. proposals'[p] = [proposals[p] EXCEPT !.status = "published",
                                                   !.published = call[c].content]
          BY <2>0, <2>4, <3>1 DEF MarkPublished
        <4>2. proposals'[p].published = call[c].content
          BY <2>0, <4>1 DEF ProposalRows
        <4> QED
          BY <1>0, <3>0, <4>2
      <3>2. CASE ~Got(call[c].proposal) \/ call[c].proposal # p
        BY <2>0, <2>1, <2>4, <3>2 DEF MarkPublished
      <3> QED
        BY <3>1, <3>2
    <2>5. ASSUME NEW c \in Callers, NEW q \in Proposals, NEW x \in Contents, NewDraft(c, q, x)
          PROVE  proposals'[p].published \in Reviewed'
      <3>1. CASE q = p
        <4>1. proposals'[p] = [NoProposal EXCEPT !.status = "draft", !.kind = x.object.kind,
                                 !.object = x.object, !.digest = x]
          BY <2>0, <2>5, <3>1 DEF NewDraft
        <4> QED
          BY <1>2, <2>0, <4>1 DEF ProposalRows
      <3>2. CASE q # p
        BY <2>0, <2>1, <2>5, <3>2 DEF NewDraft
      <3> QED
        BY <3>1, <3>2
    <2> QED
      BY <2>1, <2>2, <2>3, <2>4, <2>5, ProposalsChange
  <1> QED
    BY <1>1, <1>2 DEF OnlyReviewedLands, Landed

\* What is on its way to the tree and what is in it was reviewed, in every
\* reachable state (op_proposal_publish).
THEOREM ReviewInvariant == Spec => []ReviewInv
  <1>1. Init => ReviewInv
    <2>1. Init => \A c \in Callers : call[c].pc = "idle"
      BY Nothing DEF Init
    <2>2. Init => OnlyReviewedLands
      <3>1. Init => \A p \in Proposals : proposals[p] = NoProposal
        BY DEF Init
      <3> QED
        BY <3>1, Nothing DEF Init, OnlyReviewedLands, Landed
    <2> QED
      BY <2>1, <2>2, InitTrustInv
      DEF TrustInv, ReviewInv, OnlyReviewedOnTheWay, ReviewedByThen, Reviewing, Publishing
  <1>2. ReviewInv /\ [Next]_vars => ReviewInv'
    BY TypesKept, ReviewedOnTheWayKept, ReviewedLandsKept DEF ReviewInv
  <1> QED
    BY <1>1, <1>2, PTL DEF Spec

\* Nothing is in the data tree, and no proposal says it was published, that
\* nobody published, edited or named the digest of, but what was put into a draft
\* between the check of its digest and the reading of its bytes.
THEOREM NothingUnreviewedLands == Spec => []OnlyReviewedLands
  <1>1. ReviewInv => OnlyReviewedLands
    BY DEF ReviewInv
  <1> QED
    BY <1>1, ReviewInvariant, PTL

-----------------------------------------------------------------------------
(* The index agrees with the files *)

\* A row that is indexed is there and has the digest of its file.
LEMMA IndexedHasDigest ==
    ASSUME NEW row \in Rows, NEW x \in Bodies, NEW source \in Trees
    PROVE  /\ Indexed(row, x, source) # NoRow
           /\ Indexed(row, x, source).digest = x
  BY DEF Indexed, NoRow, Rows, Trees

\* The row a publish writes has the digest of the file it wrote.
LEMMA PublishedHasDigest ==
    ASSUME NEW row \in Rows, NEW x \in Bodies
    PROVE  PublishedRow(row, x).digest = x
  BY DEF PublishedRow, Rows

\* What is clean of a step of the only writer.
Sound(c) ==
    /\ (\A d \in Callers : call[d].pc \notin Reindexing) => OthersAgree
    /\ OnTheWay(c)

\* A rebuild that begins has everything before it.
LEMMA RebuildBegins ==
    ASSUME CatalogTypeOK, NEW c \in Callers, StartReindex(c)
    PROVE  Sound(c)'
  <1>1. call'[c].pc = "rx_next" /\ call'[c].todo = Trees \X Objects
    BY BeginsWith
  <1>2. ReindexProgress(c)'
    BY <1>1 DEF ReindexProgress, Passed, AtUpsert, Trees
  <1> QED
    BY <1>1, <1>2 DEF Sound, OnTheWay, Reindexing

\* The next file: the shipped ones go first.
LEMMA NextFileKeepsProgress ==
    ASSUME CatalogTypeOK, NEW c \in Callers, ReindexProgress(c), ReindexDigest(c)
    PROVE  ReindexProgress(c)'
  <1>1. PICK slot \in Phase(call[c].todo) :
          /\ slot \in call[c].todo /\ slot \in Trees \X Objects
          /\ OnlyThisCall(c)
          /\ call'[c].pc = IF FileAt(slot) = NoContent THEN "rx_next" ELSE "rx_upsert"
          /\ call'[c].todo = call[c].todo \ {slot}
          /\ call'[c].content = FileAt(slot)
          /\ call'[c].object = slot[2] /\ call'[c].source = slot[1]
          /\ call'[c].pending = call[c].pending
    BY DigestKeeps
  <1>2. PICK tree \in Trees, o \in Objects : slot = <<tree, o>>
    BY <1>1
  <1>3. data' = data /\ call[c].pc = "rx_next"
    BY DEF ReindexDigest, At, files
  <1>4. tree = "data" => \A q \in Objects : <<"config", q>> \notin call[c].todo
    BY <1>1, <1>2 DEF Phase
  <1>5. tree = "config" => \A q \in Objects : <<"data", q>> \in call[c].todo
    BY <1>1, <1>2 DEF ReindexProgress
  <1>6. \A t \in Trees, q \in Objects :
          <<t, q>> \in call'[c].todo <=> <<t, q>> \in call[c].todo /\ ~(t = tree /\ q = o)
    BY <1>1, <1>2
  <1>7. /\ tree = "config" => FileAt(slot) = ConfigFiles[o]
        /\ tree = "data" => FileAt(slot) = data[o]
        /\ FileAt(slot)' = FileAt(slot)
    BY <1>2, <1>3 DEF FileAt, Trees
  <1>8. /\ call'[c].object = o /\ call'[c].source = tree
        /\ call'[c].pc \in {"rx_next", "rx_upsert"}
        /\ call'[c].pc = "rx_upsert" <=> FileAt(slot) # NoContent
    BY <1>1, <1>2
  <1>9. \A t \in Trees, q \in Objects :
          /\ Passed(c, t, q) <=> <<t, q>> \notin call[c].todo
          /\ Passed(c, t, q)' <=> /\ <<t, q>> \notin call'[c].todo
                                  /\ t = tree /\ q = o => FileAt(slot) = NoContent
    BY <1>3, <1>6, <1>8 DEF Passed, AtUpsert
  <1>10. \A q \in Objects : FileOf(q)' = FileOf(q)
    BY <1>3 DEF FileOf
  <1>11. \A q, r \in Objects : <<"config", q>> \in call'[c].todo => <<"data", r>> \in call'[c].todo
    BY <1>4, <1>5, <1>6 DEF ReindexProgress, Trees
  <1>12. call'[c].pc = "rx_upsert" =>
           /\ call'[c].object \in Objects /\ call'[c].source \in Trees
           /\ <<call'[c].source, call'[c].object>> \notin call'[c].todo
           /\ call'[c].content # NoContent
           /\ call'[c].content = (IF call'[c].source = "config" THEN ConfigFiles ELSE data')
                                    [call'[c].object]
           /\ call'[c].source = "config" => \A q \in Objects : <<"data", q>> \in call'[c].todo
    BY <1>1, <1>2, <1>3, <1>5, <1>6, <1>7, <1>8 DEF Trees
  <1>13. ASSUME NEW q \in Objects
         PROVE  /\ Passed(c, "data", q)' => WillWrite(c, q, FileOf(q))'
                /\ Passed(c, "config", q)' /\ ~Passed(c, "data", q)' =>
                      WillWrite(c, q, ConfigFiles[q])'
    <2>0. /\ Passed(c, "data", q) => WillWrite(c, q, FileOf(q))
          /\ Passed(c, "config", q) /\ ~Passed(c, "data", q) => WillWrite(c, q, ConfigFiles[q])
      BY DEF ReindexProgress
    <2>1. ASSUME Passed(c, "data", q)'
          PROVE  WillWrite(c, q, FileOf(q))
      <3>1. CASE <<"data", q>> \in call[c].todo
        <4>1. tree = "data" /\ q = o /\ FileAt(slot) = NoContent
          BY <1>6, <1>9, <2>1, <3>1 DEF Trees
        <4>2. FileOf(q) = ConfigFiles[q]
          BY <1>7, <4>1 DEF FileOf
        <4>3. Passed(c, "config", q) /\ ~Passed(c, "data", q)
          BY <1>4, <1>9, <3>1, <4>1 DEF Trees
        <4> QED
          BY <2>0, <4>2, <4>3
      <3>2. CASE <<"data", q>> \notin call[c].todo
        BY <1>9, <2>0, <3>2 DEF Trees
      <3> QED
        BY <3>1, <3>2
    <2>2. ASSUME Passed(c, "config", q)', ~Passed(c, "data", q)'
          PROVE  WillWrite(c, q, ConfigFiles[q])
      <3>1. ~Passed(c, "data", q)
        BY <1>1, <1>2, <1>6, <1>9, <2>2 DEF Trees
      <3>2. CASE <<"config", q>> \in call[c].todo
        <4>1. tree = "config" /\ q = o /\ FileAt(slot) = NoContent
          BY <1>6, <1>9, <2>2, <3>2 DEF Trees
        <4> QED
          BY <1>7, <4>1 DEF WillWrite
      <3>3. CASE <<"config", q>> \notin call[c].todo
        BY <1>9, <2>0, <3>1, <3>3 DEF Trees
      <3> QED
        BY <3>2, <3>3
    <2>3. WillWrite(c, q, FileOf(q)) => WillWrite(c, q, FileOf(q))'
      BY <1>1, <1>10 DEF WillWrite
    <2>4. WillWrite(c, q, ConfigFiles[q]) => WillWrite(c, q, ConfigFiles[q])'
      BY <1>1 DEF WillWrite
    <2> QED
      BY <2>1, <2>2, <2>3, <2>4
  <1> QED
    BY <1>11, <1>12, <1>13 DEF ReindexProgress, FileAt

\* The row of a file that was passed.
LEMMA RowKeepsProgress ==
    ASSUME CatalogTypeOK, NEW c \in Callers, ReindexProgress(c), ReindexUpsert(c)
    PROVE  ReindexProgress(c)'
  <1> DEFINE o == call[c].object
             tree == call[c].source
             row == IF call[c].pending[o] = NoRow THEN rows[o] ELSE call[c].pending[o]
             new == Indexed(row, call[c].content, tree)
  <1>1. /\ call'[c].pc = "rx_next"
        /\ call'[c].pending = [call[c].pending EXCEPT ![o] = new]
        /\ call'[c].todo = call[c].todo
    BY UpsertKeeps
  <1>2. data' = data /\ call[c].pc = "rx_upsert"
    BY DEF ReindexUpsert, At, files
  <1>3. /\ o \in Objects /\ tree \in Trees
        /\ <<tree, o>> \notin call[c].todo
        /\ call[c].content # NoContent /\ call[c].content = FileAt(<<tree, o>>)
        /\ tree = "config" => \A q \in Objects : <<"data", q>> \in call[c].todo
    BY <1>2 DEF ReindexProgress
  <1>4. call[c].pending \in [Objects -> Rows] /\ call[c].content \in Bodies
    BY CallFields
  <1>5. row \in Rows
    BY <1>3, <1>4 DEF CatalogTypeOK
  <1>6. new # NoRow /\ new.digest = call[c].content
    <2> HIDE DEF row
    <2> QED
      BY <1>3, <1>4, <1>5, IndexedHasDigest
  <1> HIDE DEF new
  <1>7. /\ call'[c].pending[o] # NoRow /\ call'[c].pending[o].digest = FileAt(<<tree, o>>)
        /\ \A q \in Objects : q # o => call'[c].pending[q] = call[c].pending[q]
    BY <1>1, <1>3, <1>4, <1>6
  <1>8. /\ tree = "config" => FileAt(<<tree, o>>) = ConfigFiles[o]
        /\ tree = "data" => FileAt(<<tree, o>>) = data[o] /\ FileOf(o) = data[o]
    BY <1>3 DEF FileAt, FileOf, Trees
  <1>9. \A t \in Trees, q \in Objects :
          /\ Passed(c, t, q) <=> <<t, q>> \notin call[c].todo /\ ~(t = tree /\ q = o)
          /\ Passed(c, t, q)' <=> <<t, q>> \notin call[c].todo
    BY <1>1, <1>2 DEF Passed, AtUpsert
  <1>10. ASSUME NEW q \in Objects
         PROVE  /\ Passed(c, "data", q)' => WillWrite(c, q, FileOf(q))'
                /\ Passed(c, "config", q)' /\ ~Passed(c, "data", q)' =>
                      WillWrite(c, q, ConfigFiles[q])'
    <2>0. /\ Passed(c, "data", q) => WillWrite(c, q, FileOf(q))
          /\ Passed(c, "config", q) /\ ~Passed(c, "data", q) => WillWrite(c, q, ConfigFiles[q])
          /\ FileOf(q)' = FileOf(q)
      BY <1>2 DEF ReindexProgress, FileOf
    <2>1. CASE q = o
      BY <1>3, <1>7, <1>8, <1>9, <2>0, <2>1 DEF WillWrite, Trees
    <2>2. CASE q # o
      <3>1. call'[c].pending[q] = call[c].pending[q]
        BY <1>7, <2>2
      <3>2. /\ Passed(c, "data", q)' <=> Passed(c, "data", q)
            /\ Passed(c, "config", q)' <=> Passed(c, "config", q)
        BY <1>9, <2>2 DEF Trees
      <3> QED
        BY <2>0, <3>1, <3>2 DEF WillWrite
    <2> QED
      BY <2>1, <2>2
  <1> QED
    BY <1>1, <1>10 DEF ReindexProgress

\* The commit of a rebuild that has passed every file.
LEMMA CommitAgrees ==
    ASSUME CatalogTypeOK, NEW c \in Callers, ReindexProgress(c), ReindexCommit(c)
    PROVE  OthersAgree'
  <1>1. /\ call[c].pc = "rx_next" /\ call[c].todo = {} /\ data' = data
        /\ rows' = [o \in Objects |-> IF call[c].pending[o] = NoRow THEN rows[o]
                                      ELSE call[c].pending[o]]
    BY DEF ReindexCommit, At, files
  <1>2. ASSUME NEW o \in Objects
        PROVE  Agrees(o)'
    <2>1. WillWrite(c, o, FileOf(o))
      BY <1>1 DEF ReindexProgress, Passed, AtUpsert
    <2>2. FileOf(o)' = FileOf(o)
      BY <1>1 DEF FileOf
    <2> QED
      BY <1>1, <2>1, <2>2 DEF WillWrite, Agrees
  <1> QED
    BY <1>2 DEF OthersAgree

\* A step of the only writer, or of none: the rows of what is not being
\* rewritten go on agreeing with their files.
LEMMA WriterKeepsAgreement ==
    ASSUME ReviewInv, clean => OneWriter, RowsAgree, clean, clean', NEW c \in Callers,
           \/ StartPublish(c)
           \/ \E p \in Proposals : \/ StartUpdate(c, p) \/ StartReject(c, p)
                                   \/ \E x \in Contents : StartProposalPublish(c, p, x)
           \/ Publish(c) \/ Revise(c) \/ Review(c)
    PROVE  Sound(c)'
  <1> USE DEF ReviewInv
  <1>0. /\ OnlyThisCall(c) /\ \A d \in Callers : d # c => ~Writing(d)
        /\ OnTheWay(c)
    BY WritersStep DEF StepOfWriter, RowsAgree
  <1>1. call[c].pc \notin Reindexing
    BY WritesGoOn
    DEF StartPublish, StartUpdate, StartReject, StartProposalPublish, MayBegin, At,
        Reindexing
  <1>2. OthersAgree
    BY <1>0, <1>1 DEF RowsAgree, Writing, Reindexing, Readers
  <1>3. \A o \in Objects : Agrees(o) \/ Rewriting(c, o)
    BY <1>0, <1>2 DEF OthersAgree, Rewriting, Writing, Readers
  <1>4. ASSUME \A o \in Objects : Agrees(o)' \/ Rewriting(c, o)'
        PROVE  OthersAgree'
    BY <1>4 DEF OthersAgree
  <1>5. ASSUME UNCHANGED <<data, rows>>, call'[c].pc \notin Reindexing \cup {"pub_index"},
               \A o \in Objects : Rewriting(c, o) => Rewriting(c, o)'
        PROVE  Sound(c)'
    <2>1. \A o \in Objects : Agrees(o)' <=> Agrees(o)
      BY <1>5 DEF Agrees, FileOf
    <2> QED
      BY <1>3, <1>4, <1>5, <2>1 DEF Sound, OnTheWay
  <1>6. CASE \/ StartPublish(c)
             \/ \E p \in Proposals : \/ StartUpdate(c, p) \/ StartReject(c, p)
                                     \/ \E x \in Contents : StartProposalPublish(c, p, x)
    <2>1. UNCHANGED <<data, rows>> /\ call[c].pc = "idle"
      BY <1>6, BeginsACall
      DEF Begun, StartPublish, StartUpdate, StartReject, StartProposalPublish, MayBegin, At
    <2>2. call'[c].pc \in {"pub_write", "upd_write", "rej_record", "pub_check"}
      BY <1>6, BeginsWith
    <2> QED
      BY <1>5, <2>1, <2>2 DEF Rewriting, Reindexing
  <1>7. CASE Revise(c)
    <2>1. UNCHANGED <<data, rows>> /\ call[c].pc \in Revising
      BY <1>7 DEF Revise, WriteDraft, UnlinkDraft, RecordDraft, RecordRejection, At,
         Revising, files, db
    <2>2. call'[c].pc \in Revising \cup {"idle"}
      BY <1>7, CallFields, StepKeeps, DoneForgets, Nothing
      DEF Revise, WriteDraft, UnlinkDraft, RecordDraft, RecordRejection, At, Publishing,
          Places, Revising, Reviewing, Readers
    <2> QED
      BY <1>5, <2>1, <2>2 DEF Rewriting, Reindexing, Revising
  <1>8. CASE Review(c)
    <2>1. UNCHANGED <<data, rows>> /\ call[c].pc \in Reviewing \cup {"pub_mark"}
      BY <1>8 DEF Review, CheckDraft, VerifyDraft, ParseDraft, ReadDraft, MarkPublished, At,
         Reviewing, files, db
    <2>2. call'[c].pc \in Reviewing \cup {"pub_write", "idle"}
      <3> USE CallFields, StepKeeps, DoneForgets, Nothing
          DEF At, Reviewing
      <3>1. CASE CheckDraft(c)
        BY <3>1 DEF CheckDraft, Places, Publishing, Revising, Readers
      <3>2. CASE VerifyDraft(c)
        <4>1. Step(c, "pub_parse") \/ Done(c)
          BY <3>2 DEF VerifyDraft
        <4> QED
          BY <3>2, <4>1 DEF VerifyDraft, Places, Publishing, Revising, Readers
      <3>3. CASE ParseDraft(c)
        BY <3>3, ParseKeeps DEF ParseDraft
      <3>4. CASE ReadDraft(c)
        BY <3>4, ReadKeeps DEF ReadDraft
      <3>5. CASE MarkPublished(c)
        BY <3>5 DEF MarkPublished
      <3> QED
        BY <1>8, <3>1, <3>2, <3>3, <3>4, <3>5 DEF Review
    <2> QED
      BY <1>5, <2>1, <2>2 DEF Rewriting, Reindexing, Reviewing
  <1>9. CASE Publish(c)
    <2> DEFINE o == call[c].object
    <2>0. /\ call[c].pc \in Publishing /\ call[c].content \in Contents /\ o \in Objects
          /\ call[c].content # NoContent /\ call[c].content \in Bodies
      BY <1>9, CallFields, CatalogAssumption
      DEF Publish, RemoveDirectory, CopyPart, WriteObject, IndexObject, At, Publishing,
          OnlyReviewedOnTheWay, ReviewedByThen
    <2>1. ASSUME NEW x, data' = [data EXCEPT ![o] = x], rows' = rows,
                 call'[c].pc \in {"pub_copy", "pub_copied", "pub_index"}, call'[c].object = o,
                 call'[c].pc = "pub_index" => x = call'[c].content
          PROVE  Sound(c)'
      <3>1. ASSUME NEW q \in Objects
            PROVE  Agrees(q)' \/ Rewriting(c, q)'
        <4>1. CASE q = o
          BY <2>1, <4>1 DEF Rewriting
        <4>2. CASE q # o
          <5>1. Agrees(q) /\ FileOf(q)' = FileOf(q)
            BY <1>3, <2>0, <2>1, <4>2 DEF FileOf, CatalogTypeOK, Rewriting
          <5> QED
            BY <2>1, <5>1 DEF Agrees
        <4> QED
          BY <4>1, <4>2
      <3>2. OnTheWay(c)'
        BY <2>0, <2>1 DEF OnTheWay, Reindexing, CatalogTypeOK
      <3> QED
        BY <1>4, <3>1, <3>2 DEF Sound
    <2> USE CallFields, StepKeeps, DoneForgets, Nothing
        DEF At, Places, Publishing, Reviewing, Revising, Readers
    <2>2. CASE RemoveDirectory(c)
      <3>1. call'[c].pc = "pub_copy" /\ call'[c].object = o
        BY <2>2 DEF RemoveDirectory
      <3> QED
        BY <2>1, <2>2, <3>1 DEF RemoveDirectory, db
    <2>3. CASE CopyPart(c)
      <3>1. call'[c].pc = "pub_copied" /\ call'[c].object = o
        BY <2>3 DEF CopyPart
      <3> QED
        BY <2>1, <2>3, <3>1 DEF CopyPart, db
    <2>4. CASE WriteObject(c)
      <3>1. /\ call'[c].pc = "pub_index" /\ call'[c].object = o
            /\ call'[c].content = call[c].content
        BY <2>4 DEF WriteObject
      <3> QED
        BY <2>1, <2>4, <3>1 DEF WriteObject, db
    <2>5. CASE IndexObject(c)
      <3>1. call'[c].pc \in {"idle", "pub_mark"}
        BY <2>5 DEF IndexObject
      <3>2. /\ data' = data /\ call[c].pc = "pub_index"
            /\ rows' = [rows EXCEPT ![o] = PublishedRow(rows[o], call[c].content)]
            /\ rows \in [Objects -> Rows]
        BY <2>5 DEF IndexObject, files, CatalogTypeOK
      <3>3. ASSUME NEW q \in Objects
            PROVE  Agrees(q)'
        <4>1. CASE q = o
          <5>1. rows'[o].digest = call[c].content
            BY <2>0, <3>2, PublishedHasDigest
          <5>2. data'[o] = call[c].content
            BY <1>0, <3>2 DEF OnTheWay
          <5> QED
            BY <2>0, <4>1, <5>1, <5>2 DEF Agrees, FileOf
        <4>2. CASE q # o
          <5>1. Agrees(q) /\ rows'[q] = rows[q]
            BY <1>3, <3>2, <4>2 DEF Rewriting
          <5> QED
            BY <3>2, <5>1 DEF Agrees, FileOf
        <4> QED
          BY <4>1, <4>2
      <3> QED
        BY <1>4, <3>1, <3>3 DEF Sound, OnTheWay, Reindexing
    <2> QED
      BY <1>9, <2>2, <2>3, <2>4, <2>5 DEF Publish
  <1> QED
    BY <1>6, <1>7, <1>8, <1>9

\* Every step keeps the agreement.
LEMMA AgreementKept ==
    ASSUME IndexInv, [Next]_vars
    PROVE  RowsAgree'
  <1> USE DEF IndexInv, ReviewInv
  <1> SUFFICES ASSUME clean'
               PROVE  /\ (\A c \in Callers : call'[c].pc \notin Reindexing) => OthersAgree'
                      /\ \A c \in Callers : OnTheWay(c)'
    BY DEF RowsAgree
  <1> DEFINE Goal == /\ (\A c \in Callers : call'[c].pc \notin Reindexing) => OthersAgree'
                     /\ \A c \in Callers : OnTheWay(c)'
  <1>0. ASSUME NEW c \in Callers, StepOfWriter(c), Sound(c)'
        PROVE  Goal
    <2>1. ASSUME NEW d \in Callers, d # c
          PROVE  OnTheWay(d)'
      <3>1. call'[d] = call[d] /\ ~Writing(d)
        BY <1>0, <2>1 DEF StepOfWriter, OnlyThisCall
      <3> QED
        BY <3>1 DEF OnTheWay, Writing, Readers, Reindexing
    <2> QED
      BY <1>0, <2>1 DEF Sound
  <1>1. ASSUME clean, UNCHANGED <<data, rows>>,
               \A d \in Callers : \/ call'[d] = call[d]
                                  \/ /\ call[d].pc \notin Reindexing
                                     /\ call[d].pc \notin {"pub_copy", "pub_copied", "pub_index"}
                                     /\ call'[d].pc \notin Reindexing \cup {"pub_index"}
        PROVE  Goal
    <2>1. \A o \in Objects : Agrees(o)' <=> Agrees(o)
      BY <1>1 DEF Agrees, FileOf
    <2>2. ASSUME NEW d \in Callers
          PROVE  OnTheWay(d)'
      <3>1. CASE call'[d] = call[d]
        BY <1>1, <3>1 DEF RowsAgree, OnTheWay, ReindexProgress, Passed, AtUpsert, WillWrite,
           FileOf, FileAt
      <3>2. CASE call'[d].pc \notin Reindexing \cup {"pub_index"}
        BY <3>2 DEF OnTheWay
      <3> QED
        BY <1>1, <3>1, <3>2
    <2>3. ASSUME \A d \in Callers : call'[d].pc \notin Reindexing
          PROVE  OthersAgree'
      <3>1. \A d \in Callers : call[d].pc \notin Reindexing
        BY <1>1, <2>3
      <3>2. OthersAgree
        BY <1>1, <3>1 DEF RowsAgree
      <3>3. ASSUME NEW d \in Callers, NEW o \in Objects, Rewriting(d, o)
            PROVE  Rewriting(d, o)'
        BY <1>1, <3>3 DEF Rewriting
      <3> QED
        BY <2>1, <3>2, <3>3 DEF OthersAgree
    <2> QED
      BY <2>2, <2>3
  <1>2. CASE ~clean
    <2>1. PICK c \in Callers : StartReindex(c)
      BY <1>2, CleanChanges
    <2> QED
      BY <1>0, <2>1, WritersStep, RebuildBegins
  <1>3. ASSUME clean, NEW c \in Callers, Begin(c)
        PROVE  Goal
    <2>1. ASSUME StartReindex(c)
          PROVE  Goal
      BY <1>0, <2>1, WritersStep, RebuildBegins
    <2>2. ASSUME \/ StartPublish(c)
                 \/ \E p \in Proposals : \/ StartUpdate(c, p) \/ StartReject(c, p)
                                         \/ \E x \in Contents : StartProposalPublish(c, p, x)
          PROVE  Goal
      BY <1>0, <1>3, <2>2, WritersStep, WriterKeepsAgreement
    <2>3. ASSUME StartResolve(c) \/ \E o \in Objects : StartSearch(c, o)
          PROVE  Goal
      <3>1. StepOfReader(c)
        BY <2>3, ReadersStep
      <3> QED
        BY <1>1, <1>3, <3>1 DEF StepOfReader, OnlyThisCall, Writing, Readers, Reindexing
    <2>4. ASSUME NEW p \in Proposals, AuthorWorkflow(c, p) \/ ProposeMemory(c, p)
          PROVE  Goal
      BY <1>1, <1>3, <2>4 DEF AuthorWorkflow, ProposeMemory, NewDraft
    <2>5. ASSUME NEW o \in Objects, NEW s \in Rulings, SetTrust(c, o, s)
          PROVE  Goal
      <3>1. \A d \in Callers : ~Writing(d) /\ ~Writing(d)'
        BY <2>5, TrustMovesNobody DEF SetTrust, Overlaps, NobodyWrites, Writing
      <3>2. OthersAgree
        BY <1>3, <3>1 DEF RowsAgree, Writing, Readers, Reindexing
      <3>3. \A q \in Objects : Agrees(q)
        BY <3>1, <3>2 DEF OthersAgree, Rewriting, Writing, Readers
      <3>4. ASSUME NEW q \in Objects
            PROVE  Agrees(q)'
        <4>1. rows[o] # NoRow /\ rows' = [rows EXCEPT ![o].trust = s] /\ data' = data
          BY <2>5 DEF SetTrust, files
        <4>2. rows \in [Objects -> Rows]
          BY DEF CatalogTypeOK
        <4>3. CASE q = o
          <5>1. rows'[q].digest = rows[q].digest
            BY <4>1, <4>2, <4>3 DEF Rows
          <5> QED
            BY <3>3, <4>1, <4>3, <5>1 DEF Agrees, FileOf
        <4>4. CASE q # o
          <5>1. rows'[q] = rows[q]
            BY <4>1, <4>2, <4>4
          <5> QED
            BY <3>3, <4>1, <5>1 DEF Agrees, FileOf
        <4> QED
          BY <4>3, <4>4
      <3> QED
        BY <3>1, <3>4 DEF OthersAgree, OnTheWay, Writing, Readers, Reindexing
    <2> QED
      BY <1>3, <2>1, <2>2, <2>3, <2>4, <2>5 DEF Begin
  <1>4. ASSUME clean, NEW c \in Callers, Publish(c) \/ Revise(c) \/ Review(c)
        PROVE  Goal
    BY <1>0, <1>4, WritersStep, WriterKeepsAgreement
  <1>5. ASSUME clean, NEW c \in Callers, Reindex(c)
        PROVE  Goal
    <2>1. ReindexProgress(c)
      BY <1>5, ReindexersReindex DEF RowsAgree, OnTheWay
    <2>2. CASE ReindexCommit(c)
      <3>1. call'[c].pc = "idle"
        BY <2>2, DoneForgets, Nothing DEF ReindexCommit
      <3> QED
        BY <1>0, <1>5, <2>1, <2>2, <3>1, CommitAgrees, WritersStep DEF Sound, OnTheWay, Reindexing
    <2>3. CASE ReindexDigest(c) \/ ReindexUpsert(c)
      <3>1. ReindexProgress(c)'
        BY <2>1, <2>3, NextFileKeepsProgress, RowKeepsProgress
      <3>2. call'[c].pc \in Reindexing
        <4>1. CASE ReindexDigest(c)
          <5>1. call'[c].pc \in {"rx_next", "rx_upsert"}
            BY <4>1, DigestKeeps
          <5> QED
            BY <5>1 DEF Reindexing
        <4>2. CASE ReindexUpsert(c)
          BY <4>2, UpsertKeeps DEF Reindexing
        <4> QED
          BY <2>3, <4>1, <4>2
      <3> QED
        BY <1>0, <1>5, <3>1, <3>2, WritersStep DEF Sound, OnTheWay, Reindexing
    <2> QED
      BY <1>5, <2>2, <2>3 DEF Reindex
  <1>6. ASSUME clean, NEW c \in Callers, StepOfReader(c)
        PROVE  Goal
    BY <1>1, <1>6 DEF StepOfReader, OnlyThisCall, Writing, Readers, Reindexing
  <1>7. ASSUME clean, NEW c \in Callers, Crash(c)
        PROVE  Goal
    <2>1. OnlyThisCall(c) /\ call'[c].pc = "idle" /\ UNCHANGED <<data, rows>>
      BY <1>7, DoneForgets, Nothing DEF Crash, files
    <2>2. call[c].pc \notin {"pub_copy", "pub_copied", "pub_index", "rx_next", "rx_upsert"}
      BY <1>7 DEF Crash
    <2> QED
      BY <1>1, <1>7, <2>1, <2>2 DEF OnlyThisCall, Reindexing
  <1>8. ASSUME clean, NEW o \in Objects, Edit(o) \/ \E p \in Proposals : EditDraft(p, o)
        PROVE  Goal
    BY <1>1, <1>8 DEF Edit, EditDraft, db
  <1>9. CASE clean /\ UNCHANGED vars
    BY <1>1, <1>9 DEF vars
  <1> QED
    BY <1>2, <1>3, <1>4, <1>5, <1>6, <1>7, <1>8, <1>9, ReadersStep DEF Next

\* The index agrees with the tree in every reachable state that is clean (reindex,
\* op_registry_publish).
THEOREM IndexInvariant == Spec => []IndexInv
  <1>1. Init => IndexInv
    <2>1. Init => \A c \in Callers : call[c].pc = "idle"
      BY Nothing DEF Init
    <2>2. Init => \A o \in Objects : Agrees(o)
      BY DEF Init, Agrees
    <2>3. Init => ReviewInv
      <3>1. Init => \A p \in Proposals : proposals[p] = NoProposal
        BY DEF Init
      <3> QED
        BY <2>1, <3>1, Nothing, InitTrustInv
        DEF Init, OnlyReviewedLands, Landed, TrustInv, ReviewInv, OnlyReviewedOnTheWay,
            ReviewedByThen, Reviewing, Publishing
    <2>4. Init => OneWriter
      BY <2>1 DEF OneWriter, Writing
    <2> QED
      BY <2>1, <2>2, <2>3, <2>4 DEF IndexInv, RowsAgree, OthersAgree, OnTheWay, Reindexing
  <1>2. IndexInv /\ [Next]_vars => IndexInv'
    BY TypesKept, OneWriterKept, ReviewedOnTheWayKept, ReviewedLandsKept,
       AgreementKept
    DEF IndexInv, ReviewInv
  <1> QED
    BY <1>1, <1>2, PTL DEF Spec

\* No object fails its digest check while AWF's own completed operations alone
\* have changed the tree.
THEOREM RowsAgreeWithFiles == Spec => []IndexAgrees
  <1>1. IndexInv => IndexAgrees
    <2> SUFFICES ASSUME IndexInv, clean, NobodyWrites,
                        NEW o \in Objects, rows[o] # NoRow, TreeOf(o)[o] # NoContent
                 PROVE  rows[o].digest = TreeOf(o)[o]
      BY DEF IndexAgrees
    <2>1. OthersAgree
      BY DEF IndexInv, RowsAgree, NobodyWrites, Writing, Readers, Reindexing
    <2>2. Agrees(o)
      BY <2>1 DEF OthersAgree, Rewriting, NobodyWrites, Writing, Readers
    <2>3. TreeOf(o)[o] = FileOf(o)
      BY DEF TreeOf, SameName, FileOf
    <2> QED
      BY <2>2, <2>3 DEF Agrees
  <1> QED
    BY <1>1, IndexInvariant, PTL

=============================================================================
