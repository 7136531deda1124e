--------------------------- MODULE RegistryCatalog ---------------------------
(***************************************************************************)
(* The registry: two trees of files, an index with digests and trust        *)
(* (registry/resolve.py, registry/index.py, ops/registry.py), and the       *)
(* proposals through which drafts reach it (authoring/workflow.py,          *)
(* memory/proposals.py, ops/authoring.py, ops/memory.py).                   *)
(*                                                                         *)
(* Files and rows change in separate steps and nothing joins them, so each  *)
(* read or write of either is an action of the caller that makes it.  A     *)
(* digest is modelled as the content it is the digest of.                   *)
(***************************************************************************)
EXTENDS Naturals, FiniteSets

CONSTANTS
    Objects,        \* records [kind, name, version]
    Contents,       \* what people and models write: records
                    \*   [object, body, needs, rank, enabled]
    ConfigFiles,    \* config/app_registry: object -> content, or NoContent
    MaximumRank,    \* the data class a memory profile admits at most
    Rulings,        \* the trust operators give
    Callers,
    Proposals,
    MaxOperations,  \* bounds of the model
    MaxMishaps      \* and crashes and edits together

TrustStatuses == {"local", "trusted", "quarantined", "blocked"}

NoObject == [kind |-> "none", name |-> "none", version |-> 0]
NoContent == [object |-> NoObject, body |-> "none", needs |-> {}, rank |-> 0,
              enabled |-> FALSE]
NoRow == [digest |-> NoContent, source |-> "none", trust |-> "none"]

Directories == {o \in Objects : o.kind = "skills"}
Proposable == {c \in Contents : c.object.kind \in {"workflows", "semantic-memories"}}
Workflow(c) == c.object.kind = "workflows"

\* A directory of which not every file has been copied yet.
Torn(c) == [c EXCEPT !.body = "torn"]

ASSUME CatalogAssumption ==
    /\ Rulings \subseteq TrustStatuses
    /\ DOMAIN ConfigFiles = Objects
    /\ \A o \in Objects : ConfigFiles[o] # NoContent => ConfigFiles[o].object = o
    /\ \A c \in Contents : c.object \in Objects /\ c.needs \subseteq Objects
    /\ NoContent \notin Contents
    /\ "none" \notin Callers
    /\ MaxOperations \in Nat
    /\ MaxMishaps \in Nat

VARIABLES
    data,       \* data/registry: object -> content
    rows,       \* registry_index: object -> row
    proposals,  \* registry_proposals: [status, object, digest, published]
    drafts,     \* data/proposals: proposal -> object -> content
    lock,       \* who holds the write lock of the database over several steps
    call,       \* caller -> the operation it is in
    \* history
    ruling,     \* the last trust an operator gave an indexed object
    named,      \* contents people published, edited, or named the digest of
    slipped,    \* contents written into a draft while a publish that had
                \* checked its digest had not read it yet
    clean,      \* did AWF's own operations alone touch the data tree, one after
                \* the other and none cut off, since the index was empty or its
                \* last rebuild began?
    operations, mishaps

vars == <<data, rows, proposals, drafts, lock, call, ruling, named, slipped,
          clean, operations, mishaps>>
files == <<data, drafts>>
db == <<rows, proposals, lock>>
history == <<ruling, named, slipped, clean>>
bounds == <<operations, mishaps>>

-----------------------------------------------------------------------------
(* Data *)

NoCall == [pc |-> "idle", object |-> NoObject, content |-> NoContent,
           proposal |-> "none", digest |-> NoContent, old |-> NoObject, source |-> "none",
           todo |-> {}, pending |-> [o \in Objects |-> NoRow],
           wasBlocked |-> FALSE]

NoProposal == [status |-> "none", kind |-> "none", object |-> NoObject, digest |-> NoContent,
               published |-> NoContent]

At(c, pc) == call[c].pc = pc
Step(c, pc) == call' = [call EXCEPT ![c].pc = pc]
Done(c) == call' = [call EXCEPT ![c] = NoCall]

Readers == {"read_row", "read_digest", "read_load", "search_row", "served"}
Writing(c) == call[c].pc \notin Readers \union {"idle"}

MayBegin(c) == At(c, "idle") /\ operations < MaxOperations
NobodyWrites == \A d \in Callers : ~Writing(d)
Counted == operations' = operations + 1 /\ UNCHANGED mishaps

\* Nothing keeps two writers apart; the tree is clean only if they were.
Overlaps == clean' = (clean /\ NobodyWrites)

\* resolve_registry_object: a name with any version in the data tree is looked
\* up there only.
SameName(o) == {q \in Objects : q.kind = o.kind /\ q.name = o.name}
TreeOf(o) == IF \E q \in SameName(o) : data[q] # NoContent THEN data ELSE ConfigFiles

\* latest_version
Latest(o) ==
    LET there == {q \in SameName(o) : TreeOf(o)[q] # NoContent}
    IN  IF there = {} THEN NoObject
        ELSE CHOOSE q \in there : \A r \in there : r.version <= q.version

\* _verify: no row, no check.
Verified(o) == \/ rows[o] = NoRow
               \/ rows[o].trust # "blocked" /\ rows[o].digest = TreeOf(o)[o]
Resolves(o) == TreeOf(o)[o] # NoContent /\ Verified(o)

\* _upsert of the index and the upsert of a publish: an object that is there
\* already keeps its trust; a publish leaves its source as well.
DefaultTrust(source) == IF source = "config" THEN "trusted" ELSE "local"
Indexed(row, c, source) ==
    IF row = NoRow THEN [digest |-> c, source |-> source, trust |-> DefaultTrust(source)]
    ELSE [row EXCEPT !.digest = c, !.source = source]

\* Mutant: publishing makes the object local again.
PublishedRowIsLocal(row, c) == [digest |-> c, source |-> "data", trust |-> "local"]

PublishedRow(row, c) ==
    IF row = NoRow THEN [digest |-> c, source |-> "data", trust |-> "local"]
    ELSE [row EXCEPT !.digest = c]

Init ==
    /\ data = [o \in Objects |-> NoContent]
    /\ rows = [o \in Objects |-> NoRow]
    /\ proposals = [p \in Proposals |-> NoProposal]
    /\ drafts = [p \in Proposals |-> [o \in Objects |-> NoContent]]
    /\ lock = "none"
    /\ call = [c \in Callers |-> NoCall]
    /\ ruling = [o \in Objects |-> "none"]
    /\ named = {}
    /\ slipped = {}
    /\ clean = TRUE
    /\ operations = 0
    /\ mishaps = 0

\* A caller may write the database when nobody else holds its lock.
Free(c) == lock \in {"none", c}

\* The end of a transaction: a commit, or the connection of a process that died.
Released(c) == IF lock = c THEN "none" ELSE lock

-----------------------------------------------------------------------------
(* Publishing: op_registry_publish *)

\* Of a file the operator has.
StartPublish(c) ==
    /\ MayBegin(c)
    /\ \E new \in Contents :
         /\ call' = [call EXCEPT ![c] = [NoCall EXCEPT
                       !.pc = "pub_write", !.object = new.object, !.content = new]]
         /\ named' = named \union {new}
    /\ Overlaps
    /\ Counted
    /\ UNCHANGED <<files, db, ruling, slipped>>

\* A directory is removed, then copied file by file.
RemoveDirectory(c) ==
    /\ At(c, "pub_write")
    /\ call[c].object \in Directories
    /\ data' = [data EXCEPT ![call[c].object] = NoContent]
    /\ Step(c, "pub_copy")
    /\ UNCHANGED <<drafts, db, history, bounds>>

CopyPart(c) ==
    /\ At(c, "pub_copy")
    /\ data' = [data EXCEPT ![call[c].object] = Torn(call[c].content)]
    /\ Step(c, "pub_copied")
    /\ UNCHANGED <<drafts, db, history, bounds>>

WriteObject(c) ==
    /\ \/ At(c, "pub_copied")
       \/ At(c, "pub_write") /\ call[c].object \notin Directories
    /\ data' = [data EXCEPT ![call[c].object] = call[c].content]
    /\ Step(c, "pub_index")
    /\ UNCHANGED <<drafts, db, history, bounds>>

IndexObject(c) ==
    /\ At(c, "pub_index")
    /\ Free(c)
    /\ LET o == call[c].object IN
         rows' = [rows EXCEPT ![o] = PublishedRow(@, call[c].content)]
    /\ IF call[c].proposal = "none" THEN Done(c) ELSE Step(c, "pub_mark")
    /\ UNCHANGED <<files, proposals, lock, history, bounds>>

-----------------------------------------------------------------------------
(* Proposals *)

\* Between the check of a draft's digest and the reading of its bytes.
Unguarded(p) == \E c \in Callers :
                   /\ call[c].proposal = p
                   /\ call[c].pc \in {"pub_verify", "pub_parse", "pub_read"}

PutDraft(p, o, new) ==
    /\ drafts' = [drafts EXCEPT ![p][o] = new]
    /\ slipped' = slipped \union {x \in {new} : Unguarded(p)}

\* Nobody knows the proposal before its row is there: file and row are one step.
NewDraft(c, p, new) ==
    /\ MayBegin(c)
    /\ proposals[p].status = "none"
    /\ Free(c)
    /\ PutDraft(p, new.object, new)
    /\ proposals' = [proposals EXCEPT ![p] = [NoProposal EXCEPT
                       !.status = "draft", !.kind = new.object.kind,
                       !.object = new.object, !.digest = new]]
    /\ Overlaps
    /\ Counted
    /\ UNCHANGED <<data, rows, lock, call, ruling, named>>

\* author_workflow_draft: whatever workflow the model answers with.
AuthorWorkflow(c, p) ==
    \E new \in {x \in Contents : Workflow(x)} : NewDraft(c, p, new)

\* propose_semantic_memory: of a file the operator has.
ProposeMemory(c, p) ==
    \E new \in {x \in Contents : x.object.kind = "semantic-memories"} : NewDraft(c, p, new)

\* get_proposal raises when the draft's file is not there.
Got(p) == /\ proposals[p].status = "draft"
          /\ drafts[p][proposals[p].object] # NoContent

\* The new content must be a workflow, whatever the proposal is of.
StartUpdate(c, p) ==
    /\ MayBegin(c)
    /\ Got(p)
    /\ \E new \in {x \in Contents : Workflow(x)} :
         call' = [call EXCEPT ![c] = [NoCall EXCEPT
                    !.pc = "upd_write", !.proposal = p, !.object = new.object,
                    !.content = new, !.old = proposals[p].object]]
    /\ Overlaps
    /\ Counted
    /\ UNCHANGED <<files, db, ruling, named, slipped>>

WriteDraft(c) ==
    /\ At(c, "upd_write")
    /\ PutDraft(call[c].proposal, call[c].object, call[c].content)
    /\ Step(c, IF call[c].old = call[c].object THEN "upd_record" ELSE "upd_unlink")
    /\ UNCHANGED <<data, db, ruling, named, clean, bounds>>

UnlinkDraft(c) ==
    /\ At(c, "upd_unlink")
    /\ drafts' = [drafts EXCEPT ![call[c].proposal][call[c].old] = NoContent]
    /\ Step(c, "upd_record")
    /\ UNCHANGED <<data, db, history, bounds>>

\* The UPDATE does not look at the status again.
RecordDraft(c) ==
    /\ At(c, "upd_record")
    /\ Free(c)
    /\ proposals' = [proposals EXCEPT ![call[c].proposal].object = call[c].object,
                                      ![call[c].proposal].digest = call[c].content]
    /\ Done(c)
    /\ UNCHANGED <<files, rows, lock, history, bounds>>

StartReject(c, p) ==
    /\ MayBegin(c)
    /\ Got(p)
    /\ call' = [call EXCEPT ![c] = [NoCall EXCEPT !.pc = "rej_record", !.proposal = p]]
    /\ Overlaps
    /\ Counted
    /\ UNCHANGED <<files, db, ruling, named, slipped>>

RecordRejection(c) ==
    /\ At(c, "rej_record")
    /\ Free(c)
    /\ proposals' = [proposals EXCEPT ![call[c].proposal].status = "rejected"]
    /\ Done(c)
    /\ UNCHANGED <<files, rows, lock, history, bounds>>

\* op_proposal_publish: the caller names the digest it has reviewed.
StartProposalPublish(c, p, digest) ==
    /\ MayBegin(c)
    /\ Got(p)
    /\ proposals[p].digest = digest
    /\ call' = [call EXCEPT ![c] = [NoCall EXCEPT
                  !.pc = "pub_check", !.proposal = p, !.digest = digest,
                  !.object = proposals[p].object]]
    /\ named' = named \union {digest}
    /\ Overlaps
    /\ Counted
    /\ UNCHANGED <<files, db, ruling, slipped>>

\* What the file holds; its path was read with the row.
DraftOf(c) == drafts[call[c].proposal][call[c].object]

\* Mutant: the digest of the row is believed.
DigestMatchesRow(c) == TRUE

DigestMatches(c) == DraftOf(c) = call[c].digest

CheckDraft(c) ==
    /\ At(c, "pub_check")
    /\ IF DraftOf(c) # NoContent /\ DigestMatches(c) THEN Step(c, "pub_verify") ELSE Done(c)
    /\ UNCHANGED <<files, db, history, bounds>>

\* verify_workflow_proposal: identity, and every capability resolves.
VerifyDraft(c) ==
    /\ At(c, "pub_verify")
    /\ Free(c) \/ proposals[call[c].proposal].kind # "workflows"
    /\ LET p == call[c].proposal
           file == drafts[p][proposals[p].object]
       IN  IF \/ proposals[p].kind # "workflows"
              \/ /\ Got(p)
                 /\ file.object = proposals[p].object
                 /\ \A o \in file.needs : Resolves(o)
           THEN Step(c, "pub_parse") ELSE Done(c)
    /\ UNCHANGED <<files, db, history, bounds>>

\* op_registry_publish reads the file twice: for the identity, for the bytes.
\* What is not there, or not of the proposal's kind, does not parse.
ParseDraft(c) ==
    /\ At(c, "pub_parse")
    /\ IF \/ DraftOf(c) = NoContent
          \/ DraftOf(c).object.kind # proposals[call[c].proposal].kind THEN Done(c)
       ELSE call' = [call EXCEPT ![c].pc = "pub_read", ![c].old = DraftOf(c).object]
    /\ UNCHANGED <<files, db, history, bounds>>

ReadDraft(c) ==
    /\ At(c, "pub_read")
    /\ IF DraftOf(c) = NoContent THEN Done(c)
       ELSE call' = [call EXCEPT ![c].pc = "pub_write", ![c].content = DraftOf(c),
                                 ![c].object = call[c].old]
    /\ UNCHANGED <<files, db, history, bounds>>

MarkPublished(c) ==
    /\ At(c, "pub_mark")
    /\ Free(c)
    /\ proposals' = IF Got(call[c].proposal)
                    THEN [proposals EXCEPT ![call[c].proposal].status = "published",
                                           ![call[c].proposal].published = call[c].content]
                    ELSE proposals
    /\ Done(c)
    /\ UNCHANGED <<files, rows, lock, history, bounds>>

-----------------------------------------------------------------------------
(* Trust and the index *)

\* op_registry_trust, op_registry_retire, op_memory_block
SetTrust(c, o, status) ==
    /\ MayBegin(c)
    /\ Free(c)
    /\ rows[o] # NoRow
    /\ rows' = [rows EXCEPT ![o].trust = status]
    /\ ruling' = [ruling EXCEPT ![o] = status]
    /\ call' = [d \in Callers |->
                  IF status # "blocked" /\ call[d].object = o
                  THEN [call[d] EXCEPT !.wasBlocked = FALSE] ELSE call[d]]
    /\ Overlaps
    /\ Counted
    /\ UNCHANGED <<files, proposals, lock, named, slipped>>

\* reindex: every file there is, config before data, in one transaction.
StartReindex(c) ==
    /\ MayBegin(c)
    /\ call' = [call EXCEPT ![c] = [NoCall EXCEPT
                  !.pc = "rx_next", !.todo = {"config", "data"} \X Objects]]
    /\ clean' = NobodyWrites
    /\ Counted
    /\ UNCHANGED <<files, db, ruling, named, slipped>>

\* Mutant: the trees the other way round.
PhaseDataFirst(todo) ==
    LET first == {x \in todo : x[1] = "data"}
    IN  IF first # {} THEN first ELSE todo

Phase(todo) ==
    LET first == {x \in todo : x[1] = "config"}
    IN  IF first # {} THEN first ELSE todo

FileAt(slot) == (IF slot[1] = "config" THEN ConfigFiles ELSE data)[slot[2]]

ReindexDigest(c) ==
    /\ At(c, "rx_next")
    /\ call[c].todo # {}
    /\ LET slot == CHOOSE x \in Phase(call[c].todo) : TRUE IN
         call' = [call EXCEPT
                    ![c].todo = @ \ {slot},
                    ![c].pc = IF FileAt(slot) = NoContent THEN "rx_next" ELSE "rx_upsert",
                    ![c].content = FileAt(slot), ![c].object = slot[2],
                    ![c].source = slot[1]]
    /\ UNCHANGED <<files, db, history, bounds>>

\* The first INSERT takes the write lock, which the commit gives back.
ReindexUpsert(c) ==
    /\ At(c, "rx_upsert")
    /\ Free(c)
    /\ lock' = c
    /\ LET o == call[c].object
           row == IF call[c].pending[o] = NoRow THEN rows[o] ELSE call[c].pending[o]
       IN  call' = [call EXCEPT ![c].pc = "rx_next",
                      ![c].pending[o] = Indexed(row, call[c].content, call[c].source)]
    /\ UNCHANGED <<files, rows, proposals, history, bounds>>

ReindexCommit(c) ==
    /\ At(c, "rx_next")
    /\ call[c].todo = {}
    /\ Free(c)
    /\ rows' = [o \in Objects |-> IF call[c].pending[o] = NoRow THEN rows[o]
                                  ELSE call[c].pending[o]]
    /\ lock' = Released(c)
    /\ Done(c)
    /\ UNCHANGED <<files, proposals, history, bounds>>

-----------------------------------------------------------------------------
(* Reading: resolve_registry_object and the loaders, search_semantic_memories *)

Blocked(o) == ruling[o] = "blocked"

Reading(c, pc, o) ==
    call' = [call EXCEPT ![c] = [NoCall EXCEPT
               !.pc = pc, !.object = o, !.wasBlocked = Blocked(o)]]

StartResolve(c) ==
    /\ MayBegin(c)
    /\ \E q \in Objects : \E o \in Objects \intersect {q, Latest(q)} :
         /\ TreeOf(o)[o] # NoContent
         /\ Reading(c, "read_row", o)
    /\ Counted
    /\ UNCHANGED <<files, db, history>>

\* Mutant: trust is not looked at.
RowAllowsAny(o) == TRUE

RowAllows(o) == rows[o].trust # "blocked"

\* _verify: without a row nothing is compared.
ResolveRow(c) ==
    /\ At(c, "read_row")
    /\ LET o == call[c].object IN
         call' = [call EXCEPT ![c] =
                    IF rows[o] = NoRow THEN [@ EXCEPT !.pc = "read_load"]
                    ELSE IF RowAllows(o)
                    THEN [@ EXCEPT !.pc = "read_digest", !.digest = rows[o].digest]
                    ELSE NoCall]
    /\ UNCHANGED <<files, db, history, bounds>>

ResolveDigest(c) ==
    /\ At(c, "read_digest")
    /\ IF TreeOf(call[c].object)[call[c].object] = call[c].digest
       THEN Step(c, "read_load") ELSE Done(c)
    /\ UNCHANGED <<files, db, history, bounds>>

\* The caller loads the file after that, and compares its identity.
Load(c) ==
    /\ At(c, "read_load")
    /\ LET found == TreeOf(call[c].object)[call[c].object] IN
         IF found.object = call[c].object
         THEN call' = [call EXCEPT ![c].pc = "served", ![c].content = found]
         ELSE Done(c)
    /\ UNCHANGED <<files, db, history, bounds>>

\* A search loads first and looks at the row then; it compares no digest.
StartSearch(c, o) ==
    /\ MayBegin(c)
    /\ o.kind = "semantic-memories"
    /\ TreeOf(o)[o] # NoContent
    /\ TreeOf(o)[o].enabled
    /\ TreeOf(o)[o].rank <= MaximumRank
    /\ call' = [call EXCEPT ![c] = [NoCall EXCEPT
                  !.pc = "search_row", !.object = o, !.content = TreeOf(o)[o],
                  !.wasBlocked = Blocked(o)]]
    /\ Counted
    /\ UNCHANGED <<files, db, history>>

SearchRow(c) ==
    /\ At(c, "search_row")
    /\ IF RowAllows(call[c].object) THEN Step(c, "served") ELSE Done(c)
    /\ UNCHANGED <<files, db, history, bounds>>

Served(c) ==
    /\ At(c, "served")
    /\ Done(c)
    /\ UNCHANGED <<files, db, history, bounds>>

-----------------------------------------------------------------------------
(* The environment *)

\* The process dies, or its operation raises: a locked database, a full disk.
Crash(c) ==
    /\ ~At(c, "idle")
    /\ mishaps < MaxMishaps
    /\ mishaps' = mishaps + 1
    /\ lock' = Released(c)
    /\ clean' = (clean /\ call[c].pc \notin {"pub_copy", "pub_copied", "pub_index",
                                              "rx_next", "rx_upsert"})
    /\ Done(c)
    /\ UNCHANGED <<files, rows, proposals, ruling, named, slipped, operations>>

\* Somebody edits a file of the data tree.
Edit(o) ==
    /\ mishaps < MaxMishaps
    /\ mishaps' = mishaps + 1
    /\ \E new \in {x \in Contents : x.object = o} :
         /\ data' = [data EXCEPT ![o] = new]
         /\ named' = named \union {new}
    /\ clean' = FALSE
    /\ UNCHANGED <<drafts, db, call, ruling, slipped, operations>>

\* Somebody edits a draft.
EditDraft(p, o) ==
    /\ mishaps < MaxMishaps
    /\ drafts[p][o] # NoContent
    /\ mishaps' = mishaps + 1
    /\ \E new \in Proposable : PutDraft(p, o, new)
    /\ UNCHANGED <<data, db, call, ruling, named, clean, operations>>

Publish(c) == RemoveDirectory(c) \/ CopyPart(c) \/ WriteObject(c) \/ IndexObject(c)
Revise(c) == WriteDraft(c) \/ UnlinkDraft(c) \/ RecordDraft(c) \/ RecordRejection(c)
Review(c) == CheckDraft(c) \/ VerifyDraft(c) \/ ParseDraft(c) \/ ReadDraft(c) \/ MarkPublished(c)
Reindex(c) == ReindexDigest(c) \/ ReindexUpsert(c) \/ ReindexCommit(c)
Read(c) == ResolveRow(c) \/ ResolveDigest(c) \/ Load(c) \/ SearchRow(c) \/ Served(c)

Begin(c) ==
    \/ StartPublish(c) \/ StartReindex(c) \/ StartResolve(c)
    \/ \E p \in Proposals : \/ AuthorWorkflow(c, p) \/ ProposeMemory(c, p)
                            \/ StartUpdate(c, p) \/ StartReject(c, p)
                            \/ \E d \in Contents : StartProposalPublish(c, p, d)
    \/ \E o \in Objects : \/ StartSearch(c, o)
                          \/ \E s \in Rulings : SetTrust(c, o, s)

Next ==
    \/ \E c \in Callers : \/ Begin(c) \/ Publish(c) \/ Revise(c) \/ Review(c)
                          \/ Reindex(c) \/ Read(c) \/ Crash(c)
    \/ \E o \in Objects : \/ Edit(o)
                          \/ \E p \in Proposals : EditDraft(p, o)

Spec == Init /\ [][Next]_vars

-----------------------------------------------------------------------------
(* Properties *)

\* What an operator decided about an object stands, whatever is published over
\* it or indexed again meanwhile (_upsert, op_registry_publish).
OperatorRulingStands ==
    \A o \in Objects : ruling[o] # "none" => rows[o].trust = ruling[o]

\* Nobody is served an object that was blocked from when the request began on,
\* through either way of reading, in whichever tree it is found
\* (_verify, search_semantic_memories).
ServedNotBlocked ==
    \A c \in Callers : At(c, "served") => ~call[c].wasBlocked

Landed(reviewed) ==
    /\ \A o \in Objects :
         data[o] # NoContent => \E c \in reviewed : data[o] \in {c, Torn(c)}
    /\ \A p \in Proposals :
         proposals[p].status = "published" => proposals[p].published \in reviewed

\* Nothing is in the data tree, and no proposal says it was published, that
\* nobody published, edited or named the digest of, although an update of a draft
\* may die between its file and its row, or another come in between: except what
\* was put into the draft in the moment between the check of its digest and the
\* reading of its bytes (op_proposal_publish, op_registry_publish).
OnlyReviewedLands == Landed(named \union slipped)

\* ADR-0019, "the diff reviewed is the diff that runs": without that exception.
DiffReviewedIsDiffThatRuns == Landed(named)

\* As long as AWF's own operations alone have changed the tree, one after the
\* other and none interrupted, no object fails its digest check; a rebuild of
\* the index restores that (reindex, op_registry_publish).
IndexAgrees ==
    (clean /\ NobodyWrites) =>
        \A o \in Objects :
            (rows[o] # NoRow /\ TreeOf(o)[o] # NoContent) =>
                rows[o].digest = TreeOf(o)[o]
=============================================================================
