----------------------------- MODULE Artifacts ------------------------------
(***************************************************************************)
(* The artifacts of one run: the Twirp handlers of internal/artifacts, the *)
(* Azure block endpoint of internal/blob/azureshim their bytes go through, *)
(* and the table artifacts.  The Azure client repeats every request whose  *)
(* answer it loses, so each may arrive twice and while the first is still  *)
(* running.  Content is the sequence of the blocks it was made of.         *)
(***************************************************************************)
EXTENDS Integers, SequencesExt

CONSTANTS
  ArtName,      \* the names jobs give their artifacts
  Upload,       \* what jobs upload: sequences of blocks
  ArtQuota,     \* the repository's artifact quota, in blocks
  MaxArtifacts, \* bound on the rows that are created
  MaxArtCalls   \* bound on the block lists and whole blobs clients send

ASSUME UploadAssumption == \A what \in Upload : what \in Seq(ToSet(what))

ASSUME ArtifactsAssumption == ArtQuota \in Nat \ {0} /\ MaxArtifacts \in Nat /\ MaxArtCalls \in Nat

VARIABLES
  art,       \* the rows of the table, in the order of their ids
  content,   \* per id, the object under its storage key, NoContent when there is none
  blocks,    \* per id, the blocks staged under blockKey
  lists,     \* the calls of putBlockList under way
  listsSent, \* the block lists and whole blobs sent
  finals     \* the calls of finalizeArtifact under way

artVars == <<art, content, blocks, lists, listsSent, finals>>

NoContent == <<>>
ArtIds == DOMAIN art
HasRow(id) == art[id].live

\* FindArtifact: run and name are unique among the rows.
FindArtifact(name) == {id \in ArtIds : HasRow(id) /\ art[id].name = name}

ArtInit ==
  /\ art = <<>> /\ content = <<>> /\ blocks = <<>> /\ listsSent = 0
  /\ lists = {} /\ finals = {}

(***************************************************************************)
(* createArtifact refuses a name that is finalized; one that is only       *)
(* reserved is refused by the table's unique index.                        *)
(***************************************************************************)
ArtUsage ==
  FoldSeq(LAMBDA a, n : (IF a.live /\ a.finalized THEN Len(a.digest) ELSE 0) + n, 0, art)

CreateArtifact(name, what) ==
  /\ ArtUsage < ArtQuota
  /\ FindArtifact(name) = {}
  /\ Len(art) < MaxArtifacts
  /\ art' = Append(art, [name |-> name, live |-> TRUE, finalized |-> FALSE,
                         digest |-> NoContent, sends |-> what])
  /\ content' = Append(content, NoContent)
  /\ blocks' = Append(blocks, {})
  /\ UNCHANGED <<lists, listsSent, finals>>

(***************************************************************************)
(* The upload URL: it proves itself, and no row is read.                   *)
(***************************************************************************)
PutBlock(id, b) ==
  /\ b \in ToSet(art[id].sends) \ blocks[id]
  /\ listsSent < MaxArtCalls
  /\ blocks' = [blocks EXCEPT ![id] = @ \union {b}]
  /\ UNCHANGED <<art, content, lists, listsSent, finals>>

PutBlob(id) ==
  /\ listsSent < MaxArtCalls
  /\ listsSent' = listsSent + 1
  /\ content' = [content EXCEPT ![id] = art[id].sends]
  /\ UNCHANGED <<art, blocks, lists, finals>>

\* putBlockList looks for every block before it reads any.
PutBlockList(id) ==
  /\ listsSent < MaxArtCalls
  /\ listsSent' = listsSent + 1
  /\ ToSet(art[id].sends) \subseteq blocks[id]
  /\ lists' = lists \union {[id |-> id, n |-> listsSent', at |-> "read", got |-> <<>>]}
  /\ UNCHANGED <<art, content, blocks, finals>>

\* A first list that names a block nobody staged is refused.
RefuseBlockList(id) ==
  /\ listsSent < MaxArtCalls
  /\ ~(ToSet(art[id].sends) \subseteq blocks[id])
  /\ listsSent' = listsSent + 1
  /\ UNCHANGED <<art, content, blocks, lists, finals>>

NextBlock(l) == art[l.id].sends[Len(l.got) + 1]

\* A slip to guard against: a block that is gone is passed over.
ConcatSkips(l) ==
  {IF NextBlock(l) \in blocks[l.id] THEN [l EXCEPT !.got = Append(@, NextBlock(l))]
                                    ELSE [l EXCEPT !.at = "put"]}

\* Concat opens the next block when the one before it is read; one that another
\* call has deleted by then is an error.
Concat(l) ==
  IF NextBlock(l) \in blocks[l.id] THEN {[l EXCEPT !.got = Append(@, NextBlock(l))]} ELSE {}

ReadBlock(l) ==
  /\ l.at = "read" /\ Len(l.got) < Len(art[l.id].sends)
  /\ lists' = (lists \ {l}) \union Concat(l)
  /\ UNCHANGED <<art, content, blocks, listsSent, finals>>

\* The object is put whole, or not at all.
PutAssembled(l) ==
  /\ l.at = "put" \/ Len(l.got) = Len(art[l.id].sends)
  /\ l.at # "delete"
  /\ content' = [content EXCEPT ![l.id] = l.got]
  /\ lists' = (lists \ {l}) \union {[l EXCEPT !.at = "delete"]}
  /\ UNCHANGED <<art, blocks, listsSent, finals>>

DeleteBlocks(l) ==
  /\ l.at = "delete"
  /\ blocks' = [blocks EXCEPT ![l.id] = @ \ ToSet(art[l.id].sends)]
  /\ lists' = lists \ {l}
  /\ UNCHANGED <<art, content, listsSent, finals>>

(***************************************************************************)
(* finalizeArtifact: the size, the digest, then the row.                   *)
(***************************************************************************)
StartFinalize(id) ==
  /\ HasRow(id)
  /\ content[id] # NoContent
  /\ Len(content[id]) = Len(art[id].sends)
  /\ finals' = finals \union {[id |-> id, at |-> "digest", digest |-> NoContent]}
  /\ UNCHANGED <<art, content, blocks, lists, listsSent>>

DigestArtifact(f) ==
  /\ f.at = "digest"
  /\ finals' = (finals \ {f}) \union
       (IF content[f.id] = art[f.id].sends
        THEN {[f EXCEPT !.at = "record", !.digest = content[f.id]]} ELSE {})
  /\ UNCHANGED <<art, content, blocks, lists, listsSent>>

RecordFinal(f) ==
  /\ f.at = "record"
  /\ finals' = finals \ {f}
  /\ art' = IF HasRow(f.id) THEN [art EXCEPT ![f.id].finalized = TRUE, ![f.id].digest = f.digest]
                            ELSE art
  /\ UNCHANGED <<content, blocks, lists, listsSent>>

(***************************************************************************)
(* deleteArtifact removes the bytes and leaves the row; ExpireArtifacts,   *)
(* which nothing but a test calls, removes the row first.                  *)
(***************************************************************************)
DeleteArtifact(name) ==
  \E id \in FindArtifact(name) :
    /\ content[id] # NoContent
    /\ content' = [content EXCEPT ![id] = NoContent]
    /\ UNCHANGED <<art, blocks, lists, listsSent, finals>>

ExpireArtifact(id) ==
  /\ HasRow(id)
  /\ art' = [art EXCEPT ![id].live = FALSE]
  /\ content' = [content EXCEPT ![id] = NoContent]
  /\ UNCHANGED <<blocks, lists, listsSent, finals>>

ArtNext ==
  \/ \E name \in ArtName, what \in Upload : CreateArtifact(name, what)
  \/ \E id \in ArtIds : \E b \in ToSet(art[id].sends) : PutBlock(id, b)
  \/ \E id \in ArtIds : PutBlob(id)
  \/ \E id \in ArtIds : PutBlockList(id)
  \/ \E id \in ArtIds : RefuseBlockList(id)
  \/ \E l \in lists : ReadBlock(l)
  \/ \E l \in lists : PutAssembled(l)
  \/ \E l \in lists : DeleteBlocks(l)
  \/ \E id \in ArtIds : StartFinalize(id)
  \/ \E f \in finals : DigestArtifact(f)
  \/ \E f \in finals : RecordFinal(f)
  \/ \E name \in ArtName : DeleteArtifact(name)
  \/ \E id \in ArtIds : ExpireArtifact(id)

\* What a finalized artifact serves is what its row states the digest of, and
\* what the job uploaded: a block list sent again, still running or refused,
\* never leaves a shorter object behind.
FinalizedIntact ==
  \A id \in ArtIds : HasRow(id) /\ art[id].finalized =>
    content[id] \in {art[id].digest, NoContent} /\ art[id].digest = art[id].sends
=============================================================================
