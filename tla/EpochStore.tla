------------------------------- MODULE EpochStore -------------------------------
(***************************************************************************)
(* What the indexer stores and who writes it: the tables ipld_epochs and   *)
(* ipld_blobs, the blocks on the IPFS node, and the NetworkRoot.  Pulling  *)
(* an epoch, pushing a blob, finalizing, repairing and re-uploading an     *)
(* epoch are requests that run beside each other, of one process or of     *)
(* several; each is the list of its steps (todo), and a step is one call   *)
(* to the node or the database.                                            *)
(*                                                                         *)
(* A CID is its content: two nodes have one CID iff they are equal.  The   *)
(* cursors these requests set are those of PullLoop; Pin only tells the    *)
(* node's collector what to keep, and is a step without an effect here.    *)
(***************************************************************************)
EXTENDS Integers, FiniteSets, Sequences

CONSTANTS
  Network,          (* networks whose indexers share the database          *)
  Chain,            (* [Network -> [epoch -> blobs on the beacon chain]]   *)
  Pushes,           (* [Network -> [epoch -> blobs that are pushed for it]] *)
  Request,          (* the requests that may be at work at a time          *)
  EL,               (* whether the execution node may answer: \subseteq BOOLEAN *)
  Ops,              (* the operations that are used                        *)
  HAMTThreshold,    (* epochs of so many blobs have a sharded index        *)
  MaxRequests, MaxFaults

Epoch == UNION {DOMAIN Chain[n] \cup DOMAIN Pushes[n] : n \in Network}

(* A blob of the chain: its commitment and its place, a slot and an index. *)
OnChain(n, e) == IF e \in DOMAIN Chain[n] THEN Chain[n][e] ELSE {}

(* A blob of a push: on the chain or not, and at any place. The API        *)
(* documents the index as that "within the transaction"; the chain numbers *)
(* the blobs of a block.                                                   *)
Pushed(n, e) == IF e \in DOMAIN Pushes[n] THEN Pushes[n][e] ELSE {}

Offered(n, e) == OnChain(n, e) \cup Pushed(n, e)

Commitment == {b.commitment : b \in UNION {Offered(n, e) : n \in Network, e \in Epoch}}

ASSUME EpochStoreAssumption ==
  /\ EL \subseteq BOOLEAN /\ EL # {}
  /\ Ops \subseteq {"process", "push", "finalize", "repair", "repairNoVerify", "backfill"}
  /\ \A n \in Network : \A e \in DOMAIN Chain[n] : IsFiniteSet(Chain[n][e])
  /\ \A n \in Network : \A e \in DOMAIN Pushes[n] : IsFiniteSet(Pushes[n][e])
  /\ HAMTThreshold \in Nat
  /\ MaxRequests \in Nat /\ MaxFaults \in Nat

VARIABLES
  epochRows,        (* ipld_epochs: [Epoch -> row or None]                 *)
  blobRows,         (* ipld_blobs: [Commitment -> row or None]             *)
  blocks,           (* the CIDs whose blocks are on the IPFS node          *)
  discarded,        (* the CIDs whose blocks went to a NullBlockstore      *)
  networkRoot,      (* the epochs the last uploaded NetworkRoot links to   *)
  skipUpload,       (* IPFS_SKIP_UPLOAD of the running processes           *)
  requests,         (* [Request -> request or None]                        *)
  budget            (* what may still start and fail                       *)

database == <<epochRows, blobRows>>
node == <<blocks, discarded, networkRoot>>
vars == <<epochRows, blobRows, blocks, discarded, networkRoot, skipUpload, requests, budget>>

None == [none |-> TRUE]

Spend(kind) == budget[kind] > 0 /\ budget' = [budget EXCEPT ![kind] = @ - 1]

-----------------------------------------------------------------------------
(* Nodes                                                                   *)

(* StoreRawBlob: the same data has the same CID wherever it appears.       *)
Data(commitment) == <<"data", commitment>>

(* StoreBlobMetadata: the metadata node links to the data and names the    *)
(* blob's place and its transaction.                                       *)
Meta(commitment, e, place, tx) ==
  <<"meta", [commitment |-> commitment, epoch |-> e, place |-> place, tx |-> tx]>>

(* BuildEpochNode: the index is a function of the set of occurrences (see  *)
(* Dag), and the node counts them.                                         *)
EpochNode(n, e, metas) == <<"epoch", n, e, metas>>

Links(root) == root[4]

(* buildHAMTBlobIndex: the index of a large epoch is a block of its own,   *)
(* here one shard.                                                         *)
Shards(root) ==
  IF Cardinality(Links(root)) >= HAMTThreshold THEN {<<"shard", Links(root)>>} ELSE {}

(* What building a root stores.                                            *)
Built(root) == {root} \cup Shards(root)

(* The blocks under a root, itself included.                               *)
Closure(root) ==
  Built(root) \cup Links(root) \cup {Data(m[2].commitment) : m \in Links(root)}

(* ProcessBlob: the metadata of a blob, with its transaction or without.   *)
MetaOf(n, e, b, el) == Meta(b.commitment, e, b.place, <<n, e, b.place, el>>)

(* FetchEpochInput and processEpochBlobs: the blobs of the epoch, with the *)
(* transaction of each when the execution node answered.                   *)
Fetched(n, e, el) == {MetaOf(n, e, b, el) : b \in OnChain(n, e)}

-----------------------------------------------------------------------------
(* Database                                                                *)

GetBlobsByEpoch(n, e) ==
  {c \in Commitment : /\ blobRows[c] # None
                      /\ blobRows[c].network = n
                      /\ blobRows[c].epoch = e}

(* ReconstructFromDB: the CIDs come straight from the rows.                *)
Cached(n, e) == {blobRows[c].meta : c \in GetBlobsByEpoch(n, e)}

GetAllEpochs(n) == {e \in Epoch : epochRows[e] # None /\ epochRows[e].network = n}

(* The CID of a row that SaveBlobs made for the foreign key.               *)
NoCID == <<"none">>

(* Mutant: an upsert that overwrites nothing, ON CONFLICT DO NOTHING.      *)
SaveEpochRowOnce(n, e, root) ==
  [epochRows EXCEPT ![e] =
     IF @ = None
     THEN [network |-> n, cid |-> root, blobCount |-> Cardinality(Links(root))]
     ELSE @]

(* SaveEpoch: the primary key is the epoch alone, and the conflict clause  *)
(* leaves the network as it was.                                           *)
SaveEpochRow(n, e, root) ==
  [epochRows EXCEPT ![e] =
     [network |-> IF @ = None THEN n ELSE @.network,
      cid |-> root,
      blobCount |-> Cardinality(Links(root))]]

(* SaveBlobs, one transaction: a row for the epoch unless there is one,    *)
(* and one row per commitment.  The conflict clause leaves the epoch, the  *)
(* place and the network of the row as they were.                          *)
Placeholder(n, e) ==
  IF epochRows[e] # None THEN epochRows
  ELSE [epochRows EXCEPT ![e] = [network |-> n, cid |-> NoCID, blobCount |-> 0]]

UpsertRow(n, e, m, row) ==
  IF row = None THEN [network |-> n, epoch |-> e, place |-> m[2].place, meta |-> m]
  ELSE [row EXCEPT !.meta = m]

(* DISTINCT ON keeps any one of the rows that share a commitment.          *)
Distinct(metas) ==
  {S \in SUBSET metas : /\ {m[2].commitment : m \in S} = {m[2].commitment : m \in metas}
                        /\ \A m, k \in S : m[2].commitment = k[2].commitment => m = k}

SaveBlobRows(n, e, metas) ==
  \E S \in Distinct(metas) :
    /\ epochRows' = Placeholder(n, e)
    /\ blobRows' = [c \in Commitment |->
                      IF \E m \in S : m[2].commitment = c
                      THEN UpsertRow(n, e, CHOOSE m \in S : m[2].commitment = c, blobRows[c])
                      ELSE blobRows[c]]

-----------------------------------------------------------------------------
Init ==
  /\ epochRows = [e \in Epoch |-> None]
  /\ blobRows = [c \in Commitment |-> None]
  /\ blocks = {}
  /\ discarded = {}
  /\ networkRoot = [n \in Network |-> {}]
  /\ skipUpload \in BOOLEAN
  /\ requests = [r \in Request |-> None]
  /\ budget = [request |-> MaxRequests, fault |-> MaxFaults]

-----------------------------------------------------------------------------
(* Requests                                                                *)

NewRequest(op, n, e, todo, root, put, save) ==
  [op |-> op, network |-> n, epoch |-> e, todo |-> todo, root |-> root,
   put |-> put, save |-> save, alone |-> TRUE]

Finished(r) == requests[r] # None /\ requests[r].todo = <<>>

Active(r) == requests[r] # None /\ requests[r].todo # <<>>

(* A request is alone if no other one is at work on its epoch while it is, *)
(* and none has started on it since.                                       *)
Start(r, request) ==
  LET rivals == {q \in Request \ {r} : requests[q] # None
                                       /\ requests[q].epoch = request.epoch}
  IN  /\ ~Active(r)
      /\ request.op \in Ops
      /\ Spend("request")
      /\ requests' = [q \in Request |->
                        IF q = r
                        THEN [request EXCEPT !.alone = \A p \in rivals : ~Active(p)]
                        ELSE IF q \in rivals THEN [requests[q] EXCEPT !.alone = FALSE]
                        ELSE requests[q]]
      /\ UNCHANGED <<database, node, skipUpload>>

(* buildEpoch: rows of the epoch, if there are any, stand for it; else it  *)
(* is fetched. persistEpoch then writes blob rows only of what was fetched.*)
buildEpoch(r, n, e) ==
  \/ /\ Cached(n, e) # {}
     /\ LET root == EpochNode(n, e, Cached(n, e))
        IN  Start(r, NewRequest("process", n, e, <<"upload", "saveEpoch", "root">>,
                                root, Built(root), {}))
  \/ /\ Cached(n, e) = {}
     /\ \E el \in EL :
          LET metas == Fetched(n, e, el)
              root == EpochNode(n, e, metas)
          IN  Start(r, NewRequest("process", n, e,
                                  IF metas = {} THEN <<"upload", "saveEpoch", "root">>
                                  ELSE <<"upload", "saveEpoch", "saveBlobs", "root">>,
                                  root, Closure(root), metas))

(* processEpoch and ProcessSingleEpoch: one epoch of the chain.            *)
StartProcess(r, n, e) == e \in DOMAIN Chain[n] /\ buildEpoch(r, n, e)

(* ProcessBlobInput: the blob's own blocks and row.                        *)
ProcessBlobInput(r, n, e, m, rest) ==
  Start(r, NewRequest("push", n, e, <<"upload", "saveBlobs">> \o rest,
                      NoCID, {m, Data(m[2].commitment)}, {m}))

(* handlePushBlob: a well-formed blob, on the chain or not, under whatever *)
(* slot and index, with its transaction or without it, and then            *)
(* FinalizeEpochWithCID if the request asks for it.                        *)
StartPush(r, n, e) ==
  \E b \in Pushed(n, e), el \in EL, rest \in {<<>>, <<"finalize">>} :
    ProcessBlobInput(r, n, e, MetaOf(n, e, b, el), rest)

(* finalizeEpochInner: the epoch node of the rows that are there now.      *)
Finalization(n, e) ==
  LET root == EpochNode(n, e, Cached(n, e))
  IN  NewRequest("finalize", n, e, <<"upload", "saveEpoch", "root">>, root, Built(root), {})

StartFinalize(r, n, e) ==
  /\ Cached(n, e) # {}
  /\ Start(r, Finalization(n, e))

(* GetBlobCountMismatches.                                                 *)
CountMismatches(n) ==
  {e \in GetAllEpochs(n) :
     epochRows[e].blobCount # Cardinality(GetBlobsByEpoch(n, e))}

(* RepairEpochs: the epoch is rebuilt from its rows; one without rows      *)
(* fails. The strict mode verifies the DAG before it saves the root.       *)
RepairEpochs(r, n, e, strict) ==
  LET root == EpochNode(n, e, Cached(n, e))
  IN  /\ Cached(n, e) # {}
      /\ Start(r, IF strict
                  THEN NewRequest("repair", n, e,
                                  <<"upload", "verify", "saveEpoch", "root">>,
                                  root, Built(root), {})
                  ELSE NewRequest("repairNoVerify", n, e, <<"upload", "saveEpoch", "root">>,
                                  root, Built(root), {}))

(* cmdRepairEpochs: the epochs of the wrong count, strict but for          *)
(* -no-verify.                                                             *)
StartRepair(r, n, e) ==
  /\ e \in CountMismatches(n)
  /\ \E strict \in BOOLEAN : RepairEpochs(r, n, e, strict)

(* Mutant: the rows are only rewritten if one of them is missing.          *)
BackfillIPFSMissing(r, n, e) ==
  LET metas == Fetched(n, e, FALSE)
      root == EpochNode(n, e, metas)
      missing == \E m \in metas : m[2].commitment \notin GetBlobsByEpoch(n, e)
  IN  /\ Cached(n, e) # {}
      /\ metas # {}
      /\ Start(r, NewRequest("backfill", n, e,
                             IF missing THEN <<"upload", "saveEpoch", "saveBlobs", "root">>
                             ELSE <<"upload", "saveEpoch", "root">>,
                             root, Closure(root), metas))

(* BackfillIPFS: the epoch is fetched again, without the execution node,   *)
(* and the rows are rewritten if one of them differs.                      *)
BackfillIPFS(r, n, e) ==
  LET metas == Fetched(n, e, FALSE)
      root == EpochNode(n, e, metas)
      cidMismatch == \E m \in metas : m \notin Cached(n, e)
  IN  /\ Cached(n, e) # {}
      /\ metas # {}
      /\ Start(r, NewRequest("backfill", n, e,
                             IF cidMismatch THEN <<"upload", "saveEpoch", "saveBlobs", "root">>
                             ELSE <<"upload", "saveEpoch", "root">>,
                             root, Closure(root), metas))

(* cmdBackfillIPFS: refused by a process that skips uploads.               *)
StartBackfillIPFS(r, n, e) == ~skipUpload /\ BackfillIPFS(r, n, e)

-----------------------------------------------------------------------------
(* Steps                                                                   *)

At(r, step) == Active(r) /\ Head(requests[r].todo) = step

Advance(r) == requests' = [requests EXCEPT ![r].todo = Tail(@)]

Abort(r) == requests' = [requests EXCEPT ![r] = None]

(* PutBlockstore, or the NullBlockstore of a process that skips uploads.   *)
Upload(r) ==
  /\ At(r, "upload")
  /\ \/ /\ ~skipUpload
        /\ blocks' = blocks \cup requests[r].put
        /\ UNCHANGED discarded
     \/ /\ skipUpload
        /\ discarded' = discarded \cup requests[r].put
        /\ UNCHANGED blocks
  /\ Advance(r)
  /\ UNCHANGED <<database, networkRoot, skipUpload, budget>>

(* Mutant: the error of an upload is logged and the request goes on.       *)
UploadFailsUnnoticed(r) ==
  /\ At(r, "upload")
  /\ ~skipUpload
  /\ Spend("fault")
  /\ \E S \in SUBSET requests[r].put : blocks' = blocks \cup S
  /\ Advance(r)
  /\ UNCHANGED <<database, discarded, networkRoot, skipUpload>>

(* The first error cancels the other uploads; what has arrived stays.      *)
(* BackfillIPFS tries again until it succeeds.                             *)
UploadFails(r) ==
  /\ At(r, "upload")
  /\ ~skipUpload
  /\ Spend("fault")
  /\ \E S \in SUBSET requests[r].put : blocks' = blocks \cup S
  /\ IF requests[r].op = "backfill" THEN UNCHANGED requests ELSE Abort(r)
  /\ UNCHANGED <<database, discarded, networkRoot, skipUpload>>

(* VerifyLocal: every block under the root is on the node.                 *)
VerifyLocal(root) == Closure(root) \subseteq blocks

Verify(r) ==
  /\ At(r, "verify")
  /\ \/ skipUpload /\ Advance(r)
     \/ ~skipUpload /\ VerifyLocal(requests[r].root) /\ Advance(r)
     \/ ~skipUpload /\ ~VerifyLocal(requests[r].root) /\ Abort(r)
  /\ UNCHANGED <<database, node, skipUpload, budget>>

Saved(r) == SaveEpochRow(requests[r].network, requests[r].epoch, requests[r].root)

SaveEpoch(r) ==
  /\ At(r, "saveEpoch")
  /\ epochRows' = Saved(r)
  /\ Advance(r)
  /\ UNCHANGED <<blobRows, node, skipUpload, budget>>

SaveBlobs(r) ==
  /\ At(r, "saveBlobs")
  /\ SaveBlobRows(requests[r].network, requests[r].epoch, requests[r].save)
  /\ Advance(r)
  /\ UNCHANGED <<node, skipUpload, budget>>

(* Mutant: the row for the foreign key is committed before the blobs are.  *)
SaveFailsHalfway(r) ==
  /\ Spend("fault")
  /\ \/ /\ At(r, "saveEpoch")
        /\ epochRows' \in {epochRows, Saved(r)}
        /\ UNCHANGED blobRows
     \/ /\ At(r, "saveBlobs")
        /\ epochRows' = Placeholder(requests[r].network, requests[r].epoch)
        /\ UNCHANGED blobRows
  /\ Abort(r)
  /\ UNCHANGED <<node, skipUpload>>

(* A write that fails may have been committed.                             *)
SaveFails(r) ==
  /\ Spend("fault")
  /\ \/ /\ At(r, "saveEpoch")
        /\ epochRows' \in {epochRows, Saved(r)}
        /\ UNCHANGED blobRows
     \/ /\ At(r, "saveBlobs")
        /\ \/ SaveBlobRows(requests[r].network, requests[r].epoch, requests[r].save)
           \/ UNCHANGED database
  /\ Abort(r)
  /\ UNCHANGED <<node, skipUpload>>

(* The push goes on as the finalization of the epoch, if that has rows.    *)
Finalize(r) ==
  LET request == requests[r]
      n == request.network
      e == request.epoch
  IN  /\ At(r, "finalize")
      /\ \/ /\ Cached(n, e) # {}
            /\ requests' = [requests EXCEPT ![r] =
                              [Finalization(n, e) EXCEPT !.alone = request.alone]]
         \/ /\ Cached(n, e) = {}
            /\ Abort(r)
      /\ UNCHANGED <<database, node, skipUpload, budget>>

(* rebuildNetworkRoot: no error of it is fatal; an epoch without a CID is  *)
(* an error.                                                               *)
RebuildNetworkRoot(r) ==
  LET n == requests[r].network
      decodes == \A e \in GetAllEpochs(n) : epochRows[e].cid # NoCID
  IN  /\ At(r, "root")
      /\ \/ /\ ~skipUpload /\ decodes
            /\ networkRoot' = [networkRoot EXCEPT ![n] =
                                 {<<e, epochRows[e].cid>> : e \in GetAllEpochs(n)}]
            /\ UNCHANGED budget
         \/ /\ skipUpload \/ ~decodes
            /\ UNCHANGED <<networkRoot, budget>>
         \/ /\ Spend("fault")
            /\ UNCHANGED networkRoot
      /\ Advance(r)
      /\ UNCHANGED <<database, blocks, discarded, skipUpload>>

-----------------------------------------------------------------------------
(* Environment                                                             *)

(* The process of a request dies, or its context is cancelled.             *)
Crash(r) ==
  /\ Active(r)
  /\ Spend("fault")
  /\ Abort(r)
  /\ UNCHANGED <<database, node, skipUpload>>

(* The processes are started again with uploads enabled.                   *)
EnableUpload ==
  /\ skipUpload
  /\ \A r \in Request : ~Active(r)
  /\ skipUpload' = FALSE
  /\ UNCHANGED <<database, node, requests, budget>>

Next ==
  \/ \E r \in Request, n \in Network, e \in Epoch :
       \/ StartProcess(r, n, e)
       \/ StartPush(r, n, e)
       \/ StartFinalize(r, n, e)
       \/ StartRepair(r, n, e)
       \/ StartBackfillIPFS(r, n, e)
  \/ \E r \in Request :
       \/ Upload(r) \/ UploadFails(r) \/ Verify(r)
       \/ SaveEpoch(r) \/ SaveBlobs(r) \/ SaveFails(r)
       \/ Finalize(r) \/ RebuildNetworkRoot(r)
       \/ Crash(r)
  \/ EnableUpload

Spec == Init /\ [][Next]_vars

-----------------------------------------------------------------------------
(* The health-check command                                                *)

GetNetworkMismatches(n) ==
  {e \in GetAllEpochs(n) :
     \E c \in Commitment : /\ blobRows[c] # None
                           /\ blobRows[c].epoch = e
                           /\ blobRows[c].network # n}

GetOrphanBlobs(n) == {e \in Epoch : GetBlobsByEpoch(n, e) # {}} \ GetAllEpochs(n)

(* GetBlobIndexAnomalies, of which duplicates fail the check: two rows of  *)
(* an epoch have one blob_index, be they of different slots.               *)
DuplicateIndices(n) ==
  {e \in Epoch : \E c, d \in GetBlobsByEpoch(n, e) :
                   c # d /\ blobRows[c].place.index = blobRows[d].place.index}

(* runTier1: the metadata recomputed from the columns, and the epoch node  *)
(* rebuilt from the stored metadata; an epoch without rows is passed over. *)
MetaBad(n, e) ==
  \E c \in GetBlobsByEpoch(n, e) :
    LET row == blobRows[c] IN row.meta # Meta(c, e, row.place, row.meta[2].tx)

RootBad(n, e) ==
  /\ GetBlobsByEpoch(n, e) # {}
  /\ epochRows[e].cid # EpochNode(n, e, Cached(n, e))

(* The epochs some check fails for. Sizes, gaps and cursors are only       *)
(* warned of.                                                              *)
Unhealthy(n) ==
  CountMismatches(n) \cup GetNetworkMismatches(n) \cup GetOrphanBlobs(n)
    \cup DuplicateIndices(n)
    \cup {e \in GetAllEpochs(n) : MetaBad(n, e) \/ RootBad(n, e)}

(* GetEmptyEpochs.                                                         *)
GetEmptyEpochs(n) ==
  {e \in GetAllEpochs(n) : epochRows[e].blobCount = 0 /\ GetBlobsByEpoch(n, e) = {}}

(* Mutant: only the blobs, without their metadata.                         *)
ExportedData(n, e) ==
  {epochRows[e].cid} \cup {Data(c) : c \in GetBlobsByEpoch(n, e)}

(* export-car: the root and what the rows name.                            *)
Exported(n, e) ==
  {epochRows[e].cid} \cup Cached(n, e) \cup {Data(c) : c \in GetBlobsByEpoch(n, e)}

(* BuildRangeNode: links to the epochs of a range.                         *)
RangeNode(n, epochs) == <<"range", n, {<<e, epochRows[e].cid>> : e \in epochs}>>

(* export-car-range: the epochs of the network between two.                *)
InRange(n, from, to) == {e \in GetAllEpochs(n) : from <= e /\ e <= to}

ExportedRange(n, from, to) ==
  {RangeNode(n, InRange(n, from, to))} \cup UNION {Exported(n, e) : e \in InRange(n, from, to)}

-----------------------------------------------------------------------------
(* Properties                                                              *)

(* The blocks a process was asked to keep.                                 *)
Stored == blocks \cup discarded

(* A CID in the database or in a NetworkRoot resolves: whatever failed or  *)
(* crashed, the blocks under it are on the IPFS node, or a process that    *)
(* skips uploads has passed them over.                                     *)
SavedResolves ==
  /\ \A e \in Epoch : epochRows[e] # None /\ epochRows[e].cid # NoCID
                        => Closure(epochRows[e].cid) \subseteq Stored
  /\ \A c \in Commitment : blobRows[c] # None
                             => {blobRows[c].meta, Data(c)} \subseteq Stored
  /\ \A n \in Network : \A l \in networkRoot[n] : l[2] # NoCID /\ Closure(l[2]) \subseteq Stored

(* Metadata of blobs that the epoch has on the chain.                      *)
Genuine(n, e, metas) ==
  {m \in metas : \E b \in OnChain(n, e) : b.commitment = m[2].commitment}

(* The rows whose place is not that of the chain. They come from pushes:   *)
(* the conflict clause of SaveBlobs keeps the place of the first row.      *)
Misplaced(n, e) ==
  {c \in GetBlobsByEpoch(n, e) :
     \A b \in OnChain(n, e) : b.commitment # c \/ b.place # blobRows[c].place}

(* What a request that pulled, finalized, repaired or re-uploaded an epoch *)
(* with nobody else at work on it leaves in order, whatever state it found *)
(* and whatever was pushed before: no row is orphaned or of the wrong      *)
(* network, and count and root are those of the rows; all but rows that    *)
(* are not on the chain, which backfill-ipfs does not count. "Fixed by     *)
(* backfill-ipfs" (operations.md) is the metadata too, of rows that have   *)
(* their place from the chain: health-check then fails on nothing but      *)
(* indices that the blocks of the epoch have in common.                    *)
Settled ==
  \A r \in Request :
    LET n == requests[r].network
        e == requests[r].epoch
        reuploaded == requests[r].op = "backfill"
    IN  Finished(r) /\ requests[r].op # "push" /\ requests[r].alone
          => /\ e \notin GetNetworkMismatches(n) \cup GetOrphanBlobs(n)
             /\ ~reuploaded \/ Cached(n, e) = Genuine(n, e, Cached(n, e))
                  => e \notin CountMismatches(n) /\ ~RootBad(n, e)
             /\ reuploaded /\ Misplaced(n, e) = {} /\ e \in Unhealthy(n)
                  => e \in DuplicateIndices(n)

(* The CAR of a range of epochs whose count and root health-check passes   *)
(* has every block under its root, whoever wrote them and in whatever      *)
(* order; all but the shards of large indices, which no row names.         *)
ExportComplete ==
  \A n \in Network :
    LET sound == {e \in GetAllEpochs(n) \ CountMismatches(n) :
                    ~RootBad(n, e) /\ epochRows[e].cid # NoCID}
    IN  \A from \in Epoch : \A to \in {e \in Epoch : from <= e} :
          InRange(n, from, to) \subseteq sound
            => \A link \in RangeNode(n, InRange(n, from, to))[3] :
                 Closure(link[2]) \subseteq ExportedRange(n, from, to) \cup Shards(link[2])

(* backfill-ipfs is the recovery path after skipped uploads and partial    *)
(* pushes: it leaves the whole epoch of the chain in the rows, beside what *)
(* was pushed and is not on the chain, and all its blocks on the node.     *)
BackfillRecovers ==
  \A r \in Request :
    LET n == requests[r].network
        e == requests[r].epoch
    IN  Finished(r) /\ requests[r].op = "backfill"
          => /\ VerifyLocal(requests[r].root)
             /\ requests[r].alone
                  => Genuine(n, e, Cached(n, e)) = Fetched(n, e, FALSE)

(* "genuinely empty epochs (no blobs on-chain), not corrupted ones": no    *)
(* failure or crash leaves an epoch with blobs looking empty.              *)
GenuinelyEmpty == \A n \in Network : \A e \in GetEmptyEpochs(n) : OnChain(n, e) = {}

=============================================================================
