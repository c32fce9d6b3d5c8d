---------------------------- MODULE EpochStoreProofs ----------------------------
(***************************************************************************)
(* What the tables, the blocks and the NetworkRoots promise each other for *)
(* every set of networks and requests, every chain and any number of       *)
(* faults, whatever is pushed; and, where the networks do not share a      *)
(* database and no blob is repeated, what a request leaves behind.         *)
(***************************************************************************)
EXTENDS EpochStore, FiniteSetTheorems, TLAPS

-----------------------------------------------------------------------------
(* Values                                                                  *)

(* The metadata that the blobs of an epoch have, on the chain or in a      *)
(* push.                                                                   *)
MetasOf(n, e) == {MetaOf(n, e, b, el) : b \in Offered(n, e), el \in BOOLEAN}

Metas == UNION {MetasOf(n, e) : n \in Network, e \in Epoch}

Place == {b.place : b \in UNION {Offered(n, e) : n \in Network, e \in Epoch}}

(* Nodes of an epoch with finitely many blobs.                             *)
RootOf(n, e) == {EpochNode(n, e, metas) : metas \in {S \in SUBSET Metas : IsFiniteSet(S)}}

Root == UNION {RootOf(n, e) : n \in Network, e \in Epoch}

Block == {Data(c) : c \in Commitment} \cup Metas \cup UNION {Built(root) : root \in Root}

EpochRow == [network : Network, cid : {NoCID} \cup Root, blobCount : Nat]

BlobRow == [network : Network, epoch : Epoch, place : Place, meta : Metas]

Op == {"process", "push", "finalize", "repair", "repairNoVerify", "backfill"}

Step == {"upload", "verify", "saveEpoch", "saveBlobs", "finalize", "root"}

(* A list of steps has a step at most once, and the upload comes first.    *)
Has(todo, step) == \E i \in 1 .. Len(todo) : todo[i] = step

Todo == {todo \in Seq(Step) :
           /\ \A i, j \in 1 .. Len(todo) : todo[i] = todo[j] => i = j
           /\ \A i \in 1 .. Len(todo) : todo[i] = "upload" => i = 1}

RequestRecord ==
  [op : Op, network : Network, epoch : Epoch, todo : Todo, root : {NoCID} \cup Root,
   put : SUBSET Block, save : SUBSET Metas, alone : BOOLEAN]

RowTypes ==
  /\ epochRows \in [Epoch -> {None} \cup EpochRow]
  /\ blobRows \in [Commitment -> {None} \cup BlobRow]
  /\ networkRoot \in [Network -> SUBSET (Epoch \X Root)]

RequestTypes ==
  /\ skipUpload \in BOOLEAN
  /\ requests \in [Request -> {None} \cup RequestRecord]

-----------------------------------------------------------------------------
(* What holds for all constants                                            *)

(* A row of a blob is about a blob that was fetched or pushed under its    *)
(* epoch and place, and its metadata is some metadata of that blob.        *)
Sourced(c, row) ==
  /\ \E b \in Offered(row.network, row.epoch) : b.commitment = c /\ b.place = row.place
  /\ row.meta[2].commitment = c

RowsSourced == \A c \in Commitment : blobRows[c] # None => Sourced(c, blobRows[c])

(* The count of an epoch's row is that of its root.                        *)
RowsCount ==
  \A e \in Epoch : epochRows[e] # None /\ epochRows[e].cid # NoCID
                     => epochRows[e].blobCount = Cardinality(Links(epochRows[e].cid))

(* What is stored once the upload of a request is done.                    *)
Provided(q, stored) == stored \cup (IF Has(q.todo, "upload") THEN q.put ELSE {})

(* A request works on its own epoch, and what it is going to save is       *)
(* stored or among what it is going to upload; backfill-ipfs has uploaded  *)
(* every block of the epoch itself.                                        *)
RequestSound(q, kept, stored, skips) ==
  /\ IF q.op = "push" THEN ~Has(q.todo, "saveEpoch") /\ ~Has(q.todo, "verify")
     ELSE q.root \in RootOf(q.network, q.epoch) /\ Closure(q.root) \subseteq Provided(q, stored)
  /\ \A m \in q.save : /\ {m, Data(m[2].commitment)} \subseteq Provided(q, stored)
                       /\ m \in MetasOf(q.network, q.epoch)
  /\ Has(q.todo, "saveBlobs") => q.save # {}
  /\ q.op = "backfill" => /\ ~skips
                          /\ Links(q.root) = Fetched(q.network, q.epoch, FALSE)
                          /\ IF Has(q.todo, "upload") THEN Closure(q.root) \subseteq q.put
                             ELSE Closure(q.root) \subseteq kept

RequestsSound ==
  \A r \in Request :
    requests[r] # None => RequestSound(requests[r], blocks, Stored, skipUpload)

DatabaseInv == RowTypes /\ RowsSourced /\ RowsCount /\ SavedResolves

WorkInv == RequestTypes /\ RequestsSound

StoreInv == DatabaseInv /\ WorkInv

-----------------------------------------------------------------------------
(* What holds for one network whose blobs are all different                *)

OneDatabaseEach == \A n, k \in Network : n = k

(* The chain has no blob twice, and pushes name the epoch of a blob; its   *)
(* place they may name as they like.                                       *)
NoBlobTwice ==
  \A n \in Network : \A e, f \in Epoch :
    /\ \A b \in Offered(n, e), c \in Offered(n, f) : b.commitment = c.commitment => e = f
    /\ \A b, c \in OnChain(n, e) : b.commitment = c.commitment => b = c

Separate == OneDatabaseEach /\ NoBlobTwice

(* An epoch that counts no blobs has none, or has rows of blobs; a request *)
(* that is to save an empty root has fetched an empty epoch.               *)
EmptyRows ==
  \A e \in Epoch : epochRows[e] # None /\ epochRows[e].blobCount = 0
    => \/ OnChain(epochRows[e].network, e) = {}
       \/ GetBlobsByEpoch(epochRows[e].network, e) # {}

EmptyRequest(q) == q.op # "push" /\ Links(q.root) = {} => OnChain(q.network, q.epoch) = {}

EmptyRequests == \A r \in Request : requests[r] # None => EmptyRequest(requests[r])

(* A request that is alone has its epoch for itself.                       *)
Exclusive ==
  \A r, p \in Request :
    requests[r] # None /\ requests[r].alone /\ p # r /\ Active(p)
      => requests[p].epoch # requests[r].epoch

(* Alone, the root that a request is about to save, or has saved, is that  *)
(* of the rows there are when it is done with them; of those, that of      *)
(* backfill-ipfs has the ones on the chain.                                *)
Alone(q, row, cached) ==
  /\ IF Has(q.todo, "saveBlobs")
     THEN /\ Links(q.root) = q.save /\ \E el \in BOOLEAN : q.save = Fetched(q.network, q.epoch, el)
          /\ q.op # "backfill" => cached = {}
     ELSE Links(q.root) = IF q.op = "backfill" THEN Genuine(q.network, q.epoch, cached) ELSE cached
  /\ ~Has(q.todo, "saveEpoch")
       => row = [network |-> q.network, cid |-> q.root, blobCount |-> Cardinality(Links(q.root))]

AloneRequest(r) ==
  LET q == requests[r]
  IN  q # None /\ q.op # "push" /\ q.alone
        => Alone(q, epochRows[q.epoch], Cached(q.network, q.epoch))

AloneInv == \A r \in Request : AloneRequest(r)

SeparateInv == EmptyRows /\ EmptyRequests /\ Exclusive /\ AloneInv

-----------------------------------------------------------------------------
(* Rows and requests are told from None by their fields, and a node from   *)
(* the missing CID by its length.                                          *)
LEMMA NoneApart ==
  /\ None \notin EpochRow /\ None \notin BlobRow /\ None \notin RequestRecord
  /\ \A n, e, metas : EpochNode(n, e, metas) # NoCID
<1>1. None \notin EpochRow
  BY DEF None, EpochRow
<1>2. None \notin BlobRow
  BY Zenon DEF None, BlobRow
<1>3. None \notin RequestRecord
  BY Zenon DEF None, RequestRecord
<1>4. \A n, e, metas : EpochNode(n, e, metas) # NoCID
  BY Zenon DEF EpochNode, NoCID
<1>5. QED
  BY <1>1, <1>2, <1>3, <1>4, Zenon

(* A row of ipld_epochs is not the absence of one.                         *)
LEMMA RowApart ==
  \A n, root, count : [network |-> n, cid |-> root, blobCount |-> count] # None
BY DEF None

(* The links of a node are the metadata it was built of.                   *)
LEMMA EpochNodeLinks == \A n, e, metas : Links(EpochNode(n, e, metas)) = metas
BY Zenon DEF EpochNode, Links

(* Metadata names the blob it is about.                                    *)
LEMMA MetaFields ==
  \A c, e, p, tx : /\ Meta(c, e, p, tx)[2].commitment = c
                   /\ Meta(c, e, p, tx)[2].place = p
                   /\ Meta(c, e, p, tx)[2].tx = tx
                   /\ Meta(c, e, p, tx)[2].epoch = e
BY DEF Meta

(* The node of a root's links and its epoch is the root itself.            *)
LEMMA RootFacts ==
  ASSUME NEW n, NEW e, NEW root \in RootOf(n, e)
  PROVE  /\ root = EpochNode(n, e, Links(root))
         /\ Links(root) \subseteq Metas
         /\ IsFiniteSet(Links(root))
         /\ root # NoCID
BY EpochNodeLinks, NoneApart DEF RootOf

(* Finitely many pieces of metadata make a node.                           *)
LEMMA RootFromMetas ==
  ASSUME NEW n \in Network, NEW e \in Epoch, NEW metas \in SUBSET Metas, IsFiniteSet(metas)
  PROVE  EpochNode(n, e, metas) \in RootOf(n, e) /\ EpochNode(n, e, metas) \in Root
<1>1. EpochNode(n, e, metas) \in RootOf(n, e)
  BY DEF RootOf
<1>2. QED
  BY <1>1 DEF Root

(* Metadata of a blob that was fetched or pushed.                          *)
LEMMA MetasOfFacts ==
  ASSUME NEW n \in Network, NEW e \in Epoch, NEW m \in MetasOf(n, e)
  PROVE  /\ m \in Metas
         /\ \E b \in Offered(n, e) : b.commitment = m[2].commitment /\ b.place = m[2].place
         /\ m = Meta(m[2].commitment, e, m[2].place, m[2].tx)
         /\ m[2].commitment \in Commitment
         /\ m[2].place \in Place
<1>1. PICK b \in Offered(n, e), el \in BOOLEAN : m = MetaOf(n, e, b, el)
  BY DEF MetasOf
<1>2. m = Meta(b.commitment, e, b.place, <<n, e, b.place, el>>)
  BY <1>1, Zenon DEF MetaOf
<1>3. b \in UNION {Offered(k, f) : k \in Network, f \in Epoch}
  OBVIOUS
<1>4. m \in Metas
  BY DEF Metas
<1>5. QED
  BY <1>2, <1>3, <1>4, MetaFields DEF Commitment, Place

(* Metadata that was fetched is that of a blob of the chain.               *)
LEMMA FetchedMeta ==
  ASSUME NEW n, NEW e, NEW el, NEW m \in Fetched(n, e, el)
  PROVE  \E b \in OnChain(n, e) : /\ m = MetaOf(n, e, b, el)
                                  /\ m[2].commitment = b.commitment /\ m[2].place = b.place
<1>1. PICK b \in OnChain(n, e) : m = MetaOf(n, e, b, el)
  BY Zenon DEF Fetched
<1>2. m[2].commitment = b.commitment /\ m[2].place = b.place
  BY <1>1, MetaFields DEF MetaOf
<1>3. QED
  BY <1>1, <1>2, Zenon

(* What was fetched is finite, and empty only if the epoch is.             *)
LEMMA FetchedFacts ==
  ASSUME NEW n \in Network, NEW e \in Epoch, NEW el \in BOOLEAN
  PROVE  /\ Fetched(n, e, el) \subseteq MetasOf(n, e)
         /\ Fetched(n, e, el) \subseteq Metas
         /\ IsFiniteSet(Fetched(n, e, el))
         /\ Fetched(n, e, el) = {} => OnChain(n, e) = {}
<1> DEFINE f == [b \in OnChain(n, e) |-> MetaOf(n, e, b, el)]
<1>1. IsFiniteSet(OnChain(n, e))
  BY EpochStoreAssumption, FS_EmptySet, Zenon DEF OnChain
<1>2. f \in Surjection(OnChain(n, e), Fetched(n, e, el))
  BY Zenon DEF Fetched, Surjection
<1>3. IsFiniteSet(Fetched(n, e, el))
  BY <1>1, <1>2, FS_Surjection, Zenon
<1>4. Fetched(n, e, el) \subseteq MetasOf(n, e)
  BY DEF Fetched, MetasOf, Offered
<1>5. MetasOf(n, e) \subseteq Metas
  BY DEF Metas
<1>6. Fetched(n, e, el) = {} => OnChain(n, e) = {}
  BY Zenon DEF Fetched
<1>7. QED
  BY <1>3, <1>4, <1>5, <1>6, Zenon

(* The rows of an epoch are rows of its blobs.                             *)
LEMMA CachedFacts ==
  ASSUME RowTypes, RowsSourced, NEW n \in Network, NEW e \in Epoch
  PROVE  /\ Cached(n, e) \subseteq Metas
         /\ IsFiniteSet(GetBlobsByEpoch(n, e))
         /\ IsFiniteSet(Cached(n, e))
         /\ Cardinality(Cached(n, e)) = Cardinality(GetBlobsByEpoch(n, e))
         /\ \A m \in Cached(n, e) : \E c \in Commitment :
              c = m[2].commitment /\ blobRows[c] # None /\ blobRows[c].meta = m
<1> DEFINE rows == GetBlobsByEpoch(n, e)
           f == [c \in rows |-> blobRows[c].meta]
           g == [b \in Offered(n, e) |-> b.commitment]
<1>1. \A c \in rows : /\ c \in Commitment /\ blobRows[c] # None /\ blobRows[c] \in BlobRow
                       /\ blobRows[c].meta \in Metas /\ blobRows[c].meta[2].commitment = c
                       /\ \E b \in Offered(n, e) : b.commitment = c
  BY DEF RowTypes, GetBlobsByEpoch, RowsSourced, Sourced, BlobRow
<1>2. IsFiniteSet(Offered(n, e))
  <2>1. IsFiniteSet(OnChain(n, e))
    BY EpochStoreAssumption, FS_EmptySet, Zenon DEF OnChain
  <2>2. IsFiniteSet(Pushed(n, e))
    BY EpochStoreAssumption, FS_EmptySet, Zenon DEF Pushed
  <2>3. QED
    BY <2>1, <2>2, FS_Union, Zenon DEF Offered
<1>3. IsFiniteSet({b.commitment : b \in Offered(n, e)})
  <2>1. g \in Surjection(Offered(n, e), {b.commitment : b \in Offered(n, e)})
    BY Zenon DEF Surjection
  <2>2. QED
    BY <1>2, <2>1, FS_Surjection, Zenon
<1>4. IsFiniteSet(rows)
  <2>1. rows \in SUBSET {b.commitment : b \in Offered(n, e)}
    BY <1>1
  <2>2. QED
    BY <1>3, <2>1, FS_Subset
<1>5. f \in Surjection(rows, Cached(n, e)) /\ f \in Injection(rows, Cached(n, e))
  <2>1. f \in [rows -> Cached(n, e)]
    BY Zenon DEF Cached
  <2>2. \A c, d \in rows : f[c] = f[d] => c = d
    BY <1>1
  <2>3. \A m \in Cached(n, e) : \E c \in rows : f[c] = m
    BY Zenon DEF Cached
  <2>4. QED
    BY <2>1, <2>2, <2>3, Zenon DEF Surjection, Injection, IsInjective
<1>6. IsFiniteSet(Cached(n, e)) /\ Cardinality(Cached(n, e)) = Cardinality(rows)
  BY <1>4, <1>5, FS_Surjection, Zenon
<1>7. QED
  BY <1>1, <1>4, <1>6 DEF Cached

(* What is left of a list of steps once its head is done.                  *)
LEMMA TodoTail ==
  ASSUME NEW todo \in Todo, todo # <<>>
  PROVE  /\ Tail(todo) \in Todo
         /\ ~Has(Tail(todo), "upload")
         /\ Head(todo) # "upload" => ~Has(todo, "upload")
         /\ \A step : Has(Tail(todo), step) <=> Has(todo, step) /\ step # Head(todo)
<1>1. todo \in Seq(Step)
  BY DEF Todo
<1>2. /\ Tail(todo) \in Seq(Step)
      /\ Len(todo) \in Nat /\ Len(todo) >= 1
      /\ Len(Tail(todo)) = Len(todo) - 1
      /\ \A i \in 1 .. Len(Tail(todo)) : Tail(todo)[i] = todo[i + 1]
      /\ Head(todo) = todo[1]
  BY <1>1
<1>3. Tail(todo) \in Todo
  <2>1. \A i \in 1 .. Len(Tail(todo)) : i + 1 \in 1 .. Len(todo)
    BY <1>2
  <2>2. \A i, j \in 1 .. Len(Tail(todo)) : Tail(todo)[i] = Tail(todo)[j] => i = j
    BY <1>2, <2>1 DEF Todo
  <2>3. \A i \in 1 .. Len(Tail(todo)) : Tail(todo)[i] # "upload"
    BY <1>2, <2>1 DEF Todo
  <2>4. QED
    BY <1>2, <2>2, <2>3, Zenon DEF Todo
<1>4. \A step : Has(Tail(todo), step) <=> Has(todo, step) /\ step # Head(todo)
  <2> SUFFICES ASSUME NEW step
               PROVE  Has(Tail(todo), step) <=> Has(todo, step) /\ step # Head(todo)
    BY Zenon
  <2>1. ASSUME Has(Tail(todo), step) PROVE Has(todo, step) /\ step # Head(todo)
    BY <1>2, <2>1 DEF Has, Todo
  <2>2. ASSUME Has(todo, step), step # Head(todo) PROVE Has(Tail(todo), step)
    <3>1. PICK i \in 1 .. Len(todo) : todo[i] = step
      BY <2>2, Zenon DEF Has
    <3>2. i # 1 /\ i - 1 \in 1 .. Len(Tail(todo))
      BY <1>2, <2>2, <3>1
    <3>3. Tail(todo)[i - 1] = todo[i]
      BY <1>2, <3>2
    <3>4. QED
      BY <3>1, <3>2, <3>3, Zenon DEF Has
  <2>3. QED
    BY <2>1, <2>2, Zenon
<1>5. Head(todo) # "upload" => ~Has(todo, "upload")
  BY <1>2, Zenon DEF Has, Todo
<1>6. QED
  BY <1>3, <1>4, <1>5, Zenon

-----------------------------------------------------------------------------
(* Steps and the database                                                  *)

(* A step that writes no row and no NetworkRoot, and loses no block.       *)
LEMMA DatabaseKept ==
  ASSUME DatabaseInv, UNCHANGED <<database, networkRoot>>, Stored \subseteq Stored'
  PROVE  DatabaseInv'
<1> USE DEF database
<1>1. RowTypes' /\ RowsSourced' /\ RowsCount'
  BY Zenon DEF DatabaseInv, RowTypes, RowsSourced, RowsCount
<1>2. SavedResolves'
  BY DEF DatabaseInv, SavedResolves
<1>3. QED
  BY <1>1, <1>2 DEF DatabaseInv

(* SaveEpoch of a root whose blocks are stored.                            *)
LEMMA DatabaseSaveEpoch ==
  ASSUME DatabaseInv, NEW n \in Network, NEW e \in Epoch, NEW root \in RootOf(n, e),
         Closure(root) \subseteq Stored, epochRows' = SaveEpochRow(n, e, root),
         UNCHANGED <<blobRows, node>>
  PROVE  /\ DatabaseInv'
         /\ epochRows'[e] = [network |-> IF epochRows[e] = None THEN n ELSE epochRows[e].network,
                             cid |-> root, blobCount |-> Cardinality(Links(root))]
         /\ \A f \in Epoch \ {e} : epochRows'[f] = epochRows[f]
<1> DEFINE row == [network |-> IF epochRows[e] = None THEN n ELSE epochRows[e].network,
                   cid |-> root, blobCount |-> Cardinality(Links(root))]
<1>1. epochRows' = [epochRows EXCEPT ![e] = row]
  BY Zenon DEF SaveEpochRow
<1>2. epochRows \in [Epoch -> {None} \cup EpochRow]
  BY Zenon DEF DatabaseInv, RowTypes
<1>3. row \in EpochRow
  <2>1. Cardinality(Links(root)) \in Nat /\ root \in Root
    BY RootFacts, FS_CardinalityType DEF Root
  <2>2. row.network \in Network
    BY <1>2, Zenon DEF EpochRow
  <2>3. QED
    BY <2>1, <2>2, Zenon DEF EpochRow
<1>4. epochRows'[e] = row /\ \A f \in Epoch \ {e} : epochRows'[f] = epochRows[f]
  BY <1>1, <1>2, Zenon
<1>6. RowTypes'
  BY <1>1, <1>2, <1>3 DEF DatabaseInv, RowTypes, node
<1>7. RowsSourced' /\ RowsCount'
  BY <1>4 DEF DatabaseInv, RowsSourced, RowsCount
<1>8. SavedResolves'
  BY <1>4 DEF DatabaseInv, SavedResolves, Stored, node
<1>9. QED
  BY <1>4, <1>6, <1>7, <1>8, Zenon DEF DatabaseInv

(* SaveBlobs: a row of the epoch unless there is one, and for every        *)
(* commitment at hand one of its metadata, in a row that keeps its place.  *)
LEMMA SaveBlobRowsEffect ==
  ASSUME RowTypes, NEW n \in Network, NEW e \in Epoch,
         NEW metas \in SUBSET MetasOf(n, e), SaveBlobRows(n, e, metas)
  PROVE  /\ epochRows' = Placeholder(n, e)
         /\ blobRows' \in [Commitment -> {None} \cup BlobRow]
         /\ \A c \in Commitment :
              (\A m \in metas : m[2].commitment # c) => blobRows'[c] = blobRows[c]
         /\ \A c \in Commitment :
              (\E m \in metas : m[2].commitment = c) =>
                 \E m \in metas : /\ m[2].commitment = c
                                  /\ blobRows'[c] = UpsertRow(n, e, m, blobRows[c])
<1>1. PICK S \in Distinct(metas) :
        /\ epochRows' = Placeholder(n, e)
        /\ blobRows' = [c \in Commitment |->
                          IF \E m \in S : m[2].commitment = c
                          THEN UpsertRow(n, e, CHOOSE m \in S : m[2].commitment = c, blobRows[c])
                          ELSE blobRows[c]]
  BY Zenon DEF SaveBlobRows
<1>2. S \subseteq metas /\ {m[2].commitment : m \in S} = {m[2].commitment : m \in metas}
  BY Zenon DEF Distinct
<1>3. ASSUME NEW c \in Commitment, \A m \in metas : m[2].commitment # c
      PROVE  blobRows'[c] = blobRows[c]
  BY <1>1, <1>2, <1>3, Zenon
<1>4. ASSUME NEW c \in Commitment, \E m \in metas : m[2].commitment = c
      PROVE  \E m \in metas : m[2].commitment = c /\ blobRows'[c] = UpsertRow(n, e, m, blobRows[c])
  <2>1. \E m \in S : m[2].commitment = c
    BY <1>2, <1>4
  <2> DEFINE k == CHOOSE m \in S : m[2].commitment = c
  <2>2. k \in S /\ k[2].commitment = c
    BY <2>1, Zenon
  <2>3. blobRows'[c] = UpsertRow(n, e, k, blobRows[c])
    BY <1>1, <2>1, Zenon
  <2>4. QED
    BY <1>2, <2>2, <2>3, Zenon
<1>5. \A c \in Commitment, m \in metas : UpsertRow(n, e, m, blobRows[c]) \in BlobRow
  <2> SUFFICES ASSUME NEW c \in Commitment, NEW m \in metas
               PROVE  UpsertRow(n, e, m, blobRows[c]) \in BlobRow
    BY Zenon
  <2>1. m \in Metas /\ m[2].place \in Place
    BY MetasOfFacts, Zenon
  <2>2. blobRows[c] = None \/ blobRows[c] \in BlobRow
    BY Zenon DEF RowTypes
  <2>3. QED
    BY <2>1, <2>2, Zenon DEF UpsertRow, BlobRow
<1>6. \A c \in Commitment : blobRows'[c] \in {None} \cup BlobRow
  BY <1>3, <1>4, <1>5 DEF RowTypes
<1>7. blobRows' \in [Commitment -> {None} \cup BlobRow]
  BY <1>1, <1>6, Zenon
<1>8. QED
  BY <1>1, <1>3, <1>4, <1>7, Zenon

(* The conflict clause changes the metadata and nothing else.              *)
LEMMA UpsertRowFields ==
  ASSUME NEW n, NEW e, NEW m, NEW row \in {None} \cup BlobRow
  PROVE  LET new == UpsertRow(n, e, m, row)
         IN  /\ new.meta = m
             /\ row = None => new.network = n /\ new.epoch = e /\ new.place = m[2].place
             /\ row # None => /\ new.network = row.network
                              /\ new.epoch = row.epoch
                              /\ new.place = row.place
BY Zenon DEF UpsertRow, BlobRow

(* The row for the foreign key has no CID; any other row of an epoch stays.*)
LEMMA PlaceholderFacts ==
  ASSUME RowTypes, NEW n \in Network, NEW e \in Epoch, epochRows' = Placeholder(n, e)
  PROVE  /\ epochRows' \in [Epoch -> {None} \cup EpochRow]
         /\ \A f \in Epoch : \/ epochRows'[f] = epochRows[f] /\ (f = e => epochRows[f] # None)
                             \/ /\ f = e /\ epochRows[f] = None
                                /\ epochRows'[f] = [network |-> n, cid |-> NoCID, blobCount |-> 0]
<1>1. [network |-> n, cid |-> NoCID, blobCount |-> 0] \in EpochRow
  BY Zenon DEF EpochRow
<1>2. QED
  BY <1>1, Zenon DEF RowTypes, Placeholder

(* SaveBlobs of metadata whose blocks are stored.                          *)
LEMMA DatabaseSaveBlobs ==
  ASSUME DatabaseInv, NEW n \in Network, NEW e \in Epoch,
         NEW metas \in SUBSET MetasOf(n, e), SaveBlobRows(n, e, metas), UNCHANGED node,
         \A m \in metas : {m, Data(m[2].commitment)} \subseteq Stored
  PROVE  DatabaseInv'
<1> USE DEF DatabaseInv
<1>0. /\ epochRows' \in [Epoch -> {None} \cup EpochRow]
      /\ \A f \in Epoch : epochRows'[f] = epochRows[f] \/ epochRows'[f].cid = NoCID
  <2>1. epochRows' = Placeholder(n, e)
    BY SaveBlobRowsEffect, Zenon
  <2>2. /\ epochRows' \in [Epoch -> {None} \cup EpochRow]
        /\ \A f \in Epoch : \/ epochRows'[f] = epochRows[f] /\ (f = e => epochRows[f] # None)
                            \/ /\ f = e /\ epochRows[f] = None
                               /\ epochRows'[f] = [network |-> n, cid |-> NoCID, blobCount |-> 0]
    BY <2>1, PlaceholderFacts
  <2>3. QED
    BY <2>2
<1>1. RowTypes'
  BY <1>0, SaveBlobRowsEffect, Zenon DEF RowTypes, node
<1>2. RowsCount'
  BY <1>0, Zenon DEF RowsCount
<1>3. ASSUME NEW c \in Commitment, blobRows'[c] # None
      PROVE  Sourced(c, blobRows'[c]) /\ {blobRows'[c].meta, Data(c)} \subseteq Stored
  <2>1. CASE \A m \in metas : m[2].commitment # c
    BY <1>3, <2>1, SaveBlobRowsEffect DEF RowsSourced, SavedResolves
  <2>2. CASE \E m \in metas : m[2].commitment = c
    <3>1. PICK m \in metas : m[2].commitment = c /\ blobRows'[c] = UpsertRow(n, e, m, blobRows[c])
      BY <2>2, SaveBlobRowsEffect
    <3>2. blobRows[c] \in {None} \cup BlobRow
      BY DEF RowTypes
    <3>3. \E b \in Offered(n, e) : b.commitment = c /\ b.place = m[2].place
      BY <3>1, MetasOfFacts
    <3>4. CASE blobRows[c] = None
      BY <3>1, <3>2, <3>3, <3>4, UpsertRowFields DEF Sourced
    <3>5. CASE blobRows[c] # None
      BY <3>1, <3>2, <3>5, UpsertRowFields DEF Sourced, RowsSourced
    <3>6. QED
      BY <3>4, <3>5, Zenon
  <2>3. QED
    BY <2>1, <2>2, Zenon
<1>4. RowsSourced'
  BY <1>3, Zenon DEF RowsSourced
<1>5. SavedResolves'
  <2>1. Stored' = Stored /\ networkRoot' = networkRoot
    BY Zenon DEF Stored, node
  <2>2. \A f \in Epoch : epochRows'[f] # None /\ epochRows'[f].cid # NoCID
                           => Closure(epochRows'[f].cid) \subseteq Stored
    BY <1>0, Zenon DEF SavedResolves
  <2>3. QED
    BY <1>3, <2>1, <2>2, Zenon DEF SavedResolves
<1>6. QED
  BY <1>1, <1>2, <1>4, <1>5, Zenon

-----------------------------------------------------------------------------
(* Steps and the requests                                                  *)

(* Two requests with the same work left.                                   *)
SameWork(q, p) ==
  /\ q.op = p.op /\ q.network = p.network /\ q.epoch = p.epoch /\ q.todo = p.todo
  /\ q.root = p.root /\ q.put = p.put /\ q.save = p.save

(* Requests with the same work left are equally sound.                     *)
LEMMA SameWorkSound ==
  ASSUME NEW q, NEW p, SameWork(q, p), NEW kept, NEW stored, NEW more, NEW kept2,
         NEW skips, NEW skips2, RequestSound(p, kept, stored, skips),
         kept \subseteq kept2, stored \subseteq more, ~skips => ~skips2
  PROVE  RequestSound(q, kept2, more, skips2)
<1>1. Provided(p, stored) \subseteq Provided(q, more)
  BY Zenon DEF Provided, SameWork
<1>2. QED
  BY <1>1, Zenon DEF RequestSound, SameWork

(* The requests stay sound when each of them is new and sound, or does     *)
(* what it did before, over at least as many blocks.                       *)
LEMMA WorkStep ==
  ASSUME WorkInv, blocks \subseteq blocks', Stored \subseteq Stored',
         skipUpload' \in BOOLEAN, ~skipUpload => ~skipUpload',
         requests' \in [Request -> {None} \cup RequestRecord],
         \A r \in Request : requests'[r] # None =>
            \/ requests[r] # None /\ SameWork(requests'[r], requests[r])
            \/ RequestSound(requests'[r], blocks', Stored', skipUpload')
  PROVE  WorkInv'
<1>1. ASSUME NEW r \in Request, requests'[r] # None
      PROVE  RequestSound(requests'[r], blocks', Stored', skipUpload')
  <2>1. CASE requests[r] # None /\ SameWork(requests'[r], requests[r])
    <3>1. RequestSound(requests[r], blocks, Stored, skipUpload)
      BY <2>1, Zenon DEF WorkInv, RequestsSound
    <3>2. QED
      BY <2>1, <3>1, SameWorkSound
  <2>2. QED
    BY <1>1, <2>1, Zenon
<1>2. QED
  BY <1>1, Zenon DEF WorkInv, RequestTypes, RequestsSound

(* A new request is a request.                                             *)
LEMMA NewRequestType ==
  ASSUME NEW op \in Op, NEW n \in Network, NEW e \in Epoch, NEW todo \in Todo,
         NEW root \in {NoCID} \cup Root, NEW put \in SUBSET Block, NEW save \in SUBSET Metas
  PROVE  LET q == NewRequest(op, n, e, todo, root, put, save)
         IN  /\ q \in RequestRecord
             /\ q.op = op /\ q.network = n /\ q.epoch = e /\ q.todo = todo
             /\ q.root = root /\ q.put = put /\ q.save = save
BY Zenon DEF NewRequest, RequestRecord

(* Start enters the request, and only tells the others of its epoch that   *)
(* they are not alone any more.                                            *)
Entered(r, q) ==
  /\ requests' \in [Request -> {None} \cup RequestRecord]
  /\ requests'[r] # None /\ SameWork(requests'[r], q)
  /\ requests'[r].alone =
       (\A p \in Request \ {r} : requests[p] # None /\ requests[p].epoch = q.epoch => ~Active(p))
  /\ \A p \in Request \ {r} : requests[p] = None => requests'[p] = None
  /\ \A p \in Request \ {r} : requests[p] # None =>
       /\ requests'[p] # None /\ SameWork(requests'[p], requests[p])
       /\ requests'[p].alone = IF requests[p].epoch = q.epoch THEN FALSE ELSE requests[p].alone

(* What Start does to the requests.                                        *)
LEMMA StartEffect ==
  ASSUME RequestTypes, NEW r \in Request, NEW q \in RequestRecord, Start(r, q)
  PROVE  Entered(r, q)
<1> DEFINE rivals == {p \in Request \ {r} : requests[p] # None /\ requests[p].epoch = q.epoch}
           alone == \A p \in rivals : ~Active(p)
           new(p) == IF p = r THEN [q EXCEPT !.alone = alone]
                     ELSE IF p \in rivals THEN [requests[p] EXCEPT !.alone = FALSE]
                     ELSE requests[p]
<1>1. requests' = [p \in Request |-> new(p)]
  BY Zenon DEF Start
<1>2. \A p \in Request : requests[p] = None \/ requests[p] \in RequestRecord
  BY Zenon DEF RequestTypes
<1>3. \A p \in RequestRecord, b \in BOOLEAN :
         /\ [p EXCEPT !.alone = b] \in RequestRecord
         /\ SameWork([p EXCEPT !.alone = b], p)
         /\ [p EXCEPT !.alone = b].alone = b
  BY DEF RequestRecord, SameWork
<1>4. alone \in BOOLEAN
  OBVIOUS
<1>5. requests'[r] = [q EXCEPT !.alone = alone]
  BY <1>1
<1>6. \A p \in Request \ {r} :
        requests'[p] = IF p \in rivals THEN [requests[p] EXCEPT !.alone = FALSE] ELSE requests[p]
  BY <1>1, Zenon
<1>7. /\ requests'[r] \in RequestRecord /\ SameWork(requests'[r], q)
      /\ requests'[r].alone = alone
  BY <1>3, <1>4, <1>5, Zenon
<1>8. ASSUME NEW p \in Request \ {r}, requests[p] # None
      PROVE  /\ requests'[p] \in RequestRecord /\ SameWork(requests'[p], requests[p])
             /\ requests'[p].alone = IF requests[p].epoch = q.epoch THEN FALSE
                                     ELSE requests[p].alone
  <2>1. requests[p] \in RequestRecord
    BY <1>2, <1>8, Zenon
  <2>2. CASE p \in rivals
    BY <1>3, <1>6, <2>1, <2>2, Zenon
  <2>3. CASE p \notin rivals
    BY <1>6, <1>8, <2>1, <2>3, Zenon DEF SameWork
  <2>4. QED
    BY <2>2, <2>3, Zenon
<1>9. \A p \in Request \ {r} : requests[p] = None => requests'[p] = None
  BY <1>6, Zenon
<1>10. requests' \in [Request -> {None} \cup RequestRecord]
  <2>1. \A p \in Request : requests'[p] \in {None} \cup RequestRecord
    BY <1>7, <1>8, <1>9, Zenon
  <2>2. QED
    BY <1>1, <2>1, Zenon
<1>11. requests'[r] # None /\ \A p \in Request \ {r} : requests[p] # None => requests'[p] # None
  BY <1>7, <1>8, NoneApart, Zenon
<1>12. QED
  BY <1>7, <1>8, <1>9, <1>10, <1>11, Zenon DEF Entered

(* A request goes on to its next step.                                     *)
Advanced(r) ==
  /\ requests' \in [Request -> {None} \cup RequestRecord]
  /\ \A p \in Request \ {r} : requests'[p] = requests[p]
  /\ requests[r] # None /\ requests'[r] # None
  /\ LET q == requests[r]
         p == requests'[r]
     IN  /\ p.op = q.op /\ p.network = q.network /\ p.epoch = q.epoch
         /\ p.root = q.root /\ p.put = q.put /\ p.save = q.save /\ p.alone = q.alone
         /\ p.todo = Tail(q.todo)
         /\ ~Has(p.todo, "upload")
         /\ Head(q.todo) # "upload" => ~Has(q.todo, "upload")
         /\ \A step : Has(p.todo, step) <=> Has(q.todo, step) /\ step # Head(q.todo)

(* What Advance does to them.                                              *)
LEMMA AdvanceEffect ==
  ASSUME RequestTypes, NEW r \in Request, Active(r), Advance(r)
  PROVE  Advanced(r)
<1> DEFINE q == requests[r]
           p == [q EXCEPT !.todo = Tail(q.todo)]
<1>1. q \in RequestRecord /\ q.todo \in Todo /\ q.todo # <<>>
  BY DEF RequestTypes, Active, RequestRecord
<1>2. /\ Tail(q.todo) \in Todo
      /\ ~Has(Tail(q.todo), "upload")
      /\ Head(q.todo) # "upload" => ~Has(q.todo, "upload")
      /\ \A step : Has(Tail(q.todo), step) <=> Has(q.todo, step) /\ step # Head(q.todo)
  BY <1>1, TodoTail, Zenon
<1>3. /\ p \in RequestRecord /\ p.todo = Tail(q.todo)
      /\ p.op = q.op /\ p.network = q.network /\ p.epoch = q.epoch
      /\ p.root = q.root /\ p.put = q.put /\ p.save = q.save /\ p.alone = q.alone
  BY <1>1, <1>2, Zenon DEF RequestRecord
<1>4. requests' = [requests EXCEPT ![r] = p]
  BY Zenon DEF Advance
<1>5. requests'[r] = p /\ \A k \in Request \ {r} : requests'[k] = requests[k]
  BY <1>4, Zenon DEF RequestTypes
<1>6. requests' \in [Request -> {None} \cup RequestRecord]
  BY <1>3, <1>4, Zenon DEF RequestTypes
<1>7. p # None /\ q # None
  BY <1>1, <1>3, NoneApart, Zenon
<1>8. QED
  BY <1>2, <1>3, <1>5, <1>6, <1>7 DEF Advanced

(* A request is given up.                                                  *)
Aborted(r) ==
  /\ requests' \in [Request -> {None} \cup RequestRecord]
  /\ requests'[r] = None
  /\ \A p \in Request \ {r} : requests'[p] = requests[p]

(* What Abort does to them.                                                *)
LEMMA AbortEffect ==
  ASSUME RequestTypes, NEW r \in Request, Abort(r)
  PROVE  Aborted(r)
BY Zenon DEF RequestTypes, Abort, Aborted

(* The work of the others does not depend on a request that is given up.   *)
LEMMA AbortWork ==
  ASSUME WorkInv, NEW r \in Request, Abort(r), blocks \subseteq blocks', Stored \subseteq Stored',
         skipUpload' = skipUpload
  PROVE  WorkInv'
<1>1. RequestTypes
  BY Zenon DEF WorkInv
<1>2. Aborted(r)
  BY <1>1, AbortEffect, Zenon
<1>3. \A p \in Request : requests'[p] # None =>
         requests[p] # None /\ SameWork(requests'[p], requests[p])
  BY <1>2, Zenon DEF SameWork, Aborted
<1>4. requests' \in [Request -> {None} \cup RequestRecord]
  BY <1>2, Zenon DEF Aborted
<1>5. QED
  BY <1>1, <1>3, <1>4, WorkStep, Zenon DEF RequestTypes

(* A request that has done its head step is sound, if the blocks it put    *)
(* are stored now.                                                         *)
LEMMA AdvanceWork ==
  ASSUME WorkInv, NEW r \in Request, Active(r), Advance(r),
         blocks \subseteq blocks', Stored \subseteq Stored', skipUpload' = skipUpload,
         Head(requests[r].todo) = "upload" =>
           requests[r].put \subseteq Stored' /\ (~skipUpload => requests[r].put \subseteq blocks')
  PROVE  WorkInv'
<1> DEFINE q == requests[r]
           p == requests'[r]
<1>1. RequestTypes
  BY Zenon DEF WorkInv
<1>2. Advanced(r)
  BY <1>1, AdvanceEffect, Zenon
<1>3. /\ p.op = q.op /\ p.network = q.network /\ p.epoch = q.epoch
      /\ p.root = q.root /\ p.put = q.put /\ p.save = q.save
      /\ ~Has(p.todo, "upload")
      /\ Head(q.todo) # "upload" => ~Has(q.todo, "upload")
      /\ \A step : Has(p.todo, step) => Has(q.todo, step)
  BY <1>2, Zenon DEF Advanced
<1>4. RequestSound(q, blocks, Stored, skipUpload)
  BY <1>2, Zenon DEF WorkInv, RequestsSound, Advanced
<1>5. Provided(q, Stored) \subseteq Provided(p, Stored')
  BY <1>3, Zenon DEF Provided
<1>6. q.op = "backfill" => Closure(q.root) \subseteq blocks'
  <2>1. CASE Has(q.todo, "upload")
    BY <1>3, <1>4, <2>1, Zenon DEF RequestSound
  <2>2. CASE ~Has(q.todo, "upload")
    BY <1>4, <2>2, Zenon DEF RequestSound
  <2>3. QED
    BY <2>1, <2>2, Zenon
<1>7. RequestSound(p, blocks', Stored', skipUpload')
  <2>1. IF q.op = "push" THEN ~Has(p.todo, "saveEpoch") /\ ~Has(p.todo, "verify")
        ELSE q.root \in RootOf(q.network, q.epoch) /\ Closure(q.root) \subseteq Provided(p, Stored')
    BY <1>3, <1>4, <1>5, Zenon DEF RequestSound
  <2>2. \A m \in q.save : /\ {m, Data(m[2].commitment)} \subseteq Provided(p, Stored')
                          /\ m \in MetasOf(q.network, q.epoch)
    BY <1>4, <1>5, Zenon DEF RequestSound
  <2>3. Has(p.todo, "saveBlobs") => q.save # {}
    BY <1>3, <1>4, Zenon DEF RequestSound
  <2>4. q.op = "backfill" => /\ ~skipUpload'
                             /\ Links(q.root) = Fetched(q.network, q.epoch, FALSE)
    BY <1>4, Zenon DEF RequestSound
  <2>5. QED
    BY <1>3, <1>6, <2>1, <2>2, <2>3, <2>4, Zenon DEF RequestSound
<1>8. \A k \in Request : requests'[k] # None =>
          \/ requests[k] # None /\ SameWork(requests'[k], requests[k])
          \/ RequestSound(requests'[k], blocks', Stored', skipUpload')
  BY <1>2, <1>7, Zenon DEF SameWork, Advanced
<1>9. requests' \in [Request -> {None} \cup RequestRecord]
  BY <1>2, Zenon DEF Advanced
<1>10. QED
  BY <1>1, <1>8, <1>9, WorkStep, Zenon DEF RequestTypes

(* The start of a sound request.                                           *)
LEMMA StartWork ==
  ASSUME StoreInv, NEW r \in Request, NEW q \in RequestRecord, Start(r, q),
         RequestSound(q, blocks, Stored, skipUpload)
  PROVE  StoreInv'
<1>1. RequestTypes /\ WorkInv /\ DatabaseInv
  BY Zenon DEF StoreInv, WorkInv
<1>2. UNCHANGED <<database, node, skipUpload>> /\ blocks' = blocks /\ Stored' = Stored
  BY Zenon DEF Start, node, Stored
<1>3. Entered(r, q)
  BY <1>1, StartEffect, Zenon
<1>4. RequestSound(requests'[r], blocks', Stored', skipUpload')
  <2>1. SameWork(requests'[r], q)
    BY <1>3, Zenon DEF Entered
  <2>2. QED
    BY <1>2, <2>1, SameWorkSound
<1>5. \A p \in Request \ {r} : requests'[p] # None =>
         requests[p] # None /\ SameWork(requests'[p], requests[p])
  BY <1>3, Zenon DEF Entered
<1>6. \A p \in Request : requests'[p] # None =>
         \/ requests[p] # None /\ SameWork(requests'[p], requests[p])
         \/ RequestSound(requests'[p], blocks', Stored', skipUpload')
  BY <1>4, <1>5, Zenon
<1>7. WorkInv'
  BY <1>1, <1>2, <1>3, <1>6, WorkStep, Zenon DEF RequestTypes, Entered
<1>8. DatabaseInv'
  BY <1>1, <1>2, DatabaseKept, Zenon DEF node
<1>9. QED
  BY <1>7, <1>8, Zenon DEF StoreInv

-----------------------------------------------------------------------------
(* The lists of steps the requests start with.                             *)
LEMMA Plans ==
  /\ LET t == <<"upload", "saveEpoch", "root">>
     IN  /\ t \in Todo /\ Has(t, "upload") /\ Has(t, "saveEpoch")
         /\ ~Has(t, "saveBlobs")
  /\ LET t == <<"upload", "saveEpoch", "saveBlobs", "root">>
     IN  /\ t \in Todo /\ Has(t, "upload") /\ Has(t, "saveEpoch")
         /\ Has(t, "saveBlobs")
  /\ LET t == <<"upload", "verify", "saveEpoch", "root">>
     IN  /\ t \in Todo /\ Has(t, "upload") /\ Has(t, "saveEpoch")
         /\ ~Has(t, "saveBlobs")
  /\ \A rest \in {<<>>, <<"finalize">>} :
       LET t == <<"upload", "saveBlobs">> \o rest
       IN  /\ t \in Todo /\ Has(t, "upload") /\ ~Has(t, "saveEpoch") /\ ~Has(t, "verify")
<1>1. LET t == <<"upload", "saveEpoch", "root">>
      IN  /\ t \in Todo /\ Has(t, "upload") /\ Has(t, "saveEpoch")
          /\ ~Has(t, "saveBlobs")
  BY DEF Todo, Has, Step
<1>2. LET t == <<"upload", "saveEpoch", "saveBlobs", "root">>
      IN  /\ t \in Todo /\ Has(t, "upload") /\ Has(t, "saveEpoch")
          /\ Has(t, "saveBlobs")
  BY DEF Todo, Has, Step
<1>3. LET t == <<"upload", "verify", "saveEpoch", "root">>
      IN  /\ t \in Todo /\ Has(t, "upload") /\ Has(t, "saveEpoch")
          /\ ~Has(t, "saveBlobs")
  BY DEF Todo, Has, Step
<1>4. ASSUME NEW rest \in {<<>>, <<"finalize">>}
      PROVE  LET t == <<"upload", "saveBlobs">> \o rest
             IN  /\ t \in Todo /\ Has(t, "upload") /\ ~Has(t, "saveEpoch") /\ ~Has(t, "verify")
  <2>1. CASE rest = <<>>
    <3>1. <<"upload", "saveBlobs">> \o rest = <<"upload", "saveBlobs">>
      BY <2>1
    <3>2. LET t == <<"upload", "saveBlobs">>
          IN  t \in Todo /\ Has(t, "upload") /\ ~Has(t, "saveEpoch") /\ ~Has(t, "verify")
      BY DEF Todo, Has, Step
    <3>3. QED
      BY <3>1, <3>2, Zenon
  <2>2. CASE rest = <<"finalize">>
    <3> DEFINE t == <<"upload", "saveBlobs">> \o <<"finalize">>
    <3>1. /\ t \in Seq(Step) /\ Len(t) = 3
          /\ t[1] = "upload" /\ t[2] = "saveBlobs" /\ t[3] = "finalize"
      BY DEF Step
    <3> HIDE DEF t
    <3>2. \A i \in 1 .. Len(t) : i = 1 \/ i = 2 \/ i = 3
      BY <3>1
    <3>3. t \in Todo
      BY <3>1, <3>2, Zenon DEF Todo
    <3>4. Has(t, "upload") /\ ~Has(t, "saveEpoch") /\ ~Has(t, "verify")
      BY <3>1, <3>2 DEF Has
    <3>5. QED
      BY <2>2, <3>3, <3>4 DEF t
  <2>3. QED
    BY <2>1, <2>2, Zenon
<1>5. QED
  BY <1>1, <1>2, <1>3, <1>4, Zenon

(* The blocks under a root.                                                *)
LEMMA ClosureBlocks ==
  ASSUME NEW root \in Root
  PROVE  Built(root) \subseteq Block /\ Closure(root) \subseteq Block
<1>1. PICK n \in Network, e \in Epoch : root \in RootOf(n, e)
  BY DEF Root
<1>2. Links(root) \subseteq Metas
  BY <1>1, RootFacts, Zenon
<1>3. \A m \in Links(root) : Data(m[2].commitment) \in Block
  BY <1>2, MetasOfFacts DEF Metas, Block
<1>4. Built(root) \subseteq Block /\ Metas \subseteq Block
  BY DEF Block
<1>5. QED
  BY <1>2, <1>3, <1>4, Zenon DEF Closure

(* An epoch node of the rows: finalize, repair, and pulling an epoch that  *)
(* has rows.  The links are stored because the rows are.                   *)
RowsRequest(op, n, e, todo) ==
  LET root == EpochNode(n, e, Cached(n, e))
  IN  NewRequest(op, n, e, todo, root, Built(root), {})

(* A request built of the rows has its blocks stored or to be uploaded.    *)
LEMMA RowsRequestSound ==
  ASSUME StoreInv, NEW n \in Network, NEW e \in Epoch, NEW op \in Op \ {"push", "backfill"},
         NEW todo \in Todo, Has(todo, "upload"), ~Has(todo, "saveBlobs")
  PROVE  /\ RowsRequest(op, n, e, todo) \in RequestRecord
         /\ RequestSound(RowsRequest(op, n, e, todo), blocks, Stored, skipUpload)
<1> DEFINE root == EpochNode(n, e, Cached(n, e))
           q == RowsRequest(op, n, e, todo)
<1>1. RowTypes /\ RowsSourced /\ SavedResolves
  BY Zenon DEF StoreInv, DatabaseInv
<1>2. Cached(n, e) \subseteq Metas /\ IsFiniteSet(Cached(n, e))
  BY <1>1, CachedFacts, Zenon
<1>3. root \in RootOf(n, e) /\ root \in Root /\ Links(root) = Cached(n, e)
  BY <1>2, RootFromMetas, EpochNodeLinks, Zenon
<1>4. /\ q \in RequestRecord
      /\ q.op = op /\ q.network = n /\ q.epoch = e /\ q.todo = todo
      /\ q.root = root /\ q.put = Built(root) /\ q.save = {}
  <2>1. op \in Op /\ root \in {NoCID} \cup Root /\ Built(root) \in SUBSET Block
    BY <1>3, ClosureBlocks, Zenon
  <2>2. q = NewRequest(op, n, e, todo, root, Built(root), {}) /\ {} \in SUBSET Metas
    BY Zenon DEF RowsRequest
  <2> HIDE DEF q, root
  <2>3. QED
    BY <2>1, <2>2, NewRequestType
<1>5. \A m \in Cached(n, e) : m \in Stored /\ Data(m[2].commitment) \in Stored
  BY <1>1, CachedFacts DEF SavedResolves
<1>6. Closure(root) \subseteq Provided(q, Stored)
  BY <1>3, <1>4, <1>5 DEF Closure, Provided
<1>7. QED
  BY <1>3, <1>4, <1>6, Zenon DEF RequestSound

(* An epoch node of what was fetched: its blocks are all to be uploaded.   *)
FetchedRequest(op, n, e, el, todo) ==
  LET root == EpochNode(n, e, Fetched(n, e, el))
  IN  NewRequest(op, n, e, todo, root, Closure(root), Fetched(n, e, el))

(* A request built of what was fetched uploads all of it.                  *)
LEMMA FetchedRequestSound ==
  ASSUME NEW n \in Network, NEW e \in Epoch, NEW el \in BOOLEAN, NEW op \in Op \ {"push"},
         NEW todo \in Todo, Has(todo, "upload"),
         Has(todo, "saveBlobs") => Fetched(n, e, el) # {},
         op = "backfill" => ~skipUpload /\ el = FALSE
  PROVE  /\ FetchedRequest(op, n, e, el, todo) \in RequestRecord
         /\ RequestSound(FetchedRequest(op, n, e, el, todo), blocks, Stored, skipUpload)
<1> DEFINE metas == Fetched(n, e, el)
           root == EpochNode(n, e, metas)
           q == FetchedRequest(op, n, e, el, todo)
<1>1. metas \subseteq MetasOf(n, e) /\ metas \subseteq Metas /\ IsFiniteSet(metas)
  BY FetchedFacts, Zenon
<1>2. root \in RootOf(n, e) /\ root \in Root /\ Links(root) = metas
  BY <1>1, RootFromMetas, EpochNodeLinks
<1>3. /\ q \in RequestRecord
      /\ q.op = op /\ q.network = n /\ q.epoch = e /\ q.todo = todo
      /\ q.root = root /\ q.put = Closure(root) /\ q.save = metas
  <2>1. /\ op \in Op /\ root \in {NoCID} \cup Root
        /\ Closure(root) \in SUBSET Block /\ metas \in SUBSET Metas
    BY <1>1, <1>2, ClosureBlocks, Zenon
  <2>2. q = NewRequest(op, n, e, todo, root, Closure(root), metas)
    BY Zenon DEF FetchedRequest
  <2> HIDE DEF q, root, metas
  <2>3. QED
    BY <2>1, <2>2, NewRequestType
<1>4. Closure(root) \subseteq Provided(q, Stored)
  BY <1>3, Zenon DEF Provided
<1>5. \A m \in metas : {m, Data(m[2].commitment)} \subseteq Closure(root)
  BY <1>2, Zenon DEF Closure
<1>6. QED
  BY <1>1, <1>2, <1>3, <1>4, <1>5, Zenon DEF RequestSound

(* A pushed blob brings its own blocks.                                    *)
PushRequest(n, e, m, rest) ==
  NewRequest("push", n, e, <<"upload", "saveBlobs">> \o rest,
             NoCID, {m, Data(m[2].commitment)}, {m})

(* A push saves one blob whose blocks it uploads first.                    *)
LEMMA PushRequestSound ==
  ASSUME NEW n \in Network, NEW e \in Epoch, NEW m \in MetasOf(n, e),
         NEW rest \in {<<>>, <<"finalize">>}
  PROVE  /\ PushRequest(n, e, m, rest) \in RequestRecord
         /\ RequestSound(PushRequest(n, e, m, rest), blocks, Stored, skipUpload)
<1> DEFINE todo == <<"upload", "saveBlobs">> \o rest
           q == PushRequest(n, e, m, rest)
<1>1. todo \in Todo /\ Has(todo, "upload") /\ ~Has(todo, "saveEpoch") /\ ~Has(todo, "verify")
  BY Plans, Zenon
<1>2. m \in Metas /\ {m, Data(m[2].commitment)} \subseteq Block
  BY MetasOfFacts DEF Block
<1>3. /\ q \in RequestRecord
      /\ q.op = "push" /\ q.network = n /\ q.epoch = e /\ q.todo = todo
      /\ q.put = {m, Data(m[2].commitment)} /\ q.save = {m}
  <2> DEFINE put == {m, Data(m[2].commitment)}
             save == {m}
  <2>1. /\ "push" \in Op /\ NoCID \in {NoCID} \cup Root
        /\ put \in SUBSET Block /\ save \in SUBSET Metas /\ todo \in Todo
    BY <1>1, <1>2, Zenon DEF Op
  <2>2. q = NewRequest("push", n, e, todo, NoCID, put, save)
    BY Zenon DEF PushRequest
  <2> HIDE DEF put, save, todo, q
  <2>3. /\ q \in RequestRecord /\ q.op = "push" /\ q.network = n /\ q.epoch = e
        /\ q.todo = todo /\ q.put = put /\ q.save = save
    BY <2>1, <2>2, NewRequestType
  <2>4. QED
    BY <2>3, Zenon DEF put, save
<1>4. {m, Data(m[2].commitment)} \subseteq Provided(q, Stored)
  BY <1>1, <1>3, Zenon DEF Provided
<1>5. QED
  BY <1>1, <1>3, <1>4, Zenon DEF RequestSound

-----------------------------------------------------------------------------
(* The store invariant                                                     *)

(* Empty tables and no requests.                                           *)
LEMMA InitStore == Init => StoreInv
<1> SUFFICES ASSUME Init PROVE StoreInv
  BY Zenon
<1> USE DEF Init
<1>1. RowTypes /\ RequestTypes
  BY Zenon DEF RowTypes, RequestTypes
<1>2. RowsSourced /\ RowsCount /\ RequestsSound
  BY Zenon DEF RowsSourced, RowsCount, RequestsSound
<1>3. SavedResolves
  BY Zenon DEF SavedResolves
<1>4. QED
  BY <1>1, <1>2, <1>3, Zenon DEF StoreInv, DatabaseInv, WorkInv

(* The three ways a request starts: from the rows of its epoch, from what  *)
(* was fetched, and with one pushed blob.                                  *)
StartsFromRows(r, n, e) ==
  \E op \in Op \ {"push", "backfill"}, todo \in Todo :
    /\ Has(todo, "upload") /\ Has(todo, "saveEpoch") /\ ~Has(todo, "saveBlobs")
    /\ Cached(n, e) # {}
    /\ Start(r, RowsRequest(op, n, e, todo))

StartsFromChain(r, n, e) ==
  \E op \in {"process", "backfill"}, el \in BOOLEAN, todo \in Todo :
    /\ Has(todo, "upload") /\ Has(todo, "saveEpoch")
    /\ op = "process" => /\ Cached(n, e) = {}
                         /\ Has(todo, "saveBlobs") <=> Fetched(n, e, el) # {}
    /\ op = "backfill" => /\ ~skipUpload /\ el = FALSE
                          /\ Fetched(n, e, el) # {}
                          /\ Has(todo, "saveBlobs")
                               <=> \E m \in Fetched(n, e, el) : m \notin Cached(n, e)
    /\ Start(r, FetchedRequest(op, n, e, el, todo))

StartsPush(r, n, e) ==
  \E m \in MetasOf(n, e), rest \in {<<>>, <<"finalize">>} : Start(r, PushRequest(n, e, m, rest))

Starts(r, n, e) ==
  \/ StartProcess(r, n, e)
  \/ StartPush(r, n, e)
  \/ StartFinalize(r, n, e)
  \/ StartRepair(r, n, e)
  \/ StartBackfillIPFS(r, n, e)

(* Every operation starts its request in one of the three ways.            *)
LEMMA StartedRequest ==
  ASSUME NEW r \in Request, NEW n \in Network, NEW e \in Epoch, Starts(r, n, e)
  PROVE  StartsFromRows(r, n, e) \/ StartsFromChain(r, n, e) \/ StartsPush(r, n, e)
<1> DEFINE short == <<"upload", "saveEpoch", "root">>
           long == <<"upload", "saveEpoch", "saveBlobs", "root">>
           strict == <<"upload", "verify", "saveEpoch", "root">>
<1>0. /\ short \in Todo /\ Has(short, "upload") /\ Has(short, "saveEpoch")
      /\ ~Has(short, "saveBlobs")
      /\ long \in Todo /\ Has(long, "upload") /\ Has(long, "saveEpoch") /\ Has(long, "saveBlobs")
      /\ strict \in Todo /\ Has(strict, "upload") /\ Has(strict, "saveEpoch")
      /\ ~Has(strict, "saveBlobs")
  BY Plans, Zenon
<1> HIDE DEF short, long, strict
<1>1. CASE StartProcess(r, n, e)
  <2>1. CASE /\ Cached(n, e) # {}
             /\ Start(r, RowsRequest("process", n, e, short))
    <3>1. "process" \in Op \ {"push", "backfill"}
      BY Zenon DEF Op
    <3>2. StartsFromRows(r, n, e)
      BY <1>0, <2>1, <3>1, Zenon DEF StartsFromRows
    <3>3. QED
      BY <3>2, Zenon
  <2>2. ASSUME NEW el \in BOOLEAN, Cached(n, e) = {},
               Start(r, FetchedRequest("process", n, e, el,
                                       IF Fetched(n, e, el) = {} THEN short ELSE long))
        PROVE  StartsFromChain(r, n, e)
    <3>1. CASE Fetched(n, e, el) = {}
      BY <1>0, <2>2, <3>1, Zenon DEF StartsFromChain
    <3>2. CASE Fetched(n, e, el) # {}
      BY <1>0, <2>2, <3>2, Zenon DEF StartsFromChain
    <3>3. QED
      BY <3>1, <3>2, Zenon
  <2>3. \/ Cached(n, e) # {} /\ Start(r, RowsRequest("process", n, e, short))
        \/ /\ Cached(n, e) = {}
           /\ \E el \in EL : Start(r, FetchedRequest("process", n, e, el,
                                       IF Fetched(n, e, el) = {} THEN short ELSE long))
    BY <1>1, Zenon DEF StartProcess, buildEpoch, RowsRequest, FetchedRequest, short, long
  <2>4. EL \subseteq BOOLEAN
    BY EpochStoreAssumption, Zenon
  <2>5. QED
    BY <2>1, <2>2, <2>3, <2>4, Zenon
<1>2. CASE StartPush(r, n, e)
  <2>1. PICK b \in Pushed(n, e), el \in EL, rest \in {<<>>, <<"finalize">>} :
          Start(r, PushRequest(n, e, MetaOf(n, e, b, el), rest))
    BY <1>2, Zenon DEF StartPush, ProcessBlobInput, PushRequest
  <2>2. MetaOf(n, e, b, el) \in MetasOf(n, e)
    BY EpochStoreAssumption DEF MetasOf, Offered
  <2>3. StartsPush(r, n, e)
    BY <2>1, <2>2, Zenon DEF StartsPush
  <2>4. QED
    BY <2>3, Zenon
<1>3. CASE StartFinalize(r, n, e)
  <2>1. Cached(n, e) # {} /\ Start(r, RowsRequest("finalize", n, e, short))
    BY <1>3, Zenon DEF StartFinalize, Finalization, RowsRequest, short
  <2>2. "finalize" \in Op \ {"push", "backfill"}
    BY DEF Op
  <2>3. StartsFromRows(r, n, e)
    BY <1>0, <2>1, <2>2, Zenon DEF StartsFromRows
  <2>4. QED
    BY <2>3, Zenon
<1>4. CASE StartRepair(r, n, e)
  <2>1. /\ Cached(n, e) # {}
        /\ \/ Start(r, RowsRequest("repair", n, e, strict))
           \/ Start(r, RowsRequest("repairNoVerify", n, e, short))
    BY <1>4, Zenon DEF StartRepair, RepairEpochs, RowsRequest, short, strict
  <2>2. {"repair", "repairNoVerify"} \subseteq Op \ {"push", "backfill"}
    BY DEF Op
  <2>3. StartsFromRows(r, n, e)
    BY <1>0, <2>1, <2>2, Zenon DEF StartsFromRows
  <2>4. QED
    BY <2>3, Zenon
<1>5. CASE StartBackfillIPFS(r, n, e)
  <2> DEFINE mismatch == \E m \in Fetched(n, e, FALSE) : m \notin Cached(n, e)
  <2>1. /\ ~skipUpload /\ Fetched(n, e, FALSE) # {}
        /\ Start(r, FetchedRequest("backfill", n, e, FALSE, IF mismatch THEN long ELSE short))
    BY <1>5, Zenon DEF StartBackfillIPFS, BackfillIPFS, FetchedRequest, short, long
  <2>2. StartsFromChain(r, n, e)
    <3>1. CASE mismatch
      BY <1>0, <2>1, <3>1, Zenon DEF StartsFromChain
    <3>2. CASE ~mismatch
      BY <1>0, <2>1, <3>2, Zenon DEF StartsFromChain
    <3>3. QED
      BY <3>1, <3>2, Zenon
  <2>3. QED
    BY <2>2, Zenon
<1>6. QED
  BY <1>1, <1>2, <1>3, <1>4, <1>5, Zenon DEF Starts

(* Starting a request keeps the invariant.                                 *)
LEMMA StartsStore ==
  ASSUME StoreInv, NEW r \in Request, NEW n \in Network, NEW e \in Epoch, Starts(r, n, e)
  PROVE  StoreInv'
<1>1. CASE StartsFromRows(r, n, e)
  BY <1>1, RowsRequestSound, StartWork, Zenon DEF StartsFromRows
<1>2. CASE StartsFromChain(r, n, e)
  <2>1. PICK op \in {"process", "backfill"}, el \in BOOLEAN, todo \in Todo :
          /\ Has(todo, "upload")
          /\ Has(todo, "saveBlobs") => Fetched(n, e, el) # {}
          /\ op = "backfill" => ~skipUpload /\ el = FALSE
          /\ Start(r, FetchedRequest(op, n, e, el, todo))
    BY <1>2 DEF StartsFromChain
  <2>2. op \in Op \ {"push"}
    BY Zenon DEF Op
  <2>3. QED
    BY <2>1, <2>2, FetchedRequestSound, StartWork, Zenon
<1>3. CASE StartsPush(r, n, e)
  BY <1>3, PushRequestSound, StartWork, Zenon DEF StartsPush
<1>4. QED
  BY <1>1, <1>2, <1>3, StartedRequest, Zenon

(* A request at one of its steps; past the upload, what it saves is there. *)
LEMMA AtFacts ==
  ASSUME WorkInv, NEW r \in Request, NEW step, At(r, step)
  PROVE  /\ Active(r) /\ requests[r] \in RequestRecord
         /\ requests[r].network \in Network /\ requests[r].epoch \in Epoch
         /\ requests[r].todo \in Todo /\ requests[r].todo # <<>>
         /\ Has(requests[r].todo, step)
         /\ step # "upload" => /\ ~Has(requests[r].todo, "upload")
                               /\ Provided(requests[r], Stored) = Stored
         /\ RequestSound(requests[r], blocks, Stored, skipUpload)
<1> DEFINE q == requests[r]
<1>1. Active(r) /\ q # None /\ q.todo # <<>> /\ Head(q.todo) = step
  BY Zenon DEF At, Active
<1>2. q \in RequestRecord /\ q.network \in Network /\ q.epoch \in Epoch /\ q.todo \in Todo
  BY <1>1 DEF WorkInv, RequestTypes, RequestRecord
<1>3. RequestSound(q, blocks, Stored, skipUpload)
  BY <1>1, Zenon DEF WorkInv, RequestsSound
<1>4. step # "upload" => ~Has(q.todo, "upload")
  BY <1>1, <1>2, TodoTail, Zenon
<1>5. Has(q.todo, step)
  <2>1. q.todo \in Seq(Step)
    BY <1>2, Zenon DEF Todo
  <2>2. Len(q.todo) \in Nat /\ Len(q.todo) >= 1 /\ Head(q.todo) = q.todo[1]
    BY <1>1, <2>1
  <2>3. QED
    BY <1>1, <2>2 DEF Has
<1>6. QED
  BY <1>1, <1>2, <1>3, <1>4, <1>5, Zenon DEF Provided

(* An upload, whole or cut short, only adds blocks.                        *)
LEMMA UploadStore ==
  ASSUME StoreInv, NEW r \in Request, Upload(r) \/ UploadFails(r)
  PROVE  StoreInv'
<1> USE DEF StoreInv
<1>1. At(r, "upload") /\ Active(r)
  BY Zenon DEF Upload, UploadFails, At
<1>2. blocks \subseteq blocks' /\ discarded \subseteq discarded' /\ Stored \subseteq Stored'
  BY Zenon DEF Upload, UploadFails, Stored
<1>3. skipUpload' = skipUpload /\ UNCHANGED <<database, networkRoot>>
  BY Zenon DEF Upload, UploadFails
<1>4. DatabaseInv'
  BY <1>2, <1>3, DatabaseKept
<1>5. WorkInv'
  <2>1. CASE Upload(r)
    <3>1. /\ requests[r].put \subseteq Stored'
          /\ ~skipUpload => requests[r].put \subseteq blocks'
      BY <2>1, Zenon DEF Upload, Stored
    <3>2. QED
      BY <1>1, <1>2, <1>3, <2>1, <3>1, AdvanceWork, Zenon DEF Upload
  <2>2. CASE UploadFails(r) /\ Abort(r)
    BY <1>2, <1>3, <2>2, AbortWork
  <2>3. CASE UploadFails(r) /\ UNCHANGED requests
    <3>1. /\ requests' \in [Request -> {None} \cup RequestRecord]
          /\ skipUpload' \in BOOLEAN
      BY <1>3, <2>3, Zenon DEF WorkInv, RequestTypes
    <3>2. \A p \in Request : requests'[p] # None =>
             requests[p] # None /\ SameWork(requests'[p], requests[p])
      BY <2>3, Zenon DEF SameWork
    <3>3. QED
      BY <1>2, <1>3, <3>1, <3>2, WorkStep, Zenon
  <2>4. QED
    BY <2>1, <2>2, <2>3, Zenon DEF UploadFails
<1>6. QED
  BY <1>4, <1>5, Zenon

(* A verification changes no block and no row.                             *)
LEMMA VerifyStore ==
  ASSUME StoreInv, NEW r \in Request, Verify(r)
  PROVE  StoreInv'
<1> USE DEF StoreInv
<1>1. At(r, "verify") /\ Active(r) /\ Head(requests[r].todo) # "upload"
  BY Zenon DEF Verify, At
<1>2. blocks' = blocks /\ Stored' = Stored /\ skipUpload' = skipUpload
      /\ UNCHANGED <<database, networkRoot>>
  BY Zenon DEF Verify, node, Stored
<1>3. Advance(r) \/ Abort(r)
  BY Zenon DEF Verify
<1>4. WorkInv'
  BY <1>1, <1>2, <1>3, AdvanceWork, AbortWork, Zenon
<1>5. DatabaseInv'
  BY <1>2, DatabaseKept, Zenon
<1>6. QED
  BY <1>4, <1>5, Zenon

(* The two writes, answered, failed, or failed after the commit.           *)
LEMMA SaveStore ==
  ASSUME StoreInv, NEW r \in Request, SaveEpoch(r) \/ SaveBlobs(r) \/ SaveFails(r)
  PROVE  StoreInv'
<1> USE DEF StoreInv
<1> DEFINE q == requests[r]
           n == q.network
           e == q.epoch
<1>1. PICK step \in {"saveEpoch", "saveBlobs"} : At(r, step)
  BY Zenon DEF SaveEpoch, SaveBlobs, SaveFails
<1>2. /\ Active(r) /\ n \in Network /\ e \in Epoch /\ Has(q.todo, step)
      /\ Provided(q, Stored) = Stored /\ RequestSound(q, blocks, Stored, skipUpload)
  BY <1>1, AtFacts, Zenon
<1>3. Head(q.todo) # "upload"
  BY <1>1, Zenon DEF At
<1>4. UNCHANGED <<node, skipUpload>> /\ blocks' = blocks /\ Stored' = Stored
  BY Zenon DEF SaveEpoch, SaveBlobs, SaveFails, node, Stored
<1>5. Advance(r) \/ Abort(r)
  BY Zenon DEF SaveEpoch, SaveBlobs, SaveFails
<1>6. WorkInv'
  BY <1>2, <1>3, <1>4, <1>5, AdvanceWork, AbortWork, Zenon
<1>7. CASE At(r, "saveEpoch") /\ epochRows' = Saved(r) /\ UNCHANGED blobRows
  <2>1. Has(q.todo, "saveEpoch")
    BY <1>7, AtFacts, Zenon
  <2>2. q.root \in RootOf(n, e) /\ Closure(q.root) \subseteq Stored
    BY <1>2, <2>1, Zenon DEF RequestSound
  <2>3. QED
    BY <1>2, <1>4, <1>6, <1>7, <2>2, DatabaseSaveEpoch, Zenon DEF Saved
<1>8. CASE At(r, "saveBlobs") /\ SaveBlobRows(n, e, q.save)
  <2>1. /\ q.save \in SUBSET MetasOf(n, e)
        /\ \A m \in q.save : {m, Data(m[2].commitment)} \subseteq Stored
    BY <1>2, Zenon DEF RequestSound
  <2>2. QED
    BY <1>2, <1>4, <1>6, <1>8, <2>1, DatabaseSaveBlobs, Zenon
<1>9. CASE UNCHANGED database
  BY <1>4, <1>6, <1>9, DatabaseKept, Zenon DEF node
<1>10. QED
  BY <1>7, <1>8, <1>9, Zenon DEF SaveEpoch, SaveBlobs, SaveFails, database

(* A push that goes on as a finalization.                                  *)
Finalizing(r) ==
  LET q == requests[r]
      p == requests'[r]
      todo == <<"upload", "saveEpoch", "root">>
  IN  /\ requests' \in [Request -> {None} \cup RequestRecord]
      /\ \A k \in Request \ {r} : requests'[k] = requests[k]
      /\ p # None /\ Cached(q.network, q.epoch) # {}
      /\ SameWork(p, RowsRequest("finalize", q.network, q.epoch, todo))
      /\ p.alone = q.alone

(* The push goes on as a finalization, or is given up without rows.        *)
LEMMA FinalizeEffect ==
  ASSUME StoreInv, NEW r \in Request, Finalize(r)
  PROVE  Finalizing(r) \/ Abort(r)
<1> DEFINE q == requests[r]
           todo == <<"upload", "saveEpoch", "root">>
           new == RowsRequest("finalize", q.network, q.epoch, todo)
           p == [new EXCEPT !.alone = q.alone]
<1>1. At(r, "finalize")
  BY Zenon DEF Finalize
<1>2. q \in RequestRecord /\ q.network \in Network /\ q.epoch \in Epoch
  BY <1>1, AtFacts, Zenon DEF StoreInv
<1>3. q.alone \in BOOLEAN
  BY <1>2, Zenon DEF RequestRecord
<1>4. new \in RequestRecord
  <2>1. todo \in Todo /\ Has(todo, "upload") /\ ~Has(todo, "saveBlobs")
    BY Plans, Zenon
  <2>2. "finalize" \in Op \ {"push", "backfill"}
    BY Zenon DEF Op
  <2> HIDE DEF todo
  <2>3. QED
    BY <1>2, <2>1, <2>2, RowsRequestSound, Zenon
<1>5. p \in RequestRecord /\ SameWork(p, new) /\ p.alone = q.alone /\ p # None
  <2> HIDE DEF new
  <2>1. p \in RequestRecord /\ p.alone = q.alone
    BY <1>3, <1>4, Zenon DEF RequestRecord
  <2>2. SameWork(p, new)
    BY <1>3, <1>4 DEF RequestRecord, SameWork
  <2>3. QED
    BY <2>1, <2>2, NoneApart, Zenon
<1>6. CASE Cached(q.network, q.epoch) # {}
  <2>1. requests' = [requests EXCEPT ![r] = p]
    BY <1>6, Zenon DEF Finalize, Finalization, RowsRequest
  <2> HIDE DEF p
  <2>2. requests'[r] = p /\ \A k \in Request \ {r} : requests'[k] = requests[k]
    BY <2>1, Zenon DEF StoreInv, WorkInv, RequestTypes
  <2>3. requests' \in [Request -> {None} \cup RequestRecord]
    BY <1>5, <2>1, Zenon DEF StoreInv, WorkInv, RequestTypes
  <2>4. QED
    BY <1>5, <1>6, <2>2, <2>3, Zenon DEF Finalizing
<1>7. QED
  BY <1>6, Zenon DEF Finalize

(* The finalization is built of rows, whose blocks are stored.             *)
LEMMA FinalizeStore ==
  ASSUME StoreInv, NEW r \in Request, Finalize(r)
  PROVE  StoreInv'
<1> DEFINE q == requests[r]
           todo == <<"upload", "saveEpoch", "root">>
<1> USE DEF StoreInv
<1>1. blocks' = blocks /\ Stored' = Stored /\ skipUpload' = skipUpload
      /\ UNCHANGED <<database, networkRoot>>
  BY Zenon DEF Finalize, node, Stored
<1>2. DatabaseInv'
  BY <1>1, DatabaseKept
<1>3. CASE Finalizing(r)
  <2>1. At(r, "finalize")
    BY Zenon DEF Finalize
  <2>2. q.network \in Network /\ q.epoch \in Epoch
    BY <2>1, AtFacts, Zenon
  <2>3. todo \in Todo /\ Has(todo, "upload") /\ ~Has(todo, "saveBlobs")
        /\ "finalize" \in Op \ {"push", "backfill"}
    BY Plans, Zenon DEF Op
  <2>4. RequestSound(RowsRequest("finalize", q.network, q.epoch, todo), blocks, Stored, skipUpload)
    <3> HIDE DEF todo
    <3>1. QED
      BY <2>2, <2>3, RowsRequestSound, Zenon
  <2>5. RequestSound(requests'[r], blocks', Stored', skipUpload')
    BY <1>1, <1>3, <2>4, SameWorkSound DEF Finalizing
  <2>6. \A k \in Request : requests'[k] # None =>
            \/ requests[k] # None /\ SameWork(requests'[k], requests[k])
            \/ RequestSound(requests'[k], blocks', Stored', skipUpload')
    BY <1>3, <2>5, Zenon DEF SameWork, Finalizing
  <2>7. requests' \in [Request -> {None} \cup RequestRecord] /\ skipUpload' \in BOOLEAN
    BY <1>1, <1>3, Zenon DEF Finalizing, WorkInv, RequestTypes
  <2>8. QED
    BY <1>1, <1>2, <2>6, <2>7, WorkStep, Zenon
<1>4. CASE Abort(r)
  BY <1>1, <1>2, <1>4, AbortWork, Zenon
<1>5. QED
  BY <1>3, <1>4, FinalizeEffect, Zenon

(* A NetworkRoot links to the CIDs of rows, which resolve.                 *)
LEMMA RebuildNetworkRootStore ==
  ASSUME StoreInv, NEW r \in Request, RebuildNetworkRoot(r)
  PROVE  StoreInv'
<1> DEFINE n == requests[r].network
<1> USE DEF StoreInv
<1>1. At(r, "root") /\ Active(r) /\ Advance(r) /\ Head(requests[r].todo) # "upload"
  BY Zenon DEF RebuildNetworkRoot, At
<1>2. blocks' = blocks /\ Stored' = Stored /\ skipUpload' = skipUpload /\ UNCHANGED database
  BY Zenon DEF RebuildNetworkRoot, Stored
<1>3. WorkInv'
  BY <1>1, <1>2, AdvanceWork, Zenon
<1>4. CASE UNCHANGED networkRoot
  BY <1>2, <1>3, <1>4, DatabaseKept, Zenon
<1>5. CASE /\ \A e \in GetAllEpochs(n) : epochRows[e].cid # NoCID
           /\ networkRoot' = [networkRoot EXCEPT ![n] =
                                 {<<e, epochRows[e].cid>> : e \in GetAllEpochs(n)}]
  <2> DEFINE links == {<<e, epochRows[e].cid>> : e \in GetAllEpochs(n)}
  <2>1. \A e \in GetAllEpochs(n) :
           /\ e \in Epoch /\ epochRows[e].cid \in Root
           /\ epochRows[e].cid # NoCID /\ Closure(epochRows[e].cid) \subseteq Stored
    BY <1>5, Zenon DEF GetAllEpochs, DatabaseInv, RowTypes, SavedResolves, EpochRow
  <2>2. links \in SUBSET (Epoch \X Root)
    BY <2>1
  <2>3. \A l \in links : l[2] # NoCID /\ Closure(l[2]) \subseteq Stored
    BY <2>1
  <2>4. RowTypes'
    BY <1>2, <1>5, <2>2, Zenon DEF DatabaseInv, RowTypes, database
  <2>5. \A k \in Network : networkRoot'[k] = links \/ networkRoot'[k] = networkRoot[k]
    BY <1>5, Zenon DEF DatabaseInv, RowTypes
  <2>6. SavedResolves'
    BY <1>2, <2>3, <2>5 DEF DatabaseInv, SavedResolves, database
  <2>7. RowsSourced' /\ RowsCount'
    BY <1>2, Zenon DEF DatabaseInv, RowsSourced, RowsCount, database
  <2>8. QED
    BY <1>3, <2>4, <2>6, <2>7, Zenon DEF DatabaseInv
<1>6. QED
  BY <1>4, <1>5, Zenon DEF RebuildNetworkRoot

(* A crash gives up a request; a restart with uploads has none at work.    *)
LEMMA EnvironmentStore ==
  ASSUME StoreInv, (\E r \in Request : Crash(r)) \/ EnableUpload
  PROVE  StoreInv'
<1> USE DEF StoreInv
<1>1. blocks' = blocks /\ Stored' = Stored /\ UNCHANGED <<database, networkRoot>>
  BY Zenon DEF Crash, EnableUpload, node, Stored
<1>2. DatabaseInv'
  BY <1>1, DatabaseKept
<1>3. ASSUME NEW r \in Request, Crash(r) PROVE WorkInv'
  BY <1>1, <1>3, AbortWork, Zenon DEF Crash
<1>4. CASE EnableUpload
  <2>1. /\ requests' \in [Request -> {None} \cup RequestRecord]
        /\ skipUpload' \in BOOLEAN /\ (~skipUpload => ~skipUpload')
    BY <1>4, Zenon DEF EnableUpload, WorkInv, RequestTypes
  <2>2. \A p \in Request : requests'[p] # None =>
           requests[p] # None /\ SameWork(requests'[p], requests[p])
    BY <1>4, Zenon DEF EnableUpload, SameWork
  <2>3. QED
    BY <1>1, <1>2, <2>1, <2>2, WorkStep, Zenon
<1>5. QED
  BY <1>2, <1>3, <1>4, Zenon

(* Every step keeps the invariant.                                         *)
LEMMA NextStore == StoreInv /\ [Next]_vars => StoreInv'
<1> SUFFICES ASSUME StoreInv, [Next]_vars PROVE StoreInv'
  OBVIOUS
<1>1. CASE UNCHANGED vars
  <2>1. UNCHANGED <<database, networkRoot, blocks, discarded, skipUpload, requests>>
    BY <1>1, Zenon DEF vars, database
  <2>2. DatabaseInv'
    BY <2>1, DatabaseKept, Zenon DEF StoreInv, Stored
  <2>3. WorkInv'
    BY <2>1, Zenon DEF StoreInv, WorkInv, RequestTypes, RequestsSound, Stored
  <2>4. QED
    BY <2>2, <2>3 DEF StoreInv
<1>2. ASSUME NEW r \in Request, NEW n \in Network, NEW e \in Epoch, Starts(r, n, e)
      PROVE  StoreInv'
  BY <1>2, StartsStore, Zenon
<1>3. ASSUME NEW r \in Request,
             \/ Upload(r) \/ UploadFails(r) \/ Verify(r)
             \/ SaveEpoch(r) \/ SaveBlobs(r) \/ SaveFails(r)
             \/ Finalize(r) \/ RebuildNetworkRoot(r)
             \/ Crash(r)
      PROVE  StoreInv'
  BY <1>3, UploadStore, VerifyStore, SaveStore, FinalizeStore, RebuildNetworkRootStore,
     EnvironmentStore, Zenon
<1>4. CASE EnableUpload
  BY <1>4, EnvironmentStore
<1>5. QED
  BY <1>1, <1>2, <1>3, <1>4, Zenon DEF Next, Starts

(* For every set of networks, chain and number of requests and faults: the *)
(* rows, the blocks and the requests at work stay in step, whoever writes  *)
(* what SaveEpoch, SaveBlobs, PutBlockstore and rebuildNetworkRoot write.  *)
THEOREM StoreInvariant == Spec => []StoreInv
BY InitStore, NextStore, PTL DEF Spec

(* SavedResolves for all networks sharing the database, all chains, any    *)
(* number of concurrent requests, failed uploads, half-answered writes and *)
(* crashes: SaveEpoch, SaveBlobs and rebuildNetworkRoot never record a CID *)
(* whose blocks were not uploaded before (or passed over by a process that *)
(* skips uploads).                                                         *)
THEOREM StoreSavedResolves == Spec => []SavedResolves
<1>1. StoreInv => SavedResolves
  BY DEF StoreInv, DatabaseInv
<1>2. QED
  BY <1>1, StoreInvariant, PTL

(* An epoch whose count and root health-check passes: what its rows name   *)
(* is what its root links to.                                              *)
LEMMA SoundEpochExported ==
  ASSUME StoreInv, NEW n \in Network, NEW e \in GetAllEpochs(n) \ CountMismatches(n),
         ~RootBad(n, e), epochRows[e].cid # NoCID
  PROVE  Closure(epochRows[e].cid) \subseteq Exported(n, e) \cup Shards(epochRows[e].cid)
<1> DEFINE root == epochRows[e].cid
<1>1. e \in Epoch /\ epochRows[e] # None /\ epochRows[e] \in EpochRow /\ root \in Root
  BY Zenon DEF GetAllEpochs, StoreInv, DatabaseInv, RowTypes, EpochRow
<1>2. /\ epochRows[e].blobCount = Cardinality(GetBlobsByEpoch(n, e))
      /\ GetBlobsByEpoch(n, e) # {} => root = EpochNode(n, e, Cached(n, e))
  BY Zenon DEF CountMismatches, RootBad
<1>3. epochRows[e].blobCount = Cardinality(Links(root)) /\ IsFiniteSet(Links(root))
  BY <1>1, RootFacts DEF StoreInv, DatabaseInv, RowsCount, Root
<1>4. Links(root) = Cached(n, e)
  <2>1. CASE GetBlobsByEpoch(n, e) # {}
    BY <1>2, <2>1, EpochNodeLinks
  <2>2. CASE GetBlobsByEpoch(n, e) = {}
    <3>1. Cardinality(Links(root)) = 0
      BY <1>2, <1>3, <2>2, FS_EmptySet, Zenon
    <3>2. Links(root) = {}
      BY <1>3, <3>1, FS_EmptySet, Zenon
    <3>3. QED
      BY <2>2, <3>2, Zenon DEF Cached
  <2>3. QED
    BY <2>1, <2>2, Zenon
<1>5. \A m \in Cached(n, e) : Data(m[2].commitment) \in {Data(c) : c \in GetBlobsByEpoch(n, e)}
  BY DEF Cached, GetBlobsByEpoch, StoreInv, DatabaseInv, RowsSourced, Sourced
<1>6. QED
  BY <1>4, <1>5, Zenon DEF Closure, Built, Exported

(* ExportComplete for all constants: the CAR that export-car-range writes  *)
(* from the rows of epochs whose count and root pass health-check holds    *)
(* all blocks under its root but the shards, whichever requests of         *)
(* whichever networks wrote those rows and whatever was pushed.            *)
THEOREM StoreExportComplete == Spec => []ExportComplete
<1>1. StoreInv => ExportComplete
  <2> SUFFICES ASSUME StoreInv, NEW n \in Network, NEW from \in Epoch, NEW to \in Epoch,
                      InRange(n, from, to)
                        \subseteq {e \in GetAllEpochs(n) \ CountMismatches(n) :
                                      ~RootBad(n, e) /\ epochRows[e].cid # NoCID},
                      NEW link \in RangeNode(n, InRange(n, from, to))[3]
               PROVE  Closure(link[2])
                        \subseteq ExportedRange(n, from, to) \cup Shards(link[2])
    BY DEF ExportComplete
  <2>1. PICK e \in InRange(n, from, to) : link = <<e, epochRows[e].cid>>
    BY Zenon DEF RangeNode
  <2>2. Closure(link[2]) \subseteq Exported(n, e) \cup Shards(link[2])
    BY <2>1, SoundEpochExported, Zenon
  <2>3. Exported(n, e) \subseteq ExportedRange(n, from, to)
    BY Zenon DEF ExportedRange
  <2>4. QED
    BY <2>2, <2>3, Zenon
<1>2. QED
  BY <1>1, StoreInvariant, PTL

(* What backfill-ipfs has finished is on the node, block by block, however *)
(* many of its uploads failed and whatever ran beside it.                  *)
BackfillOnNode ==
  \A r \in Request : Finished(r) /\ requests[r].op = "backfill" => VerifyLocal(requests[r].root)

(* BackfillOnNode for all constants: BackfillIPFS uploads again until it   *)
(* has uploaded everything, and only a process that uploads runs it.       *)
THEOREM StoreBackfillOnNode == Spec => []BackfillOnNode
<1>1. StoreInv => BackfillOnNode
  <2> SUFFICES ASSUME StoreInv, NEW r \in Request, Finished(r), requests[r].op = "backfill"
               PROVE  Closure(requests[r].root) \subseteq blocks
    BY Zenon DEF BackfillOnNode, VerifyLocal
  <2>1. requests[r] # None /\ requests[r].todo = <<>>
    BY Zenon DEF Finished
  <2>2. RequestSound(requests[r], blocks, Stored, skipUpload)
    BY <2>1, Zenon DEF StoreInv, WorkInv, RequestsSound
  <2>3. ~Has(requests[r].todo, "upload")
    BY <2>1 DEF Has
  <2>4. QED
    BY <2>2, <2>3, Zenon DEF RequestSound
<1>2. QED
  BY <1>1, StoreInvariant, PTL

-----------------------------------------------------------------------------
(* One network, no blob twice                                              *)

(* A row is of the only epoch that the blob is offered in.                 *)
LEMMA RowOfBlob ==
  ASSUME Separate, DatabaseInv, NEW n \in Network, NEW e \in Epoch, NEW m \in MetasOf(n, e),
         NEW c \in Commitment, c = m[2].commitment, blobRows[c] # None
  PROVE  blobRows[c].network = n /\ blobRows[c].epoch = e
<1> DEFINE row == blobRows[c]
<1>1. row \in BlobRow /\ Sourced(c, row)
  BY Zenon DEF DatabaseInv, RowTypes, RowsSourced
<1>2. row.network \in Network /\ row.epoch \in Epoch
  BY <1>1, Zenon DEF BlobRow
<1>3. row.network = n
  BY <1>2, Zenon DEF Separate, OneDatabaseEach
<1>4. PICK b \in Offered(n, row.epoch) : b.commitment = c
  BY <1>1, <1>3, Zenon DEF Sourced
<1>5. PICK d \in Offered(n, e) : d.commitment = c
  BY MetasOfFacts
<1>6. row.epoch = e
  BY <1>2, <1>4, <1>5 DEF Separate, NoBlobTwice
<1>7. QED
  BY <1>3, <1>6, Zenon

(* The rows of an epoch are about the blobs of that epoch.                 *)
LEMMA CachedOfEpoch ==
  ASSUME Separate, DatabaseInv, NEW n \in Network, NEW e \in Epoch
  PROVE  /\ Cached(n, e) \subseteq MetasOf(n, e)
         /\ \A m, k \in Cached(n, e) : m[2].commitment = k[2].commitment => m = k
<1>1. RowTypes /\ RowsSourced
  BY DEF DatabaseInv
<1>2. ASSUME NEW c \in GetBlobsByEpoch(n, e)
      PROVE  /\ c \in Commitment /\ blobRows[c] # None /\ blobRows[c].meta[2].commitment = c
             /\ blobRows[c].meta \in Metas /\ blobRows[c].epoch = e
  BY <1>1, Zenon DEF GetBlobsByEpoch, RowTypes, BlobRow, RowsSourced, Sourced
<1>3. ASSUME NEW c \in GetBlobsByEpoch(n, e)
      PROVE  blobRows[c].meta \in MetasOf(n, e)
  <2>1. PICK k \in Network, f \in Epoch : blobRows[c].meta \in MetasOf(k, f)
    BY <1>2 DEF Metas
  <2>2. k = n
    BY Zenon DEF Separate, OneDatabaseEach
  <2>3. f = e
    BY <1>2, <2>1, RowOfBlob
  <2>4. QED
    BY <2>1, <2>2, <2>3, Zenon
<1>4. QED
  BY <1>2, <1>3 DEF Cached

(* Two pieces of metadata of one epoch, from the same answer of the        *)
(* execution node, that name the same commitment are the same.             *)
LEMMA FetchedDistinct ==
  ASSUME Separate, NEW n \in Network, NEW e \in Epoch, NEW el \in BOOLEAN,
         NEW m \in Fetched(n, e, el), NEW k \in Fetched(n, e, el),
         m[2].commitment = k[2].commitment
  PROVE  m = k
<1>1. PICK b \in OnChain(n, e) : m = MetaOf(n, e, b, el) /\ m[2].commitment = b.commitment
  BY FetchedMeta
<1>2. PICK c \in OnChain(n, e) : k = MetaOf(n, e, c, el) /\ k[2].commitment = c.commitment
  BY FetchedMeta
<1>3. b = c
  BY <1>1, <1>2, Zenon DEF Separate, NoBlobTwice
<1>4. QED
  BY <1>1, <1>2, <1>3, Zenon

(* Every blob that the epoch has on the chain has its metadata among what  *)
(* was fetched.                                                            *)
LEMMA FetchedAll ==
  ASSUME NEW n, NEW e, NEW el, NEW b \in OnChain(n, e)
  PROVE  \E k \in Fetched(n, e, el) : k[2].commitment = b.commitment
<1>1. MetaOf(n, e, b, el) \in Fetched(n, e, el)
  BY Zenon DEF Fetched
<1>2. QED
  BY <1>1, MetaFields DEF MetaOf

(* Rows that hold all that was fetched hold nothing else that is on the    *)
(* chain.                                                                  *)
LEMMA CachedIsFetched ==
  ASSUME Separate, DatabaseInv, NEW n \in Network, NEW e \in Epoch, NEW el \in BOOLEAN,
         Fetched(n, e, el) \subseteq Cached(n, e)
  PROVE  Genuine(n, e, Cached(n, e)) = Fetched(n, e, el)
<1>1. ASSUME NEW m \in Genuine(n, e, Cached(n, e)) PROVE m \in Fetched(n, e, el)
  <2>1. m \in Cached(n, e) /\ \E k \in Fetched(n, e, el) : k[2].commitment = m[2].commitment
    BY FetchedAll DEF Genuine
  <2>2. QED
    BY <2>1, CachedOfEpoch, Zenon
<1>2. ASSUME NEW m \in Fetched(n, e, el) PROVE m \in Genuine(n, e, Cached(n, e))
  BY FetchedMeta DEF Genuine
<1>3. QED
  BY <1>1, <1>2, Zenon

(* Saving blobs touches the rows of their epoch alone, removes none, and   *)
(* leaves the rows of what was fetched if that is what was saved, beside   *)
(* rows that were pushed and are not on the chain.                         *)
LEMMA SaveBlobsSeparate ==
  ASSUME Separate, DatabaseInv, NEW n \in Network, NEW e \in Epoch,
         NEW metas \in SUBSET MetasOf(n, e), SaveBlobRows(n, e, metas)
  PROVE  /\ \A f \in Epoch \ {e} : Cached(n, f)' = Cached(n, f)
         /\ \A f \in Epoch : GetBlobsByEpoch(n, f) \subseteq GetBlobsByEpoch(n, f)'
         /\ metas # {} => GetBlobsByEpoch(n, e)' # {}
         /\ \A el \in BOOLEAN : metas = Fetched(n, e, el)
              => /\ Genuine(n, e, Cached(n, e)') = metas
                 /\ Cached(n, e) = {} => Cached(n, e)' = metas
<1> DEFINE Touched(c) == \E m \in metas : m[2].commitment = c
<1>1. RowTypes
  BY Zenon DEF DatabaseInv
<1>2. /\ blobRows \in [Commitment -> {None} \cup BlobRow]
      /\ blobRows' \in [Commitment -> {None} \cup BlobRow]
      /\ \A c \in Commitment : ~Touched(c) => blobRows'[c] = blobRows[c]
  BY <1>1, SaveBlobRowsEffect DEF RowTypes
<1>3. ASSUME NEW c \in Commitment, Touched(c)
      PROVE  /\ blobRows'[c] # None /\ blobRows'[c].network = n /\ blobRows'[c].epoch = e
             /\ \E m \in metas : m[2].commitment = c /\ blobRows'[c].meta = m
             /\ blobRows[c] # None => blobRows[c].network = n /\ blobRows[c].epoch = e
  <2>1. PICK m \in metas : m[2].commitment = c /\ blobRows'[c] = UpsertRow(n, e, m, blobRows[c])
    BY <1>1, <1>3, SaveBlobRowsEffect
  <2>2. blobRows[c] # None => blobRows[c].network = n /\ blobRows[c].epoch = e
    BY <2>1, RowOfBlob
  <2>3. blobRows'[c] # None
    BY <1>2, <2>1, NoneApart DEF UpsertRow, None, BlobRow
  <2>4. QED
    BY <1>2, <2>1, <2>2, <2>3, UpsertRowFields
<1>4. \A m \in metas : m[2].commitment \in Commitment
  BY MetasOfFacts, Zenon
<1>5. ASSUME NEW f \in Epoch \ {e}
      PROVE  /\ GetBlobsByEpoch(n, f)' = GetBlobsByEpoch(n, f)
             /\ \A c \in GetBlobsByEpoch(n, f) : blobRows'[c] = blobRows[c]
  BY <1>2, <1>3 DEF GetBlobsByEpoch
<1>6. ASSUME NEW f \in Epoch \ {e} PROVE Cached(n, f)' = Cached(n, f)
  BY <1>5 DEF Cached
<1>7. GetBlobsByEpoch(n, e) \subseteq GetBlobsByEpoch(n, e)'
  BY <1>2, <1>3, Zenon DEF GetBlobsByEpoch
<1>8. \A m \in metas : m[2].commitment \in GetBlobsByEpoch(n, e)'
  BY <1>3, <1>4, Zenon DEF GetBlobsByEpoch
<1>9. ASSUME NEW el \in BOOLEAN, metas = Fetched(n, e, el)
      PROVE  /\ Genuine(n, e, Cached(n, e)') = metas
             /\ Cached(n, e) = {} => Cached(n, e)' = metas
  <2>1. ASSUME NEW m \in metas PROVE m \in Cached(n, e)'
    <3>1. PICK k \in metas : k[2].commitment = m[2].commitment
                             /\ blobRows'[m[2].commitment].meta = k
      BY <1>3, <1>4, Zenon
    <3>2. k = m
      BY <1>9, <3>1, FetchedDistinct, Zenon
    <3>3. QED
      BY <1>8, <3>1, <3>2, Zenon DEF Cached
  <2>2. ASSUME NEW c \in GetBlobsByEpoch(n, e)'
        PROVE  /\ c \in Commitment /\ blobRows'[c].meta[2].commitment = c
               /\ Touched(c) => blobRows'[c].meta \in metas
               /\ ~Touched(c) => c \in GetBlobsByEpoch(n, e)
    <3>1. c \in Commitment
      BY Zenon DEF GetBlobsByEpoch
    <3>2. CASE Touched(c)
      BY <1>3, <3>1, <3>2, Zenon
    <3>3. CASE ~Touched(c)
      <4>1. c \in GetBlobsByEpoch(n, e) /\ blobRows'[c] = blobRows[c]
        BY <1>2, <3>1, <3>3, Zenon DEF GetBlobsByEpoch
      <4>2. blobRows[c].meta[2].commitment = c
        BY <3>1, <4>1, Zenon DEF GetBlobsByEpoch, DatabaseInv, RowsSourced, Sourced
      <4>3. QED
        BY <3>1, <3>3, <4>1, <4>2, Zenon
    <3>4. QED
      BY <3>2, <3>3, Zenon
  <2>3. ASSUME NEW m \in Genuine(n, e, Cached(n, e)') PROVE m \in metas
    <3>1. PICK c \in GetBlobsByEpoch(n, e)' : m = blobRows'[c].meta
      BY Zenon DEF Genuine, Cached
    <3>2. PICK b \in OnChain(n, e) : b.commitment = m[2].commitment
      BY Zenon DEF Genuine
    <3>3. Touched(c)
      BY <1>9, <2>2, <3>1, <3>2, FetchedAll
    <3>4. QED
      BY <2>2, <3>1, <3>3, Zenon
  <2>4. ASSUME NEW m \in metas PROVE m \in Genuine(n, e, Cached(n, e)')
    BY <1>9, <2>1, FetchedMeta DEF Genuine
  <2>5. ASSUME Cached(n, e) = {}, NEW m \in Cached(n, e)' PROVE m \in metas
    <3>1. GetBlobsByEpoch(n, e) = {}
      BY <2>5, Zenon DEF Cached
    <3>2. PICK c \in GetBlobsByEpoch(n, e)' : m = blobRows'[c].meta
      BY <2>5, Zenon DEF Cached
    <3>3. QED
      BY <2>2, <3>1, <3>2, Zenon
  <2>6. QED
    BY <2>1, <2>3, <2>4, <2>5, Zenon
<1>10. QED
  BY <1>5, <1>6, <1>7, <1>8, <1>9, Zenon

(* A step of a request disturbs the others only through the rows of its    *)
(* own epoch, where nobody else that is alone is at work.                  *)
LEMMA StepSeparate ==
  ASSUME SeparateInv, WorkInv, EmptyRows', NEW r \in Request, Active(r),
         \A k \in Request \ {r} : requests'[k] = requests[k],
         \A f \in Epoch \ {requests[r].epoch} : epochRows'[f] = epochRows[f],
         \A n \in Network, f \in Epoch \ {requests[r].epoch} : Cached(n, f)' = Cached(n, f),
         requests'[r] # None => /\ requests'[r].epoch = requests[r].epoch
                                /\ requests'[r].alone = requests[r].alone
                                /\ EmptyRequest(requests'[r]),
         AloneRequest(r)'
  PROVE  SeparateInv'
<1>1. EmptyRequests'
  BY Zenon DEF SeparateInv, EmptyRequests
<1>2. Exclusive'
  BY DEF SeparateInv, Exclusive, Active
<1>3. ASSUME NEW k \in Request \ {r} PROVE AloneRequest(k)'
  <2> DEFINE q == requests[k]
  <2>1. SUFFICES ASSUME q # None, q.op # "push", q.alone
                 PROVE  Alone(q, epochRows'[q.epoch], Cached(q.network, q.epoch)')
    BY Zenon DEF AloneRequest
  <2>2. q.network \in Network /\ q.epoch \in Epoch
    BY <2>1, Zenon DEF WorkInv, RequestTypes, RequestRecord
  <2>3. q.epoch # requests[r].epoch
    BY <2>1, Zenon DEF SeparateInv, Exclusive
  <2>4. Alone(q, epochRows[q.epoch], Cached(q.network, q.epoch))
    BY <2>1, Zenon DEF SeparateInv, AloneInv, AloneRequest
  <2>5. epochRows'[q.epoch] = epochRows[q.epoch]
    BY <2>2, <2>3, Zenon
  <2>6. Cached(q.network, q.epoch)' = Cached(q.network, q.epoch)
    BY <2>2, <2>3
  <2>7. QED
    BY <2>4, <2>5, <2>6, Zenon
<1>4. QED
  BY <1>1, <1>2, <1>3, Zenon DEF SeparateInv, AloneInv

(* A step that writes no row: an upload, a verification, the NetworkRoot.  *)
LEMMA AdvanceSeparate ==
  ASSUME SeparateInv, WorkInv, NEW r \in Request, Active(r), Advance(r),
         Head(requests[r].todo) \notin {"saveEpoch", "saveBlobs"}, UNCHANGED database
  PROVE  SeparateInv'
<1>1. Advanced(r)
  BY AdvanceEffect, Zenon DEF WorkInv
<1>2. EmptyRows'
  BY Zenon DEF SeparateInv, EmptyRows, GetBlobsByEpoch, database
<1>3. /\ \A f \in Epoch : epochRows'[f] = epochRows[f]
      /\ \A n \in Network, f \in Epoch : Cached(n, f)' = Cached(n, f)
  BY DEF Cached, GetBlobsByEpoch, database
<1>4. EmptyRequest(requests'[r])
  BY <1>1, Zenon DEF SeparateInv, EmptyRequests, EmptyRequest, Advanced
<1>5. AloneRequest(r)'
  <2> DEFINE q == requests[r]
             p == requests'[r]
  <2>1. SUFFICES ASSUME q.op # "push", q.alone
                 PROVE  Alone(p, epochRows'[p.epoch], Cached(q.network, q.epoch)')
    BY <1>1, Zenon DEF AloneRequest, Advanced
  <2>2. q.network \in Network /\ q.epoch \in Epoch
    BY <1>1, Zenon DEF WorkInv, RequestTypes, RequestRecord, Advanced
  <2>3. Alone(q, epochRows[q.epoch], Cached(q.network, q.epoch))
    BY <1>1, <2>1, Zenon DEF SeparateInv, AloneInv, AloneRequest, Advanced
  <2>4. /\ Has(p.todo, "saveBlobs") <=> Has(q.todo, "saveBlobs")
        /\ Has(p.todo, "saveEpoch") <=> Has(q.todo, "saveEpoch")
    BY <1>1, Zenon DEF Advanced
  <2>5. Alone(p, epochRows[q.epoch], Cached(q.network, q.epoch))
    BY <1>1, <2>3, <2>4, Zenon DEF Alone, Advanced
  <2>6. epochRows' = epochRows /\ \A k, f : Cached(k, f)' = Cached(k, f)
    BY DEF database, Cached, GetBlobsByEpoch
  <2>7. p.network = q.network /\ p.epoch = q.epoch
    BY <1>1, Zenon DEF Advanced
  <2>8. QED
    BY <2>5, <2>6, <2>7, Zenon
<1>6. QED
  BY <1>1, <1>2, <1>3, <1>4, <1>5, StepSeparate, Zenon DEF Advanced

(* A request that is given up leaves its epoch to nobody in particular.    *)
LEMMA AbortSeparate ==
  ASSUME SeparateInv, WorkInv, NEW r \in Request, Active(r), Abort(r), UNCHANGED database
  PROVE  SeparateInv'
<1>1. Aborted(r)
  BY AbortEffect DEF WorkInv
<1>2. EmptyRows'
  BY DEF SeparateInv, EmptyRows, GetBlobsByEpoch, database
<1>3. /\ \A f \in Epoch : epochRows'[f] = epochRows[f]
      /\ \A n \in Network, f \in Epoch : Cached(n, f)' = Cached(n, f)
  BY DEF Cached, GetBlobsByEpoch, database
<1>4. AloneRequest(r)'
  BY <1>1, Zenon DEF AloneRequest, Aborted
<1>5. QED
  BY <1>1, <1>2, <1>3, <1>4, StepSeparate, Zenon DEF Aborted

(* The row of an epoch counts no blobs only if the root was built of none. *)
LEMMA SaveEpochSeparate ==
  ASSUME Separate, StoreInv, SeparateInv, NEW r \in Request, At(r, "saveEpoch"),
         epochRows' = Saved(r), UNCHANGED <<blobRows, node>>, Advance(r) \/ Abort(r)
  PROVE  SeparateInv'
<1> DEFINE q == requests[r]
           n == q.network
           e == q.epoch
<1>1. WorkInv /\ DatabaseInv
  BY Zenon DEF StoreInv
<1>2. /\ Active(r) /\ q \in RequestRecord /\ q # None /\ n \in Network /\ e \in Epoch
      /\ RequestSound(q, blocks, Stored, skipUpload)
      /\ Provided(q, Stored) = Stored /\ Has(q.todo, "saveEpoch")
  BY <1>1, AtFacts DEF Active
<1>3. q.op # "push" /\ q.root \in RootOf(n, e) /\ Closure(q.root) \subseteq Stored
  BY <1>2, Zenon DEF RequestSound
<1>4. /\ epochRows'[e] = [network |-> IF epochRows[e] = None THEN n ELSE epochRows[e].network,
                          cid |-> q.root, blobCount |-> Cardinality(Links(q.root))]
      /\ \A f \in Epoch \ {e} : epochRows'[f] = epochRows[f]
  <2> HIDE DEF n, e
  <2>1. epochRows' = SaveEpochRow(n, e, q.root)
    BY Zenon DEF Saved, n, e
  <2>2. QED
    BY <1>1, <1>2, <1>3, <2>1, DatabaseSaveEpoch, Zenon
<1>5. epochRows'[e] = [network |-> n, cid |-> q.root, blobCount |-> Cardinality(Links(q.root))]
  <2>1. epochRows[e] # None => epochRows[e].network \in Network
    BY <1>1, <1>2, Zenon DEF DatabaseInv, RowTypes, EpochRow
  <2>2. epochRows[e] # None => epochRows[e].network = n
    BY <1>2, <2>1, Zenon DEF Separate, OneDatabaseEach
  <2>3. QED
    BY <1>4, <2>2, Zenon
<1>6. \A k \in Network, f \in Epoch : /\ Cached(k, f)' = Cached(k, f)
                                      /\ GetBlobsByEpoch(k, f)' = GetBlobsByEpoch(k, f)
  BY DEF Cached, GetBlobsByEpoch
<1>7. EmptyRequest(q)
  BY <1>2, Zenon DEF SeparateInv, EmptyRequests
<1>8. EmptyRows'
  <2>1. Cardinality(Links(q.root)) = 0 => Links(q.root) = {}
    BY <1>3, RootFacts, FS_EmptySet, Zenon
  <2>2. ASSUME NEW f \in Epoch, epochRows'[f] # None, epochRows'[f].blobCount = 0
        PROVE  \/ OnChain(epochRows'[f].network, f) = {}
               \/ GetBlobsByEpoch(epochRows[f].network, f)' # {}
    <3>1. CASE f = e
      <4>1. epochRows'[f].network = n /\ Cardinality(Links(q.root)) = 0
        BY <1>5, <2>2, <3>1
      <4>2. OnChain(n, e) = {}
        BY <1>3, <1>7, <2>1, <4>1, Zenon DEF EmptyRequest
      <4>3. QED
        BY <3>1, <4>1, <4>2, Zenon
    <3>2. CASE f # e
      <4>1. epochRows'[f] = epochRows[f]
        BY <1>4, <3>2, Zenon
      <4>2. QED
        BY <2>2, <4>1 DEF SeparateInv, EmptyRows, GetBlobsByEpoch
    <3>3. QED
      BY <3>1, <3>2, Zenon
  <2>3. QED
    BY <2>2, Zenon DEF EmptyRows
<1>9. CASE Advance(r)
  <2> DEFINE p == requests'[r]
  <2>1. Advanced(r)
    BY <1>1, <1>2, <1>9, AdvanceEffect, Zenon DEF WorkInv
  <2>2. EmptyRequest(p)
    BY <1>7, <2>1, Zenon DEF EmptyRequest, Advanced
  <2>3. AloneRequest(r)'
    <3>1. SUFFICES ASSUME q.alone
                   PROVE  Alone(p, epochRows'[p.epoch], Cached(q.network, q.epoch)')
      BY <2>1, Zenon DEF AloneRequest, Advanced
    <3>2. Alone(q, epochRows[e], Cached(n, e))
      BY <1>2, <1>3, <3>1, Zenon DEF SeparateInv, AloneInv, AloneRequest
    <3>3. Has(p.todo, "saveBlobs") <=> Has(q.todo, "saveBlobs")
      BY <2>1, Zenon DEF Advanced, At
    <3>4. Alone(p, epochRows'[e], Cached(n, e))
      BY <1>5, <2>1, <3>2, <3>3, Zenon DEF Alone, Advanced
    <3>5. p.network = n /\ p.epoch = e
      BY <2>1, Zenon DEF Advanced
    <3>6. \A k, f : Cached(k, f)' = Cached(k, f)
      BY DEF Cached, GetBlobsByEpoch
    <3>7. QED
      BY <3>4, <3>5, <3>6, Zenon
  <2>4. QED
    BY <1>1, <1>2, <1>4, <1>6, <1>8, <2>1, <2>2, <2>3, StepSeparate, Zenon DEF Advanced
<1>10. CASE Abort(r)
  <2>1. Aborted(r)
    BY <1>1, <1>10, AbortEffect, Zenon DEF WorkInv
  <2>2. AloneRequest(r)'
    BY <2>1, Zenon DEF AloneRequest, Aborted
  <2>3. QED
    BY <1>1, <1>2, <1>4, <1>6, <1>8, <2>1, <2>2, StepSeparate, Zenon DEF Aborted
<1>11. QED
  BY <1>9, <1>10, Zenon

(* A row made for the foreign key counts no blobs, but its epoch has rows. *)
LEMMA SaveBlobsKeepSeparate ==
  ASSUME Separate, StoreInv, SeparateInv, NEW r \in Request, At(r, "saveBlobs"),
         SaveBlobRows(requests[r].network, requests[r].epoch, requests[r].save),
         Advance(r) \/ Abort(r)
  PROVE  SeparateInv'
<1> DEFINE q == requests[r]
<1>1. WorkInv /\ DatabaseInv /\ RowTypes
  BY Zenon DEF StoreInv, DatabaseInv
<1>2. /\ Active(r) /\ q \in RequestRecord /\ q # None
      /\ q.network \in Network /\ q.epoch \in Epoch
      /\ RequestSound(q, blocks, Stored, skipUpload) /\ Has(q.todo, "saveBlobs")
  BY <1>1, AtFacts, Zenon DEF Active
<1> SUFFICES ASSUME NEW n \in Network, n = q.network, NEW e \in Epoch, e = q.epoch,
                    NEW save, save = q.save
             PROVE  SeparateInv'
  BY <1>2, Zenon
<1>3. save # {} /\ save \in SUBSET MetasOf(n, e)
  BY <1>2, Zenon DEF RequestSound
<1>4. /\ \A f \in Epoch \ {e} : Cached(n, f)' = Cached(n, f)
      /\ \A f \in Epoch : GetBlobsByEpoch(n, f) \subseteq GetBlobsByEpoch(n, f)'
      /\ GetBlobsByEpoch(n, e)' # {}
      /\ \A el \in BOOLEAN : save = Fetched(n, e, el)
           => /\ Genuine(n, e, Cached(n, e)') = save
              /\ Cached(n, e) = {} => Cached(n, e)' = save
  BY <1>1, <1>3, SaveBlobsSeparate
<1>5. \A k \in Network : k = n
  BY Zenon DEF Separate, OneDatabaseEach
<1>6. \A k \in Network, f \in Epoch \ {e} : Cached(k, f)' = Cached(k, f)
  BY <1>4, <1>5, Zenon
<1>7. /\ epochRows' \in [Epoch -> {None} \cup EpochRow]
      /\ \A f \in Epoch \ {e} : epochRows'[f] = epochRows[f]
      /\ epochRows[e] # None => epochRows'[e] = epochRows[e]
  <2>1. epochRows' = Placeholder(n, e)
    BY <1>1, <1>3, SaveBlobRowsEffect
  <2>2. /\ epochRows' \in [Epoch -> {None} \cup EpochRow]
        /\ \A f \in Epoch : \/ epochRows'[f] = epochRows[f] /\ (f = e => epochRows[f] # None)
                            \/ /\ f = e /\ epochRows[f] = None
                               /\ epochRows'[f] = [network |-> n, cid |-> NoCID, blobCount |-> 0]
    BY <1>1, <2>1, PlaceholderFacts, Zenon
  <2>3. QED
    BY <2>2, Zenon
<1>8. EmptyRows'
  <2> SUFFICES ASSUME NEW f \in Epoch, NEW k \in Network, epochRows'[f] # None,
                      epochRows'[f].network = k, epochRows'[f].blobCount = 0
               PROVE  OnChain(k, f) = {} \/ GetBlobsByEpoch(k, f)' # {}
    BY <1>7, Zenon DEF EmptyRows, EpochRow
  <2>1. CASE f = e
    BY <1>4, <1>5, <2>1, Zenon
  <2>2. CASE f # e
    <3>1. epochRows'[f] = epochRows[f]
      BY <1>7, <2>2, Zenon
    <3>2. OnChain(k, f) = {} \/ GetBlobsByEpoch(k, f) # {}
      BY <3>1, Zenon DEF SeparateInv, EmptyRows
    <3>3. QED
      BY <1>4, <1>5, <3>2, Zenon
  <2>3. QED
    BY <2>1, <2>2, Zenon
<1>9. CASE Advance(r)
  <2> DEFINE p == requests'[r]
  <2>1. Advanced(r)
    BY <1>1, <1>2, <1>9, AdvanceEffect, Zenon DEF WorkInv
  <2>2. EmptyRequest(p)
    BY <1>2, <2>1, Zenon DEF SeparateInv, EmptyRequests, EmptyRequest, Advanced
  <2>3. AloneRequest(r)'
    <3>1. SUFFICES ASSUME q.op # "push", q.alone
                   PROVE  Alone(p, epochRows'[e], Cached(n, e)')
      BY <2>1, Zenon DEF AloneRequest, Advanced
    <3>2. Alone(q, epochRows[e], Cached(n, e))
      BY <1>2, <3>1, Zenon DEF SeparateInv, AloneInv, AloneRequest
    <3>3. /\ ~Has(p.todo, "saveBlobs")
          /\ Has(p.todo, "saveEpoch") <=> Has(q.todo, "saveEpoch")
      BY <2>1, Zenon DEF Advanced, At
    <3>4. Links(p.root) = IF q.op = "backfill" THEN Genuine(n, e, Cached(n, e)') ELSE Cached(n, e)'
      <4>1. /\ Links(q.root) = save /\ \E el \in BOOLEAN : save = Fetched(n, e, el)
            /\ q.op # "backfill" => Cached(n, e) = {}
        BY <1>2, <3>2, Zenon DEF Alone
      <4>2. QED
        BY <1>4, <2>1, <4>1, Zenon DEF Advanced
    <3>5. ~Has(q.todo, "saveEpoch") =>
             epochRows[e] = [network |-> n, cid |-> q.root, blobCount |-> Cardinality(Links(q.root))]
      BY <3>2, Zenon DEF Alone
    <3>6. ~Has(q.todo, "saveEpoch") => epochRows[e] # None
      BY <3>5, RowApart, Zenon
    <3>7. QED
      BY <1>7, <2>1, <3>3, <3>4, <3>5, <3>6, Zenon DEF Alone, Advanced
  <2>4. QED
    BY <1>1, <1>2, <1>6, <1>7, <1>8, <2>1, <2>2, <2>3, StepSeparate, Zenon DEF Advanced
<1>10. CASE Abort(r)
  <2>1. Aborted(r)
    BY <1>1, <1>10, AbortEffect, Zenon DEF WorkInv
  <2>2. AloneRequest(r)'
    BY <2>1, Zenon DEF AloneRequest, Aborted
  <2>3. QED
    BY <1>1, <1>2, <1>6, <1>7, <1>8, <2>1, <2>2, StepSeparate, Zenon DEF Aborted
<1>11. QED
  BY <1>9, <1>10, Zenon

(* A request that starts alone is the only one at work on its epoch, and   *)
(* the others of the epoch are not alone any more.                         *)
LEMMA StartSeparate ==
  ASSUME SeparateInv, WorkInv, UNCHANGED database, NEW r \in Request, NEW q \in RequestRecord,
         Entered(r, q), EmptyRequest(q),
         q.op # "push" => Alone(q, epochRows[q.epoch], Cached(q.network, q.epoch))
  PROVE  SeparateInv'
<1>1. epochRows' = epochRows /\ blobRows' = blobRows
  BY Zenon DEF database
<1>2. EmptyRows'
  BY <1>1, Zenon DEF SeparateInv, EmptyRows, GetBlobsByEpoch
<1>3. EmptyRequests'
  <2>1. ASSUME NEW p \in Request, requests'[p] # None PROVE EmptyRequest(requests'[p])
    <3>1. CASE p = r
      BY <3>1, Zenon DEF EmptyRequest, Entered, SameWork
    <3>2. CASE p # r
      <4>1. requests[p] # None /\ SameWork(requests'[p], requests[p])
        BY <2>1, <3>2, Zenon DEF Entered
      <4>2. EmptyRequest(requests[p])
        BY <4>1, Zenon DEF SeparateInv, EmptyRequests
      <4>3. QED
        BY <4>1, <4>2, Zenon DEF EmptyRequest, SameWork
    <3>3. QED
      BY <3>1, <3>2, Zenon
  <2>2. QED
    BY <2>1, Zenon DEF EmptyRequests
<1>4. Exclusive'
  <2> SUFFICES ASSUME NEW k \in Request, NEW p \in Request,
                      requests'[k] # None, requests'[k].alone, p # k, Active(p)',
                      requests'[p].epoch = requests'[k].epoch
               PROVE  FALSE
    BY Zenon DEF Exclusive
  <2>1. CASE k = r
    <3>1. requests[p] # None /\ requests[p].epoch = q.epoch /\ Active(p)
      BY <2>1, Zenon DEF Entered, SameWork, Active
    <3>2. QED
      BY <2>1, <3>1, Zenon DEF Entered
  <2>2. CASE k # r
    <3>1. requests[k] # None /\ requests[k].alone /\ requests[k].epoch # q.epoch
          /\ requests'[k].epoch = requests[k].epoch
      BY <2>2, Zenon DEF Entered, SameWork
    <3>2. p # r
      BY <3>1 DEF Entered, SameWork
    <3>3. Active(p) /\ requests[p].epoch = requests[k].epoch
      BY <3>1, <3>2, Zenon DEF Entered, SameWork, Active
    <3>4. QED
      BY <3>1, <3>3, Zenon DEF SeparateInv, Exclusive
  <2>3. QED
    BY <2>1, <2>2, Zenon
<1>5. ASSUME NEW k \in Request, NEW w, SameWork(requests'[k], w),
             Alone(w, epochRows[w.epoch], Cached(w.network, w.epoch))
      PROVE  AloneRequest(k)'
  <2>1. ASSUME NEW n, NEW e, n = w.network, e = w.epoch
        PROVE  Alone(requests'[k], epochRows'[e], Cached(n, e)')
    <3>1. Cached(n, e)' = Cached(n, e)
      BY <1>1, Zenon DEF Cached, GetBlobsByEpoch
    <3>2. QED
      BY <1>1, <1>5, <2>1, <3>1, Zenon DEF Alone, SameWork
  <2>2. QED
    BY <1>5, <2>1, Zenon DEF AloneRequest, SameWork
<1>6. AloneRequest(r)'
  <2>1. q.op = "push" => AloneRequest(r)'
    BY Zenon DEF Entered, SameWork, AloneRequest
  <2>2. QED
    BY <1>5, <2>1, Zenon DEF Entered
<1>7. ASSUME NEW k \in Request \ {r} PROVE AloneRequest(k)'
  <2>1. SUFFICES ASSUME requests'[k] # None, requests'[k].alone, requests'[k].op # "push"
                 PROVE  AloneRequest(k)'
    BY Zenon DEF AloneRequest
  <2>2. requests[k] # None /\ requests[k].alone /\ SameWork(requests'[k], requests[k])
    BY <2>1, Zenon DEF Entered
  <2>3. requests[k].op # "push"
    BY <2>1, <2>2, Zenon DEF SameWork
  <2>4. Alone(requests[k], epochRows[requests[k].epoch],
              Cached(requests[k].network, requests[k].epoch))
    BY <2>2, <2>3, Zenon DEF SeparateInv, AloneInv, AloneRequest
  <2>5. ASSUME NEW w, w = requests[k] PROVE AloneRequest(k)'
    BY <1>5, <2>2, <2>4, <2>5, Zenon
  <2>6. QED
    BY <2>5, Zenon
<1>8. QED
  BY <1>2, <1>3, <1>4, <1>6, <1>7, Zenon DEF SeparateInv, AloneInv

(* Every request starts from the rows of its epoch or from all its blobs.  *)
LEMMA StartsSeparate ==
  ASSUME Separate, StoreInv, SeparateInv, NEW r \in Request, NEW n \in Network, NEW e \in Epoch,
         Starts(r, n, e)
  PROVE  SeparateInv'
<1>1. WorkInv /\ DatabaseInv /\ RequestTypes /\ RowTypes /\ RowsSourced
  BY Zenon DEF StoreInv, DatabaseInv, WorkInv
<1>2. ASSUME NEW q \in RequestRecord, Start(r, q), EmptyRequest(q), q.network = n, q.epoch = e,
             q.op # "push" => Alone(q, epochRows[e], Cached(n, e))
      PROVE  SeparateInv'
  <2>1. Entered(r, q)
    BY <1>1, <1>2, StartEffect, Zenon
  <2>2. UNCHANGED database
    BY <1>2, Zenon DEF Start
  <2>3. QED
    BY <1>1, <1>2, <2>1, <2>2, StartSeparate, Zenon
<1>3. CASE StartsFromRows(r, n, e)
  <2>1. PICK op \in Op \ {"push", "backfill"}, todo \in Todo :
               /\ Has(todo, "upload") /\ Has(todo, "saveEpoch") /\ ~Has(todo, "saveBlobs")
               /\ Cached(n, e) # {}
               /\ Start(r, RowsRequest(op, n, e, todo))
    BY <1>3, Zenon DEF StartsFromRows
  <2> DEFINE q == RowsRequest(op, n, e, todo)
  <2>2. q \in RequestRecord
    BY <2>1, RowsRequestSound, Zenon
  <2>3. /\ q.op = op /\ q.network = n /\ q.epoch = e /\ q.todo = todo
        /\ Links(q.root) = Cached(n, e)
    BY EpochNodeLinks, Zenon DEF RowsRequest, NewRequest
  <2> HIDE DEF q
  <2>4. EmptyRequest(q) /\ Alone(q, epochRows[e], Cached(n, e))
    BY <2>1, <2>3, Zenon DEF EmptyRequest, Alone
  <2>5. QED
    BY <1>2, <2>1, <2>2, <2>3, <2>4, Zenon DEF q
<1>4. CASE StartsFromChain(r, n, e)
  <2>1. PICK op \in {"process", "backfill"}, el \in BOOLEAN, todo \in Todo :
               /\ Has(todo, "upload") /\ Has(todo, "saveEpoch")
               /\ op = "process" => /\ Cached(n, e) = {}
                                    /\ Has(todo, "saveBlobs") <=> Fetched(n, e, el) # {}
               /\ op = "backfill" => /\ ~skipUpload /\ el = FALSE
                                     /\ Fetched(n, e, el) # {}
                                     /\ Has(todo, "saveBlobs")
                                          <=> \E m \in Fetched(n, e, el) : m \notin Cached(n, e)
               /\ Start(r, FetchedRequest(op, n, e, el, todo))
    BY <1>4, Zenon DEF StartsFromChain
  <2> DEFINE q == FetchedRequest(op, n, e, el, todo)
  <2>2. op \in Op \ {"push"} /\ (Has(todo, "saveBlobs") => Fetched(n, e, el) # {})
    BY <2>1, Zenon DEF Op
  <2>3. q \in RequestRecord
    BY <2>1, <2>2, FetchedRequestSound, Zenon
  <2>4. /\ q.op = op /\ q.network = n /\ q.epoch = e /\ q.todo = todo
        /\ q.save = Fetched(n, e, el)
        /\ Links(q.root) = Fetched(n, e, el)
    BY EpochNodeLinks, Zenon DEF FetchedRequest, NewRequest
  <2> HIDE DEF q
  <2>5. EmptyRequest(q)
    BY <2>4, FetchedFacts, Zenon DEF EmptyRequest
  <2>6. /\ op # "backfill" => op = "process"
        /\ ~Has(todo, "saveBlobs") /\ op = "backfill"
             => Genuine(n, e, Cached(n, e)) = Fetched(n, e, el)
    <3>1. ~Has(todo, "saveBlobs") /\ op = "backfill" => Fetched(n, e, el) \subseteq Cached(n, e)
      BY <2>1, Zenon
    <3>2. op # "backfill" => op = "process"
      BY <2>1, Zenon
    <3>3. QED
      BY <1>1, <3>1, <3>2, CachedIsFetched, Zenon
  <2>7. Alone(q, epochRows[e], Cached(n, e))
    <3>1. CASE Has(todo, "saveBlobs")
      BY <2>1, <2>4, <2>6, <3>1, Zenon DEF Alone
    <3>2. CASE ~Has(todo, "saveBlobs")
      <4>1. Links(q.root) = IF q.op = "backfill" THEN Genuine(n, e, Cached(n, e)) ELSE Cached(n, e)
        BY <2>1, <2>4, <2>6, <3>2, Zenon
      <4>2. QED
        BY <2>1, <2>4, <3>2, <4>1, Zenon DEF Alone
    <3>3. QED
      BY <3>1, <3>2, Zenon
  <2>8. QED
    BY <1>2, <2>1, <2>3, <2>4, <2>5, <2>7, Zenon DEF q
<1>5. CASE StartsPush(r, n, e)
  <2>1. PICK m \in MetasOf(n, e), rest \in {<<>>, <<"finalize">>} :
               Start(r, PushRequest(n, e, m, rest))
    BY <1>5, Zenon DEF StartsPush
  <2> DEFINE q == PushRequest(n, e, m, rest)
  <2>2. q \in RequestRecord
    BY PushRequestSound, Zenon
  <2>3. q.network = n /\ q.epoch = e /\ q.op = "push"
    BY Zenon DEF PushRequest, NewRequest
  <2> HIDE DEF q
  <2>4. QED
    BY <1>2, <2>1, <2>2, <2>3, Zenon DEF q, EmptyRequest
<1>6. QED
  BY <1>3, <1>4, <1>5, StartedRequest, Zenon

(* The finalization of a push is built of the rows there are.              *)
LEMMA FinalizeSeparate ==
  ASSUME StoreInv, SeparateInv, NEW r \in Request, Finalize(r)
  PROVE  SeparateInv'
<1> DEFINE q == requests[r]
           p == requests'[r]
           todo == <<"upload", "saveEpoch", "root">>
<1>1. WorkInv
  BY DEF StoreInv
<1>2. Active(r) /\ UNCHANGED database /\ (Finalizing(r) \/ Abort(r))
  BY FinalizeEffect, Zenon DEF Finalize, At
<1>3. q.network \in Network /\ q.epoch \in Epoch
  BY <1>1, <1>2, Zenon DEF WorkInv, RequestTypes, RequestRecord, Active
<1>4. CASE Finalizing(r)
  <2>1. /\ SameWork(p, RowsRequest("finalize", q.network, q.epoch, todo)) /\ p # None
        /\ Cached(q.network, q.epoch) # {} /\ p.alone = q.alone
    BY <1>4, Zenon DEF Finalizing
  <2>2. /\ p.network = q.network /\ p.epoch = q.epoch /\ p.todo = todo /\ p.op = "finalize"
        /\ Links(p.root) = Cached(q.network, q.epoch)
    <3> DEFINE x == RowsRequest("finalize", q.network, q.epoch, todo)
    <3>1. /\ x.network = q.network /\ x.epoch = q.epoch /\ x.todo = todo /\ x.op = "finalize"
          /\ x.root = EpochNode(q.network, q.epoch, Cached(q.network, q.epoch))
      BY Zenon DEF RowsRequest, NewRequest
    <3>2. SameWork(p, x)
      BY <2>1, Zenon
    <3> HIDE DEF x, p, q, todo
    <3>3. QED
      BY <3>1, <3>2, EpochNodeLinks DEF SameWork
  <2>3. Has(todo, "saveEpoch") /\ ~Has(todo, "saveBlobs")
    BY Plans, Zenon
  <2>4. EmptyRows'
    BY <1>2, Zenon DEF SeparateInv, EmptyRows, GetBlobsByEpoch, database
  <2>5. /\ \A f \in Epoch : epochRows'[f] = epochRows[f]
        /\ \A n \in Network, f \in Epoch : Cached(n, f)' = Cached(n, f)
    BY <1>2 DEF Cached, GetBlobsByEpoch, database
  <2>6. EmptyRequest(p)
    BY <2>1, <2>2, Zenon DEF EmptyRequest
  <2>7. AloneRequest(r)'
    <3>1. ASSUME NEW n \in Network, NEW e \in Epoch, n = q.network, e = q.epoch
          PROVE  Alone(p, epochRows'[e], Cached(n, e)')
      <4>1. p.op # "backfill"
        BY <2>2
      <4>2. QED
        BY <2>2, <2>3, <2>5, <3>1, <4>1, Zenon DEF Alone
    <3>2. QED
      BY <1>3, <2>2, <3>1, Zenon DEF AloneRequest
  <2>8. QED
    BY <1>1, <1>2, <1>4, <2>1, <2>2, <2>4, <2>5, <2>6, <2>7, StepSeparate, Zenon DEF Finalizing
<1>5. CASE Abort(r)
  BY <1>1, <1>2, <1>5, AbortSeparate
<1>6. QED
  BY <1>2, <1>4, <1>5

(* Empty tables and no requests.                                           *)
LEMMA InitSeparate == Init => SeparateInv
BY DEF Init, SeparateInv, EmptyRows, EmptyRequests, Exclusive, AloneInv, AloneRequest, Active

(* Every step keeps the invariant of one network without repeated blobs.   *)
LEMMA NextSeparate ==
  ASSUME Separate, StoreInv, SeparateInv, [Next]_vars
  PROVE  SeparateInv'
<1>1. WorkInv /\ RequestTypes
  BY Zenon DEF StoreInv, WorkInv
<1>2. ASSUME UNCHANGED <<database, requests>> PROVE SeparateInv'
  <2>1. epochRows' = epochRows /\ blobRows' = blobRows /\ requests' = requests
    BY <1>2 DEF database
  <2>2. EmptyRows'
    BY <2>1, Zenon DEF SeparateInv, EmptyRows, GetBlobsByEpoch
  <2>3. EmptyRequests'
    BY <2>1, Zenon DEF SeparateInv, EmptyRequests
  <2>4. Exclusive'
    BY <2>1, Zenon DEF SeparateInv, Exclusive, Active
  <2>5. AloneInv'
    BY <2>1, Zenon DEF SeparateInv, AloneInv, AloneRequest, Cached, GetBlobsByEpoch
  <2>6. QED
    BY <2>2, <2>3, <2>4, <2>5, Zenon DEF SeparateInv
<1>3. ASSUME NEW r \in Request, NEW n \in Network, NEW e \in Epoch, Starts(r, n, e)
      PROVE  SeparateInv'
  BY <1>3, StartsSeparate, Zenon
<1>4. ASSUME NEW r \in Request, Upload(r) PROVE SeparateInv'
  BY <1>1, <1>4, AdvanceSeparate, Zenon DEF Upload, At
<1>5. ASSUME NEW r \in Request, UploadFails(r) PROVE SeparateInv'
  <2>1. CASE requests[r].op = "backfill"
    BY <1>2, <1>5, <2>1, Zenon DEF UploadFails
  <2>2. CASE requests[r].op # "backfill"
    BY <1>1, <1>5, <2>2, AbortSeparate, Zenon DEF UploadFails, At
  <2>3. QED
    BY <2>1, <2>2, Zenon
<1>6. ASSUME NEW r \in Request, Verify(r) PROVE SeparateInv'
  <2>1. /\ Active(r) /\ UNCHANGED database /\ (Advance(r) \/ Abort(r))
        /\ Head(requests[r].todo) = "verify"
    BY <1>6, Zenon DEF Verify, At
  <2>2. QED
    BY <1>1, <2>1, AdvanceSeparate, AbortSeparate, Zenon
<1>7. ASSUME NEW r \in Request, SaveEpoch(r) PROVE SeparateInv'
  BY <1>7, SaveEpochSeparate, Zenon DEF SaveEpoch
<1>8. ASSUME NEW r \in Request, SaveBlobs(r) PROVE SeparateInv'
  BY <1>8, SaveBlobsKeepSeparate, Zenon DEF SaveBlobs
<1>9. ASSUME NEW r \in Request, SaveFails(r) PROVE SeparateInv'
  <2>1. Abort(r) /\ UNCHANGED node
    BY <1>9, Zenon DEF SaveFails
  <2>2. CASE At(r, "saveEpoch") /\ epochRows' = Saved(r) /\ UNCHANGED blobRows
    BY <2>1, <2>2, SaveEpochSeparate, Zenon
  <2>3. CASE /\ At(r, "saveBlobs")
             /\ SaveBlobRows(requests[r].network, requests[r].epoch, requests[r].save)
    BY <2>1, <2>3, SaveBlobsKeepSeparate, Zenon
  <2>4. CASE Active(r) /\ UNCHANGED database
    BY <1>1, <2>1, <2>4, AbortSeparate, Zenon
  <2>5. QED
    BY <1>9, <2>2, <2>3, <2>4, Zenon DEF SaveFails, At, database
<1>10. ASSUME NEW r \in Request, Finalize(r) PROVE SeparateInv'
  BY <1>10, FinalizeSeparate
<1>11. ASSUME NEW r \in Request, RebuildNetworkRoot(r) PROVE SeparateInv'
  <2>1. /\ Active(r) /\ UNCHANGED database /\ Advance(r)
        /\ Head(requests[r].todo) = "root"
    BY <1>11, Zenon DEF RebuildNetworkRoot, At
  <2>2. QED
    BY <1>1, <2>1, AdvanceSeparate, Zenon
<1>12. ASSUME NEW r \in Request, Crash(r) PROVE SeparateInv'
  BY <1>1, <1>12, AbortSeparate, Zenon DEF Crash
<1>13. CASE EnableUpload
  BY <1>2, <1>13 DEF EnableUpload
<1>14. CASE UNCHANGED vars
  BY <1>2, <1>14, Zenon DEF vars, database
<1>15. QED
  BY <1>3, <1>4, <1>5, <1>6, <1>7, <1>8, <1>9, <1>10, <1>11, <1>12, <1>13, <1>14, Zenon DEF Next, Starts

(* With one network and no blob twice, the second invariant holds too:     *)
(* whatever crashed or failed, the rows and the requests are those of the  *)
(* chain, and a request that is alone will leave what it saved.            *)
THEOREM SeparateInvariant == Separate => (Spec => [](StoreInv /\ SeparateInv))
<1> SUFFICES ASSUME Separate PROVE Spec => [](StoreInv /\ SeparateInv)
  OBVIOUS
<1>1. Init => StoreInv /\ SeparateInv
  BY InitStore, InitSeparate
<1>2. (StoreInv /\ SeparateInv) /\ [Next]_vars => (StoreInv /\ SeparateInv)'
  BY NextStore, NextSeparate
<1>3. QED
  BY <1>1, <1>2, PTL DEF Spec

(* "genuinely empty epochs (no blobs on-chain), not corrupted ones": for   *)
(* every chain whose blobs are all different, an epoch that GetEmptyEpochs *)
(* reports has no blobs, whatever failed, crashed or ran beside it.        *)
THEOREM StoreGenuinelyEmpty == Separate => (Spec => []GenuinelyEmpty)
<1> SUFFICES ASSUME Separate PROVE Spec => []GenuinelyEmpty
  OBVIOUS
<1>1. SeparateInv => GenuinelyEmpty
  BY Zenon DEF SeparateInv, EmptyRows, GenuinelyEmpty, GetEmptyEpochs, GetAllEpochs
<1>2. QED
  BY <1>1, SeparateInvariant, PTL

(* backfill-ipfs is the recovery path: whatever uploads were skipped and   *)
(* whatever was pushed before, the blocks of the whole epoch are on the    *)
(* node when it is done, and if nobody else worked on the epoch its rows   *)
(* are those of the chain, beside rows that are not on the chain at all.   *)
THEOREM StoreBackfillRecovers == Separate => (Spec => []BackfillRecovers)
<1> SUFFICES ASSUME Separate PROVE Spec => []BackfillRecovers
  BY Zenon
<1>1. ASSUME StoreInv, SeparateInv, NEW r \in Request, Finished(r), requests[r].op = "backfill"
      PROVE  /\ VerifyLocal(requests[r].root)
             /\ requests[r].alone
                  => Genuine(requests[r].network, requests[r].epoch,
                             Cached(requests[r].network, requests[r].epoch))
                       = Fetched(requests[r].network, requests[r].epoch, FALSE)
  <2> DEFINE q == requests[r]
  <2>1. q # None /\ RequestSound(q, blocks, Stored, skipUpload)
    BY <1>1, Zenon DEF Finished, StoreInv, WorkInv, RequestsSound
  <2>2. ~Has(q.todo, "upload") /\ ~Has(q.todo, "saveBlobs")
    BY <1>1 DEF Finished, Has
  <2>3. Closure(q.root) \subseteq blocks /\ Links(q.root) = Fetched(q.network, q.epoch, FALSE)
    BY <1>1, <2>1, <2>2, Zenon DEF RequestSound
  <2>4. q.op # "push"
    BY <1>1
  <2>5. q.alone => Links(q.root) = Genuine(q.network, q.epoch, Cached(q.network, q.epoch))
    BY <1>1, <2>1, <2>2, <2>4, Zenon DEF SeparateInv, AloneInv, AloneRequest, Alone
  <2>6. QED
    BY <2>3, <2>5, Zenon DEF VerifyLocal
<1>2. StoreInv /\ SeparateInv => BackfillRecovers
  BY <1>1, Zenon DEF BackfillRecovers
<1>3. QED
  BY <1>2, SeparateInvariant, PTL

(* In a database of one network no row has the wrong network, and an epoch *)
(* with a row leaves no blob an orphan.                                    *)
LEMMA RowsAttached ==
  ASSUME Separate, StoreInv, NEW n \in Network, NEW e \in Epoch,
         epochRows[e] # None, epochRows[e].network = n
  PROVE  e \notin GetNetworkMismatches(n) \cup GetOrphanBlobs(n)
<1>1. RowTypes
  BY Zenon DEF StoreInv, DatabaseInv
<1>2. e \notin GetNetworkMismatches(n)
  <2>1. \A c \in Commitment : blobRows[c] # None => blobRows[c].network \in Network
    BY <1>1, Zenon DEF RowTypes, BlobRow
  <2>2. QED
    BY <2>1, Zenon DEF GetNetworkMismatches, Separate, OneDatabaseEach
<1>3. e \notin GetOrphanBlobs(n)
  BY DEF GetOrphanBlobs, GetAllEpochs
<1>4. QED
  BY <1>2, <1>3, Zenon

(* Count and root of an epoch are those of its rows once they were saved   *)
(* together.                                                               *)
LEMMA RowsCounted ==
  ASSUME StoreInv, NEW n \in Network, NEW e \in Epoch,
         epochRows[e] = [network |-> n, cid |-> EpochNode(n, e, Cached(n, e)),
                         blobCount |-> Cardinality(Cached(n, e))]
  PROVE  e \notin CountMismatches(n) /\ ~RootBad(n, e)
<1>1. RowTypes /\ RowsSourced
  BY Zenon DEF StoreInv, DatabaseInv
<1>2. e \notin CountMismatches(n)
  BY <1>1, CachedFacts DEF CountMismatches
<1>3. ~RootBad(n, e)
  BY DEF RootBad
<1>4. QED
  BY <1>2, <1>3, Zenon

(* Rows that have their place from the chain are rows of blobs of the      *)
(* chain.                                                                  *)
LEMMA PlacedGenuine ==
  ASSUME StoreInv, NEW n \in Network, NEW e \in Epoch, Misplaced(n, e) = {}
  PROVE  Cached(n, e) = Genuine(n, e, Cached(n, e))
<1> SUFFICES ASSUME NEW m \in Cached(n, e)
             PROVE  \E b \in OnChain(n, e) : b.commitment = m[2].commitment
  BY Zenon DEF Genuine
<1>1. PICK c \in GetBlobsByEpoch(n, e) : m = blobRows[c].meta
  BY Zenon DEF Cached
<1>2. m[2].commitment = c
  BY <1>1, Zenon DEF StoreInv, DatabaseInv, RowsSourced, Sourced, GetBlobsByEpoch
<1>3. \E b \in OnChain(n, e) : b.commitment = c
  BY Zenon DEF Misplaced
<1>4. QED
  BY <1>2, <1>3, Zenon

(* The metadata that was fetched without an execution node passes for rows *)
(* that have their place from the chain.                                   *)
LEMMA PlacedMeta ==
  ASSUME Separate, StoreInv, NEW n \in Network, NEW e \in Epoch, Misplaced(n, e) = {},
         Cached(n, e) = Fetched(n, e, FALSE)
  PROVE  ~MetaBad(n, e)
<1> SUFFICES ASSUME NEW c \in GetBlobsByEpoch(n, e)
             PROVE  blobRows[c].meta = Meta(c, e, blobRows[c].place, blobRows[c].meta[2].tx)
  BY Zenon DEF MetaBad
<1> DEFINE m == blobRows[c].meta
<1>1. m[2].commitment = c
  BY Zenon DEF StoreInv, DatabaseInv, RowsSourced, Sourced, GetBlobsByEpoch
<1>2. PICK b \in OnChain(n, e) : b.commitment = c /\ b.place = blobRows[c].place
  BY Zenon DEF Misplaced
<1>3. m \in Fetched(n, e, FALSE)
  BY Zenon DEF Cached
<1> HIDE DEF m
<1>4. PICK d \in OnChain(n, e) : /\ m = MetaOf(n, e, d, FALSE)
                                 /\ m[2].commitment = d.commitment /\ m[2].place = d.place
  <2>1. ASSUME NEW el, NEW k \in Fetched(n, e, el)
        PROVE  \E d \in OnChain(n, e) : /\ k = MetaOf(n, e, d, el)
                                        /\ k[2].commitment = d.commitment /\ k[2].place = d.place
    BY FetchedMeta
  <2>2. QED
    BY <1>3, <2>1, Zenon
<1>5. b = d
  BY <1>1, <1>2, <1>4, Zenon DEF Separate, NoBlobTwice
<1>6. m \in MetasOf(n, e)
  BY <1>3, FetchedFacts, Zenon
<1>7. m = Meta(m[2].commitment, e, m[2].place, m[2].tx)
  BY <1>6, MetasOfFacts, Zenon
<1>8. m[2].place = blobRows[c].place
  BY <1>2, <1>4, <1>5, Zenon
<1>9. QED
  BY <1>1, <1>7, <1>8, Zenon DEF m

(* What a request that pulled, finalized, repaired or re-uploaded an epoch *)
(* with nobody else at work on it leaves in order, whatever crashes and    *)
(* pushes had left there before: no row of the wrong network and no        *)
(* orphans; count and root of the rows, all but rows that are not on the   *)
(* chain after backfill-ipfs; and after backfill-ipfs nothing that         *)
(* health-check fails on but shared indices, where rows have their place   *)
(* from the chain.                                                         *)
THEOREM StoreSettled == Separate => (Spec => []Settled)
<1> SUFFICES ASSUME Separate PROVE Spec => []Settled
  OBVIOUS
<1>1. ASSUME StoreInv, SeparateInv, NEW r \in Request, Finished(r),
             requests[r].op # "push", requests[r].alone,
             NEW q, q = requests[r], NEW n, n = q.network, NEW e, e = q.epoch
      PROVE  /\ e \notin GetNetworkMismatches(n) \cup GetOrphanBlobs(n)
             /\ q.op # "backfill" \/ Cached(n, e) = Genuine(n, e, Cached(n, e))
                  => e \notin CountMismatches(n) /\ ~RootBad(n, e)
             /\ q.op = "backfill" /\ Misplaced(n, e) = {} /\ e \in Unhealthy(n)
                  => e \in DuplicateIndices(n)
  <2>1. q # None /\ q \in RequestRecord /\ RequestSound(q, blocks, Stored, skipUpload)
    BY <1>1, Zenon DEF Finished, StoreInv, WorkInv, RequestTypes, RequestsSound
  <2>2. n \in Network /\ e \in Epoch
    BY <1>1, <2>1, Zenon DEF RequestRecord
  <2>3. ~Has(q.todo, "saveEpoch") /\ ~Has(q.todo, "saveBlobs")
    BY <1>1 DEF Finished, Has
  <2>4. Alone(q, epochRows[e], Cached(n, e))
    BY <1>1, <2>1, Zenon DEF SeparateInv, AloneInv, AloneRequest
  <2>5. q.root = EpochNode(n, e, Links(q.root))
    BY <1>1, <2>1, RootFacts, Zenon DEF RequestSound
  <2>6. epochRows[e] = [network |-> n, cid |-> EpochNode(n, e, Links(q.root)),
                        blobCount |-> Cardinality(Links(q.root))]
    BY <1>1, <2>3, <2>4, <2>5, Zenon DEF Alone
  <2>7. Links(q.root) = IF q.op = "backfill" THEN Genuine(n, e, Cached(n, e)) ELSE Cached(n, e)
    BY <1>1, <2>3, <2>4, Zenon DEF Alone
  <2>8. e \notin GetNetworkMismatches(n) \cup GetOrphanBlobs(n)
    <3>1. epochRows[e] # None
      BY <2>6, RowApart, Zenon
    <3>2. epochRows[e].network = n
      BY <2>6
    <3>3. QED
      BY <1>1, <2>2, <3>1, <3>2, RowsAttached, Zenon
  <2>9. ASSUME Links(q.root) = Cached(n, e) PROVE e \notin CountMismatches(n) /\ ~RootBad(n, e)
    <3>1. epochRows[e] = [network |-> n, cid |-> EpochNode(n, e, Cached(n, e)),
                          blobCount |-> Cardinality(Cached(n, e))]
      BY <2>6, <2>9, Zenon
    <3>2. QED
      BY <1>1, <2>2, <3>1, RowsCounted, Zenon
  <2>10. ASSUME q.op = "backfill", Misplaced(n, e) = {}, e \in Unhealthy(n)
         PROVE  e \in DuplicateIndices(n)
    <3>1. Cached(n, e) = Genuine(n, e, Cached(n, e))
      BY <1>1, <2>2, <2>10, PlacedGenuine, Zenon
    <3>2. Links(q.root) = Cached(n, e)
      BY <2>7, <2>10, <3>1, Zenon
    <3>3. Links(q.root) = Fetched(n, e, FALSE)
      BY <1>1, <2>1, <2>10, Zenon DEF RequestSound
    <3>4. ~MetaBad(n, e)
      BY <1>1, <2>2, <2>10, <3>2, <3>3, PlacedMeta, Zenon
    <3>5. QED
      BY <2>8, <2>9, <2>10, <3>2, <3>4, Zenon DEF Unhealthy
  <2>11. QED
    BY <2>7, <2>8, <2>9, <2>10, Zenon
<1>2. ASSUME StoreInv, SeparateInv, NEW r \in Request, Finished(r),
             requests[r].op # "push", requests[r].alone, NEW n, n = requests[r].network,
             NEW e, e = requests[r].epoch
      PROVE  /\ e \notin GetNetworkMismatches(n) \cup GetOrphanBlobs(n)
             /\ requests[r].op # "backfill" \/ Cached(n, e) = Genuine(n, e, Cached(n, e))
                  => e \notin CountMismatches(n) /\ ~RootBad(n, e)
             /\ requests[r].op = "backfill" /\ Misplaced(n, e) = {} /\ e \in Unhealthy(n)
                  => e \in DuplicateIndices(n)
  BY <1>1, <1>2, Zenon
<1>3. StoreInv /\ SeparateInv => Settled
  BY <1>2, Zenon DEF Settled
<1>4. QED
  BY <1>3, SeparateInvariant, PTL

=============================================================================
