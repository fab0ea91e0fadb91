---------------------------- MODULE DeltaBundle -----------------------------
(* One delta, from the changed blocks of a frozen source disk to the volume on *)
(* the Proxmox node: the paged query of the native helper, the bundle it packs *)
(* (delta.py builds the same one), the transfer, and the writer, either        *)
(* apply_delta_bundle of delta.py or remote_apply_delta.py.  The transfer may  *)
(* damage the payload, and the writer may be killed after any block and run    *)
(* again.                                                                      *)
(*                                                                             *)
(* Abstractions.  A block of data is the number of the source block it was     *)
(* read from, Stale for what the volume held before, or Damaged; so the data   *)
(* tells where it belongs.  A hash is the data hashed.  Chunks (CHUNK_SIZE) are*)
(* one block.                                                                  *)
(*                                                                             *)
(* Size      blocks on the disk;                                               *)
(* Batch     ranges a query returns at most (RangeBatchSize);                  *)
(* AnyOrder  the ranges document given to pack was not written by query and    *)
(*           lists its ranges in any order (ValidateRanges accepts that).      *)
EXTENDS Integers, FiniteSets, SequencesExt

CONSTANTS Size, Batch, AnyOrder

ASSUME DeltaBundleAssumption ==
  /\ Size \in Nat
  /\ Batch \in Nat \ {0}
  /\ AnyOrder \in BOOLEAN

Blocks == 0..(Size - 1)
Stale == -1
Damaged == -2
Data == Blocks \cup {Stale, Damaged}

Ranges == [offset : Blocks, length : 1..Size]

End(r) == r.offset + r.length

Covered(R) == UNION {r.offset..(End(r) - 1) : r \in R}

Disjoint(R) == \A r, q \in R : r # q => End(r) <= q.offset \/ End(q) <= r.offset

\* The members of R, whose offsets differ, in the order of their offsets.
Rank(R, r) == Cardinality({q \in R : q.offset < r.offset}) + 1
InOrder(R) == [i \in 1..Cardinality(R) |-> CHOOSE r \in R : Rank(R, r) = i]

VARIABLES changed,  \* blocks written between the two reference points
          stage,    \* query, pack, send, apply, done or refused
          cursor,   \* where the next query begins
          found,    \* ranges the queries returned so far
          bundle,   \* delta.json and the payload it was packed with
          payload,  \* delta.bin as it arrived
          plan,     \* the ranges as the writer goes through them
          at,       \* range and block the writer is at
          volume    \* the destination

vars == <<changed, stage, cursor, found, bundle, payload, plan, at, volume>>

NoBundle == [entries |-> <<>>, payload |-> <<>>]

TypeOK ==
  /\ changed \subseteq Blocks
  /\ stage \in {"query", "pack", "send", "apply", "done", "refused"}
  /\ cursor \in 0..Size
  /\ found \subseteq Ranges
  /\ bundle.payload \in Seq(Blocks)
  /\ payload \in Seq(Data)
  /\ at \in (1..(Size + 1)) \X (0..Size)
  /\ volume \in [Blocks -> Data]

Init ==
  /\ changed \in SUBSET Blocks
  /\ stage = "query"
  /\ cursor = 0
  /\ found = {}
  /\ bundle = NoBundle
  /\ payload = <<>>
  /\ plan = <<>>
  /\ at = <<1, 0>>
  /\ volume = [b \in Blocks |-> Stale]

(* --------------------------------- query ----------------------------------- *)

\* What one call of QueryChangesVirtualDisk may return: at most Batch ranges that
\* make up the changed blocks from the cursor to some end it processed, cut into
\* ranges in any way.
Pages(from, end) ==
  {page \in SUBSET {r \in Ranges : r.offset >= from /\ End(r) <= end} :
     /\ Cardinality(page) <= Batch
     /\ Disjoint(page)
     /\ Covered(page) = changed \cap from..(end - 1)}

\* MUTANT of QueryPage: a page that is not full is taken for the last one.
QueryPageShortIsLast ==
  /\ stage = "query" /\ cursor < Size
  /\ \E end \in (cursor + 1)..Size : \E page \in Pages(cursor, end) :
       /\ found' = found \cup page
       /\ cursor' = IF Cardinality(page) < Batch THEN Size ELSE end
  /\ UNCHANGED <<changed, stage, bundle, payload, plan, at, volume>>

\* MUTANT of QueryPage: the cursor is advanced past the first block not processed.
QueryPageSkips ==
  /\ stage = "query" /\ cursor < Size
  /\ \E end \in (cursor + 1)..Size : \E page \in Pages(cursor, end) :
       /\ found' = found \cup page
       /\ cursor' = IF end < Size THEN end + 1 ELSE end
  /\ UNCHANGED <<changed, stage, bundle, payload, plan, at, volume>>

\* One turn of the loop of QueryChangedRanges, and of its twin in PowerShell.
QueryPage ==
  /\ stage = "query" /\ cursor < Size
  /\ \E end \in (cursor + 1)..Size : \E page \in Pages(cursor, end) :
       /\ found' = found \cup page
       /\ cursor' = end
  /\ UNCHANGED <<changed, stage, bundle, payload, plan, at, volume>>

\* ValidateRanges: in the order of their offsets each range ends before the next.
ValidateRanges(seq) ==
  /\ \A i \in DOMAIN seq : seq[i].length > 0 /\ End(seq[i]) <= Size
  /\ \A i \in DOMAIN seq \ {1} : seq[i].offset >= End(seq[i - 1])

\* The ranges are sorted and checked, or query fails.
QueryEnds ==
  /\ stage = "query" /\ cursor >= Size
  /\ stage' = IF ValidateRanges(InOrder(found)) THEN "pack" ELSE "refused"
  /\ UNCHANGED <<changed, cursor, found, bundle, payload, plan, at, volume>>

(* ---------------------------------- pack ----------------------------------- *)

\* MUTANT of Read: the device is read one block too far on.
ReadShifted(r) == [i \in 1..r.length |-> r.offset + i]

Read(r) == [i \in 1..r.length |-> r.offset + i - 1]

Payload(doc) == FlattenSeq([i \in DOMAIN doc |-> Read(doc[i])])

\* The ranges in the order of the document, each with where its data begins in
\* the payload and the hash of that data.
Entries(doc) ==
  [i \in DOMAIN doc |->
     [offset |-> doc[i].offset, length |-> doc[i].length,
      payload_offset |-> Len(Payload(SubSeq(doc, 1, i - 1))),
      sha256 |-> Read(doc[i])]]

\* PackRanges, build_bundle_from_raw.
Pack ==
  /\ stage = "pack"
  /\ \E doc \in (IF AnyOrder THEN SetToSeqs(found) ELSE {InOrder(found)}) :
       bundle' = [entries |-> Entries(doc), payload |-> Payload(doc)]
  /\ stage' = "send"
  /\ UNCHANGED <<changed, cursor, found, payload, plan, at, volume>>

\* The bundle is copied: intact, with one block damaged, or cut short.
Arrivals(p) ==
  {p} \cup {[p EXCEPT ![i] = Damaged] : i \in DOMAIN p}
      \cup {SubSeq(p, 1, n) : n \in 0..(Len(p) - 1)}

Send ==
  /\ stage = "send"
  /\ payload' \in Arrivals(bundle.payload)
  /\ stage' = "apply"
  /\ plan' = <<>>
  /\ at' = <<1, 0>>
  /\ UNCHANGED <<changed, cursor, found, bundle, volume>>

(* ---------------------------------- apply ---------------------------------- *)

SortEntries(entries) == InOrder(ToSet(entries))

\* apply_delta_bundle goes through the sorted ranges, and takes the data and the
\* hash of the i-th from the i-th entry of the file.
LocalPlan(entries) ==
  LET sorted == SortEntries(entries)
  IN [i \in DOMAIN entries |->
        [entries[i] EXCEPT !.offset = sorted[i].offset, !.length = sorted[i].length]]

\* remote_apply_delta.py sorts the entries themselves.
RemotePlan(entries) == SortEntries(entries)

\* MUTANT of Start: the payload is not hashed before it is used.
StartUnchecked ==
  /\ stage = "apply" /\ plan = <<>>
  /\ stage' = IF bundle.entries = <<>> THEN "done" ELSE "apply"
  /\ plan' \in {LocalPlan(bundle.entries), RemotePlan(bundle.entries)}
  /\ UNCHANGED <<changed, cursor, found, bundle, payload, at, volume>>

\* The checks before the first write, by either writer.
Start ==
  /\ stage = "apply" /\ plan = <<>>
  /\ stage' = IF payload # bundle.payload THEN "refused"
              ELSE IF bundle.entries = <<>> THEN "done" ELSE "apply"
  /\ plan' \in {LocalPlan(bundle.entries), RemotePlan(bundle.entries)}
  /\ UNCHANGED <<changed, cursor, found, bundle, payload, at, volume>>

\* One block; after the last one of a range its hash.  A hash that is wrong is
\* found when the range is already on the volume.
WriteBlock ==
  /\ stage = "apply" /\ plan # <<>>
  /\ LET i == at[1]
         r == plan[i]
         source == r.payload_offset + at[2] + 1
         last == at[2] = r.length - 1
     IN IF source > Len(payload)
          THEN stage' = "refused" /\ UNCHANGED <<at, volume>>
          ELSE /\ volume' = [volume EXCEPT ![r.offset + at[2]] = payload[source]]
               /\ at' = IF last THEN <<i + 1, 0>> ELSE <<i, at[2] + 1>>
               /\ stage' = IF last /\ SubSeq(payload, r.payload_offset + 1,
                                             r.payload_offset + r.length) # r.sha256
                             THEN "refused"
                             ELSE IF last /\ i = Len(plan) THEN "done" ELSE "apply"
  /\ UNCHANGED <<changed, cursor, found, bundle, payload, plan>>

\* The operator sends the bundle again after a refusal, or after the writer was
\* killed.
Retry ==
  /\ stage \in {"apply", "refused"} /\ bundle # NoBundle
  /\ stage' = "send"
  /\ UNCHANGED <<changed, cursor, found, bundle, payload, plan, at, volume>>

Next == QueryPage \/ QueryEnds \/ Pack \/ Send \/ Start \/ WriteBlock \/ Retry

Spec == Init /\ [][Next]_vars

(* ------------------------------- comparison -------------------------------- *)

\* Ranges as WMI may answer them, unlike the native helper: empty ones too.
RawRanges == {r \in [offset : 0..Size, length : 0..Size] : End(r) <= Size}

\* Sort-Object Offset, Length.
Precedes(r, q) == r.offset < q.offset \/ (r.offset = q.offset /\ r.length <= q.length)

\* How many of the sorted ranges come before r.
Place(seq, r) ==
  CHOOSE k \in 0..Len(seq) : /\ \A i \in 1..k : Precedes(seq[i], r)
                             /\ \A i \in (k + 1)..Len(seq) : ~Precedes(seq[i], r)

\* The sorted ranges with one more.
Insert(seq, r) == InsertAt(seq, Place(seq, r) + 1, r)

\* MUTANT of MergeRange: a range that begins in the last one is taken to end after it.
MergeRangeNoNesting(merged, r) ==
  IF r.length = 0 THEN merged
  ELSE IF merged = <<>> \/ r.offset > End(Last(merged)) THEN Append(merged, r)
  ELSE Front(merged) \o <<[Last(merged) EXCEPT !.length = End(r) - Last(merged).offset]>>

\* One turn of the loop of Merge-Ranges in rct-compare.ps1: an empty range is
\* skipped, one that begins in the last merged range, or where it ends, goes into it.
MergeRange(merged, r) ==
  IF r.length = 0 THEN merged
  ELSE IF merged = <<>> \/ r.offset > End(Last(merged)) THEN Append(merged, r)
  ELSE Front(merged) \o
       <<[Last(merged) EXCEPT !.length =
            IF End(r) > End(Last(merged)) THEN End(r) - Last(merged).offset ELSE @]>>

\* Merge-Ranges of ranges it has sorted.
Merge(seq) == FoldLeft(MergeRange, <<>>, seq)

(* -------------------------------- properties ------------------------------- *)

\* Whatever pages the query comes in, its ranges are the changed blocks, once each.
QueryExact ==
  stage \in {"pack", "send", "apply", "done"} => Covered(found) = changed /\ Disjoint(found)

\* When a writer reports success, after any number of damaged transfers and
\* killed attempts, the volume holds the source's blocks where they changed and is
\* untouched elsewhere.
AppliedExact ==
  stage = "done" => volume = [b \in Blocks |-> IF b \in changed THEN b ELSE Stale]

\* No damaged block and no block of another place is ever on the volume, not even
\* of an attempt that fails later: "the destination must reject it"
\* (docs/live-validation.md:103), "the Linux writer validates the payload hash, range
\* order/bounds, per-range hashes" (docs/native-rct.md:62).
NothingMisplaced == \A b \in Blocks : volume[b] \in {b, Stale}

\* Ranges that tell nothing new of the changed blocks: empty, repeated, nested in a
\* range of the answer or lying across several.
Redundant == {r \in RawRanges : Covered({r}) \subseteq changed}

\* rct-compare.ps1 calls two answers equivalent when they cover the same blocks:
\* merging gives the maximal runs of changed blocks, however they were cut and
\* whichever redundant ranges the answer has besides.
MergeCanonical ==
  stage = "pack" =>
    \A r, q \in Redundant :
      LET merged == Merge(Insert(Insert(InOrder(found), r), q))
      IN /\ Covered(ToSet(merged)) = changed
         /\ \A i \in DOMAIN merged \ {1} : merged[i].offset > End(merged[i - 1])
=============================================================================
