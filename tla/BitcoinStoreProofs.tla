------------------------- MODULE BitcoinStoreProofs -------------------------
(***************************************************************************)
(* Proofs about BitcoinStore, for all constants: StoreInv is an invariant  *)
(* of the store under any client.                                          *)
(***************************************************************************)
EXTENDS BitcoinStore, SequenceTheorems, TLAPS

(* Typing of what the methods write *)

\* What is left of a deadline just set, or past for every reading, is in range.
LEMMA PastType ==
    /\ Past \in Past..Lease
    /\ Past \in Past..Ttl
    /\ \A d \in 0..Lag : Lease - d \in Past..Lease /\ Ttl - d \in Past..Ttl
BY TimeAssumption DEF Past

\* The empty row has the type of rows, ...
LEMMA NoRowType == NoRow \in Row
BY PastType, TimeAssumption DEF NoRow, Row, Reply, NoReply, Past

\* ... and the stored answers that of answers.
LEMMA ReplyType == Rejected \in Reply /\ \A t \in TxIds \cup {None} : Ok(t) \in Reply
BY DEF Ok, Rejected, Reply

\* Changing the status of one record leaves a sequence of records.
LEMMA StatusChange ==
    ASSUME records \in Seq(Record), NEW i \in DOMAIN records,
           NEW s \in {"created", "prepared", "broadcast", "rejected"}
    PROVE  /\ [records EXCEPT ![i].status = s] \in Seq(Record)
           /\ DOMAIN [records EXCEPT ![i].status = s] = DOMAIN records
           /\ \A n \in DOMAIN records : [records EXCEPT ![i].status = s][n] =
                  IF n = i THEN [records[n] EXCEPT !.status = s] ELSE records[n]
<1>2. i \in 1..Len(records) /\ records[i] \in Record
  OBVIOUS
<1>1. [records[i] EXCEPT !.status = s] \in Record
  BY <1>2 DEF Record
<1>3. [records EXCEPT ![i] = [records[i] EXCEPT !.status = s]] \in Seq(Record)
  BY <1>1, <1>2, ExceptSeq
<1> QED
  BY <1>3

-----------------------------------------------------------------------------
(* One row changes *)

\* A method that writes one row, and records of its key only, keeps StoreInv if
\* the row it writes has an owner iff it is open, takes nobody else's token, and
\* agrees with the records.
LEMMA RowChange ==
    ASSUME StoreInv, NEW k \in Keys, NEW row \in Row,
           idem' = [idem EXCEPT ![k] = row],
           row.state \in Open <=> row.token # None,
           row.token # None => \A j \in Keys \ {k} : idem[j].token # row.token,
           records' \in Seq(Record), recycled' \subseteq Keys, held' \subseteq Tokens,
           DOMAIN records \subseteq DOMAIN records',
           \A n \in DOMAIN records : records[n].key # k => records'[n] = records[n],
           Agrees(k, row, records')
    PROVE  StoreInv'
<1>1. /\ idem' \in [Keys -> Row]
      /\ idem'[k] = row
      /\ \A j \in Keys \ {k} : idem'[j] = idem[j]
  BY DEF StoreInv, StoreTypeOK
<1>2. StoreTypeOK'
  BY <1>1 DEF StoreTypeOK
<1>3. OneOwner'
  BY <1>1 DEF StoreInv, OneOwner
<1>4. TablesAgree'
  <2> SUFFICES ASSUME NEW j \in Keys PROVE Agrees(j, idem'[j], records')
    BY DEF TablesAgree
  <2>1. CASE j = k
    BY <2>1, <1>1
  <2>2. CASE j # k
    <3>1. idem'[j] = idem[j] /\ Agrees(j, idem[j], records)
      BY <2>2, <1>1 DEF StoreInv, TablesAgree
    <3>2. idem[j].prepared # 0 => records'[idem[j].prepared] = records[idem[j].prepared]
      BY <2>2, <3>1 DEF Agrees
    <3> QED
      BY <3>1, <3>2 DEF Agrees
  <2> QED
    BY <2>1, <2>2
<1> QED
  BY <1>2, <1>3, <1>4 DEF StoreInv

\* What a typed row that satisfies StoreInv looks like.
LEMMA RowFacts ==
    ASSUME StoreInv, NEW k \in Keys
    PROVE  /\ idem[k] \in Row
           /\ idem[k].state \in Open <=> idem[k].token # None
           /\ \A j \in Keys : idem[j].token = idem[k].token /\ idem[k].token # None => j = k
           /\ Agrees(k, idem[k], records)
           /\ records \in Seq(Record) /\ recycled \subseteq Keys /\ held \subseteq Tokens
BY DEF StoreInv, StoreTypeOK, OneOwner, TablesAgree

-----------------------------------------------------------------------------
(* What the methods make of a row *)

\* store_response settles it, ...
LEMMA ResponseRow ==
    ASSUME idem \in [Keys -> Row], NEW k \in Keys, NEW r, NEW tok, NEW d, NEW reply,
           StoreResponse(k, r, tok, d, reply)
    PROVE  /\ \A j \in Keys \ {k} : idem'[j] = idem[j]
           /\ idem'[k].state = "SUCCEEDED" /\ idem'[k].reply = reply /\ idem'[k].token = None
           /\ idem'[k].request = idem[k].request /\ idem'[k].prepared = idem[k].prepared
<1> DEFINE row == [idem[k] EXCEPT !.state = "SUCCEEDED", !.reply = reply, !.expires = Ttl - d,
                                  !.lease = Past, !.token = None]
<1>1. idem' = [idem EXCEPT ![k] = row]
  BY DEF StoreResponse
<1>2. idem[k] \in Row
  OBVIOUS
<1>3. /\ row.state = "SUCCEEDED" /\ row.reply = reply /\ row.token = None
      /\ row.request = idem[k].request /\ row.prepared = idem[k].prepared
  BY <1>2 DEF Row
<1> HIDE DEF row
<1> QED
  BY <1>1, <1>3

\* ... save_prepared_broadcast names the new record in it, ...
LEMMA SavedRow ==
    ASSUME idem \in [Keys -> Row], NEW k \in Keys, NEW r, NEW tok, NEW t, NEW d,
           SavePrepared(k, r, tok, t, d)
    PROVE  /\ \A j \in Keys \ {k} : idem'[j] = idem[j]
           /\ idem'[k].state = "PREPARED" /\ idem'[k].prepared = Len(records) + 1
           /\ idem'[k].token = idem[k].token /\ idem'[k].request = idem[k].request
           /\ idem'[k].reply = idem[k].reply
<1> DEFINE row == [idem[k] EXCEPT !.state = "PREPARED", !.prepared = Len(records) + 1,
                                  !.payhash = t, !.lease = Lease - d]
<1>1. idem' = [idem EXCEPT ![k] = row]
  BY DEF SavePrepared
<1>2. idem[k] \in Row
  OBVIOUS
<1>3. /\ row.state = "PREPARED" /\ row.prepared = Len(records) + 1
      /\ row.token = idem[k].token /\ row.request = idem[k].request
      /\ row.reply = idem[k].reply
  BY <1>2 DEF Row
<1> HIDE DEF row
<1> QED
  BY <1>1, <1>3

\* ... and the two methods that fail it do so alike.
LEMMA FailedRow ==
    ASSUME idem \in [Keys -> Row], NEW k \in Keys, Fail(k)
    PROVE  /\ \A j \in Keys \ {k} : idem'[j] = idem[j]
           /\ idem'[k].state = "FAILED_FINAL" /\ idem'[k].reply = Rejected
           /\ idem'[k].token = None /\ idem'[k].request = idem[k].request
<1> DEFINE row == [idem[k] EXCEPT !.state = "FAILED_FINAL", !.reply = Rejected, !.lease = Past,
                                  !.token = None]
<1>1. idem' = [idem EXCEPT ![k] = row]
  BY DEF Fail
<1>2. idem[k] \in Row
  OBVIOUS
<1>3. /\ row.state = "FAILED_FINAL" /\ row.reply = Rejected
      /\ row.token = None /\ row.request = idem[k].request
  BY <1>2 DEF Row
<1> HIDE DEF row
<1> QED
  BY <1>1, <1>3

-----------------------------------------------------------------------------
(* The methods keep StoreInv *)

\* A new row belongs to its token alone and names no record.
LEMMA ClaimFreshInv ==
    ASSUME StoreInv, NEW k \in Keys, NEW r \in Requests, NEW tok \in Tokens,
           NEW d \in 0..Lag, ClaimFresh(k, r, tok, d), Unissued(tok), held' \subseteq Tokens
    PROVE  StoreInv'
<1> DEFINE row == [NoRow EXCEPT !.request = r, !.state = "CLAIMED", !.token = tok,
                                !.lease = Lease - d, !.expires = Ttl - d]
<1>1. row \in Row /\ row.state = "CLAIMED" /\ row.token = tok /\ row.prepared = 0
  BY PastType, NoRowType DEF Row, Open, NoRow
<1>2. tok # None /\ \A j \in Keys : idem[j].token # tok
  BY NoneAssumption DEF Unissued
<1>3. Agrees(k, row, records)
  BY <1>1 DEF Agrees
<1>4. idem' = [idem EXCEPT ![k] = row] /\ records' = records /\ recycled' \subseteq Keys
  BY DEF ClaimFresh, StoreInv, StoreTypeOK
<1> HIDE DEF row
<1> QED
  BY <1>1, <1>2, <1>3, <1>4, RowChange, RowFacts DEF Open

\* A takeover changes the token and the deadlines only.
LEMMA ClaimTakeoverInv ==
    ASSUME StoreInv, NEW k \in Keys, NEW r \in Requests, NEW tok \in Tokens,
           NEW d \in 0..Lag, ClaimTakeover(k, r, tok, d), Unissued(tok), held' \subseteq Tokens
    PROVE  StoreInv'
<1> DEFINE row == [idem[k] EXCEPT !.token = tok, !.lease = Lease - d, !.expires = Ttl - d]
<1>0. idem[k] \in Row /\ Agrees(k, idem[k], records)
  BY RowFacts
<1>1. row \in Row /\ row.state = idem[k].state /\ row.state \in Open /\ row.token = tok
  BY <1>0, PastType DEF Row, ClaimTakeover, CanTakeOver
<1>2. tok # None /\ \A j \in Keys : idem[j].token # tok
  BY NoneAssumption DEF Unissued
<1>3. Agrees(k, row, records)
  BY <1>0 DEF Agrees, Row
<1>4. idem' = [idem EXCEPT ![k] = row] /\ records' = records /\ recycled' = recycled
  BY DEF ClaimTakeover, StoreInv, StoreTypeOK
<1> HIDE DEF row
<1> QED
  BY <1>1, <1>2, <1>3, <1>4, RowChange, RowFacts

\* Settling with 2xx gives up the token; any live status of the record fits.
LEMMA StoreResponseInv ==
    ASSUME StoreInv, NEW k \in Keys, NEW r \in Requests, NEW tok \in Tokens, NEW d \in 0..Lag,
           NEW reply \in Reply, StoreResponse(k, r, tok, d, reply), held' \subseteq Tokens
    PROVE  StoreInv'
<1> DEFINE row == [idem[k] EXCEPT !.state = "SUCCEEDED", !.reply = reply,
                                  !.expires = Ttl - d, !.lease = Past, !.token = None]
<1>0. /\ idem[k] \in Row /\ Agrees(k, idem[k], records)
      /\ idem[k].state \in Open
  BY RowFacts, NoneAssumption DEF StoreResponse, CanStoreResponse
<1>1. /\ row \in Row /\ row.state = "SUCCEEDED" /\ row.token = None
      /\ row.prepared = idem[k].prepared /\ row.payhash = idem[k].payhash
      /\ row.request = idem[k].request
  BY <1>0, PastType DEF Row, Final
<1>3. Agrees(k, row, records)
  BY <1>0, <1>1 DEF Agrees, StatusFor, Open
<1>4. idem' = [idem EXCEPT ![k] = row] /\ records' = records /\ recycled' = recycled
  BY DEF StoreResponse, StoreInv, StoreTypeOK
<1> HIDE DEF row
<1> QED
  BY <1>1, <1>3, <1>4, RowChange, RowFacts DEF Open

\* The new record and the new pointer to it are written together.
LEMMA SavePreparedInv ==
    ASSUME StoreInv, NEW k \in Keys, NEW r \in Requests, NEW tok \in Tokens, NEW d \in 0..Lag,
           NEW t \in TxIds, SavePrepared(k, r, tok, t, d), held' \subseteq Tokens
    PROVE  StoreInv'
<1> DEFINE row == [idem[k] EXCEPT !.state = "PREPARED", !.prepared = Len(records) + 1,
                                  !.payhash = t, !.lease = Lease - d]
           rec == [kind |-> "broadcast", key |-> k, request |-> r, psbt |-> t,
                   tx |-> t, status |-> "prepared"]
<1>0. /\ idem[k] \in Row /\ records \in Seq(Record) /\ Len(records) \in Nat
      /\ idem[k].token = tok /\ idem[k].token # None /\ idem[k].request = r
  BY RowFacts, NoneAssumption DEF SavePrepared, CanSavePrepared
<1>1. /\ row \in Row /\ row.state = "PREPARED" /\ row.token = idem[k].token
      /\ row.prepared = Len(records) + 1 /\ row.payhash = t
      /\ row.request = r
  <2>1. Len(records) + 1 \in Nat /\ Lease - d \in Past..Lease
    BY <1>0, PastType
  <2> QED
    BY <1>0, <2>1 DEF Row, Open
<1>2. /\ rec \in Record
      /\ records' = Append(records, rec)
      /\ records' \in Seq(Record)
      /\ DOMAIN records' = 1..(Len(records) + 1)
      /\ records'[Len(records) + 1] = rec
      /\ \A n \in DOMAIN records : n \in DOMAIN records' /\ records'[n] = records[n]
  BY <1>0 DEF Record, SavePrepared
<1>3. Agrees(k, row, records')
  BY <1>0, <1>1, <1>2, NoneAssumption DEF Agrees, StatusFor
<1>4. idem' = [idem EXCEPT ![k] = row] /\ recycled' = recycled
  BY DEF SavePrepared, StoreInv, StoreTypeOK
<1> HIDE DEF row, rec
<1> QED
  BY <1>0, <1>1, <1>2, <1>3, <1>4, RowChange, RowFacts DEF Open

\* What UPDATE transaction_records does: only the record that row k names
\* changes, and only its status.
LEMMA SetStatusFacts ==
    ASSUME StoreInv, NEW k \in Keys, NEW s \in {"broadcast", "rejected"}, SetStatus(k, s)
    PROVE  /\ records' \in Seq(Record)
           /\ DOMAIN records' = DOMAIN records
           /\ \A n \in DOMAIN records : records'[n] =
                  IF n = idem[k].prepared THEN [records[n] EXCEPT !.status = s] ELSE records[n]
           /\ \A n \in DOMAIN records : records[n] \in Record
           /\ \A n \in DOMAIN records : records[n].key # k => records'[n] = records[n]
<1>1. records \in Seq(Record) /\ Agrees(k, idem[k], records) /\ 0 \notin DOMAIN records
  BY RowFacts
<1>2. CASE idem[k].prepared \in DOMAIN records
  <2>1. records[idem[k].prepared].key = k
    BY <1>1, <1>2 DEF Agrees
  <2>2. records' = [records EXCEPT ![idem[k].prepared].status = s]
    BY <1>2 DEF SetStatus
  <2>3. s \in {"created", "prepared", "broadcast", "rejected"}
    OBVIOUS
  <2>4. /\ records' \in Seq(Record)
        /\ DOMAIN records' = DOMAIN records
        /\ \A n \in DOMAIN records : records'[n] =
               IF n = idem[k].prepared THEN [records[n] EXCEPT !.status = s] ELSE records[n]
    BY <1>1, <1>2, <2>2, <2>3, StatusChange, Zenon
  <2> QED
    BY <1>1, <2>1, <2>4
<1>3. CASE idem[k].prepared \notin DOMAIN records
  BY <1>1, <1>3 DEF SetStatus
<1> QED
  BY <1>2, <1>3

\* The row and its record move to broadcast together.
LEMMA MarkBroadcastInv ==
    ASSUME StoreInv, NEW k \in Keys, NEW tok \in Tokens, NEW t \in TxIds, NEW d \in 0..Lag,
           MarkBroadcast(k, tok, t, d), held' \subseteq Tokens
    PROVE  StoreInv'
<1> DEFINE row == [idem[k] EXCEPT !.state = "BROADCAST", !.lease = Lease - d]
<1>0. /\ idem[k] \in Row /\ Agrees(k, idem[k], records)
      /\ idem[k].state \in {"PREPARED", "UNKNOWN", "BROADCAST"} /\ idem[k].token # None
  BY RowFacts, NoneAssumption DEF MarkBroadcast, CanMarkBroadcast
<1>1. /\ row \in Row /\ row.state = "BROADCAST" /\ row.token = idem[k].token
      /\ row.prepared = idem[k].prepared /\ row.payhash = idem[k].payhash
      /\ row.request = idem[k].request
  BY <1>0, PastType DEF Row, Open
<1>2. /\ records' \in Seq(Record) /\ DOMAIN records' = DOMAIN records
      /\ \A n \in DOMAIN records : records[n].key # k => records'[n] = records[n]
  BY SetStatusFacts DEF MarkBroadcast
<1>5. /\ \A n \in DOMAIN records : records[n] \in Record
      /\ \A n \in DOMAIN records : records'[n] =
             IF n = idem[k].prepared THEN [records[n] EXCEPT !.status = "broadcast"] ELSE records[n]
  BY SetStatusFacts DEF MarkBroadcast
<1>3. Agrees(k, row, records')
  BY <1>0, <1>1, <1>2, <1>5 DEF Agrees, StatusFor, Record
<1>4. idem' = [idem EXCEPT ![k] = row] /\ recycled' = recycled
  BY DEF MarkBroadcast, StoreInv, StoreTypeOK
<1> HIDE DEF row
<1>6. /\ row.state \in Open <=> row.token # None
      /\ row.token # None => \A j \in Keys \ {k} : idem[j].token # row.token
      /\ recycled' \subseteq Keys
  BY <1>0, <1>1, <1>4, RowFacts DEF Open
<1> QED
  BY <1>1, <1>2, <1>3, <1>4, <1>6, RowChange

\* An unknown outcome leaves the record as it is.
LEMMA MarkUnknownInv ==
    ASSUME StoreInv, NEW k \in Keys, NEW tok \in Tokens, NEW t \in TxIds, NEW d \in 0..Lag,
           MarkUnknown(k, tok, t, d), held' \subseteq Tokens
    PROVE  StoreInv'
<1> DEFINE row == [idem[k] EXCEPT !.state = "UNKNOWN", !.lease = Lease - d]
<1>0. /\ idem[k] \in Row /\ Agrees(k, idem[k], records)
      /\ idem[k].state \in {"PREPARED", "UNKNOWN", "BROADCAST"} /\ idem[k].token # None
  BY RowFacts, NoneAssumption DEF MarkUnknown, CanMarkUnknown
<1>1. /\ row \in Row /\ row.state = "UNKNOWN" /\ row.token = idem[k].token
      /\ row.prepared = idem[k].prepared /\ row.payhash = idem[k].payhash
      /\ row.request = idem[k].request
  BY <1>0, PastType DEF Row, Open
<1>3. Agrees(k, row, records)
  BY <1>0, <1>1 DEF Agrees, StatusFor
<1>4. idem' = [idem EXCEPT ![k] = row] /\ records' = records /\ recycled' = recycled
  BY DEF MarkUnknown, StoreInv, StoreTypeOK
<1> HIDE DEF row
<1> QED
  BY <1>0, <1>1, <1>3, <1>4, RowChange, RowFacts DEF Open

\* Settling a row as failed keeps StoreInv if its record, if any, is rejected.
LEMMA FailInv ==
    ASSUME StoreInv, NEW k \in Keys, idem[k].token # None, Fail(k),
           records' \in Seq(Record), recycled' \subseteq Keys, held' \subseteq Tokens,
           DOMAIN records' = DOMAIN records,
           \A n \in DOMAIN records : records[n].key # k => records'[n] = records[n],
           idem[k].prepared # 0 => records'[idem[k].prepared] =
               [records[idem[k].prepared] EXCEPT !.status = "rejected"]
    PROVE  StoreInv'
<1> DEFINE row == [idem[k] EXCEPT !.state = "FAILED_FINAL", !.reply = Rejected,
                                  !.lease = Past, !.token = None]
<1>0. /\ idem[k] \in Row /\ Agrees(k, idem[k], records)
      /\ \A n \in DOMAIN records : records[n] \in Record
  BY RowFacts
<1>1. /\ row \in Row /\ row.state = "FAILED_FINAL" /\ row.token = None
      /\ row.prepared = idem[k].prepared /\ row.payhash = idem[k].payhash
      /\ row.request = idem[k].request
  BY <1>0, PastType, ReplyType DEF Row, Final
<1>3. Agrees(k, row, records')
  BY <1>0, <1>1 DEF Agrees, StatusFor, Record
<1>4. idem' = [idem EXCEPT ![k] = row]
  BY DEF Fail, StoreInv, StoreTypeOK
<1> HIDE DEF row
<1> QED
  BY <1>1, <1>3, <1>4, RowChange, RowFacts DEF Open

\* Failing a claim that prepared nothing touches no record.
LEMMA MarkFailedInv ==
    ASSUME StoreInv, NEW k \in Keys, NEW tok \in Tokens, MarkFailed(k, tok),
           held' \subseteq Tokens
    PROVE  StoreInv'
<1>1. idem[k].prepared = 0 /\ idem[k].token # None
  BY RowFacts, NoneAssumption DEF MarkFailed, CanMarkFailed, Agrees
<1> QED
  BY <1>1, FailInv, RowFacts DEF MarkFailed

\* The row and its record fail together.
LEMMA MarkPreparedFailedInv ==
    ASSUME StoreInv, NEW k \in Keys, NEW tok \in Tokens, MarkPreparedFailed(k, tok),
           held' \subseteq Tokens
    PROVE  StoreInv'
<1>1. idem[k].token # None /\ Agrees(k, idem[k], records) /\ recycled' \subseteq Keys
  BY RowFacts, NoneAssumption DEF MarkPreparedFailed, CanMarkPreparedFailed
<1>2. /\ records' \in Seq(Record) /\ DOMAIN records' = DOMAIN records
      /\ \A n \in DOMAIN records : records[n].key # k => records'[n] = records[n]
      /\ \A n \in DOMAIN records : records'[n] =
             IF n = idem[k].prepared THEN [records[n] EXCEPT !.status = "rejected"] ELSE records[n]
  BY SetStatusFacts DEF MarkPreparedFailed
<1> QED
  BY <1>1, <1>2, FailInv DEF MarkPreparedFailed, Agrees

\* A heartbeat renews one lease.
LEMMA HeartbeatInv ==
    ASSUME StoreInv, NEW k \in Keys, NEW tok \in Tokens, NEW d \in 0..Lag,
           HeartbeatClaim(k, tok, d), held' \subseteq Tokens
    PROVE  StoreInv'
<1> DEFINE row == [idem[k] EXCEPT !.lease = Lease - d]
<1>0. idem[k] \in Row /\ Agrees(k, idem[k], records)
  BY RowFacts
<1>1. /\ row \in Row /\ row.state = idem[k].state /\ row.token = idem[k].token
      /\ row.prepared = idem[k].prepared /\ row.payhash = idem[k].payhash
      /\ row.request = idem[k].request
  BY <1>0, PastType DEF Row
<1>3. Agrees(k, row, records)
  BY <1>0, <1>1 DEF Agrees
<1>4. idem' = [idem EXCEPT ![k] = row] /\ records' = records /\ recycled' = recycled
  BY DEF HeartbeatClaim, StoreInv, StoreTypeOK
<1> HIDE DEF row
<1> QED
  BY <1>1, <1>3, <1>4, RowChange, RowFacts

\* A PSBT record is one that no row names.
LEMMA RecordPsbtInv ==
    ASSUME StoreInv, NEW k \in Keys \cup {None}, NEW r \in Requests, NEW t \in TxIds,
           RecordPsbt(k, r, t), held' \subseteq Tokens
    PROVE  StoreInv'
<1> DEFINE rec == [kind |-> "psbt", key |-> k, request |-> r,
                   psbt |-> t, tx |-> None, status |-> "created"]
<1>1. /\ records \in Seq(Record) /\ rec \in Record
      /\ records' = Append(records, rec) /\ idem' = idem /\ recycled' = recycled
  BY DEF RecordPsbt, Record, StoreInv, StoreTypeOK
<1>2. /\ records' \in Seq(Record)
      /\ \A n \in DOMAIN records : n \in DOMAIN records' /\ records'[n] = records[n]
  BY <1>1
<1> HIDE DEF rec
<1>3. TablesAgree'
  BY <1>1, <1>2 DEF StoreInv, TablesAgree, Agrees
<1> QED
  BY <1>1, <1>2, <1>3 DEF StoreInv, StoreTypeOK, OneOwner

\* Rows disappear; records stay.
LEMMA PruneInv ==
    ASSUME StoreInv, NEW d \in 0..Lag, PruneExpired(d)
    PROVE  StoreInv'
<1>1. /\ idem' \in [Keys -> Row]
      /\ \A k \in Keys : idem'[k] = NoRow \/ idem'[k] = idem[k]
      /\ records' = records /\ held' = held /\ recycled' \subseteq Keys
  BY NoRowType DEF PruneExpired, StoreInv, StoreTypeOK
<1>2. OneOwner'
  BY <1>1 DEF StoreInv, OneOwner, NoRow, Open
<1>3. TablesAgree'
  BY <1>1 DEF StoreInv, TablesAgree, Agrees, NoRow
<1> QED
  BY <1>1, <1>2, <1>3 DEF StoreInv, StoreTypeOK

\* One unit less of a deadline is still one.
LEMMA LessType ==
    /\ \A n \in Past..Lease : Less(n) \in Past..Lease
    /\ \A n \in Past..Ttl : Less(n) \in Past..Ttl
BY TimeAssumption DEF Less, Past

\* Time takes from leases and rows only.
LEMMA TickInv ==
    ASSUME StoreInv, Tick
    PROVE  StoreInv'
<1>1. \A k \in Keys : idem[k] \in Row
  BY DEF StoreInv, StoreTypeOK
<1>2. /\ DOMAIN idem' = Keys
      /\ \A k \in Keys : idem'[k] = [idem[k] EXCEPT !.lease = Less(@), !.expires = Less(@)]
      /\ idem' = [k \in Keys |-> idem'[k]]
      /\ records' = records /\ held' = held /\ recycled' = recycled
  BY DEF Tick
<1>3. \A k \in Keys :
        /\ idem'[k] \in Row
        /\ idem'[k].state = idem[k].state /\ idem'[k].token = idem[k].token
        /\ idem'[k].prepared = idem[k].prepared /\ idem'[k].payhash = idem[k].payhash
        /\ idem'[k].request = idem[k].request
  <2> TAKE k \in Keys
  <2>1. Less(idem[k].lease) \in Past..Lease /\ Less(idem[k].expires) \in Past..Ttl
    BY <1>1, LessType DEF Row
  <2>2. idem'[k] = [idem[k] EXCEPT !.lease = Less(idem[k].lease),
                                   !.expires = Less(idem[k].expires)]
    BY <1>2
  <2>3. idem[k] \in Row
    BY <1>1
  <2> QED
    BY <2>1, <2>2, <2>3 DEF Row
<1>4. StoreTypeOK'
  BY <1>2, <1>3 DEF StoreInv, StoreTypeOK
<1>5. OneOwner'
  BY <1>3 DEF StoreInv, OneOwner
<1>6. TablesAgree'
  <2> SUFFICES ASSUME NEW k \in Keys PROVE Agrees(k, idem'[k], records')
    BY DEF TablesAgree
  <2>1. Agrees(k, idem[k], records) /\ records' = records
    BY <1>2 DEF StoreInv, TablesAgree
  <2> QED
    BY <1>3, <2>1 DEF Agrees
<1> QED
  BY <1>4, <1>5, <1>6 DEF StoreInv

-----------------------------------------------------------------------------
(* The invariant of the store *)

\* Initially there is neither row nor record.
LEMMA StoreInitInv == StoreInit => StoreInv
<1> SUFFICES ASSUME StoreInit PROVE StoreInv
  OBVIOUS
<1>1. StoreTypeOK
  BY NoRowType DEF StoreInit, StoreTypeOK
<1>2. OneOwner
  BY DEF StoreInit, OneOwner, NoRow, Open
<1>3. TablesAgree
  BY DEF StoreInit, TablesAgree, Agrees, NoRow
<1> QED
  BY <1>1, <1>2, <1>3 DEF StoreInv

\* Either way to claim a key keeps the invariant ...
LEMMA ClaimInv ==
    ASSUME StoreInv, NEW k \in Keys, NEW r \in Requests, NEW tok \in Tokens, NEW d \in 0..Lag,
           Claim(k, r, tok, d), held' \subseteq Tokens
    PROVE  StoreInv'
BY ClaimFreshInv, ClaimTakeoverInv DEF Claim

\* ... and so does everything a holder of a token may call.
LEMMA OwnedInv ==
    ASSUME StoreInv, NEW k \in Keys, NEW tok \in Tokens, NEW d \in 0..Lag,
           Owned(k, tok, d), held' \subseteq Tokens
    PROVE  StoreInv'
<1>1. ASSUME NEW r \in Requests, NEW t \in TxIds \cup {None}, StoreResponse(k, r, tok, d, Ok(t))
      PROVE  StoreInv'
  BY <1>1, StoreResponseInv, ReplyType
<1>2. ASSUME NEW r \in Requests, NEW t \in TxIds, SavePrepared(k, r, tok, t, d)
      PROVE  StoreInv'
  BY <1>2, SavePreparedInv
<1>3. ASSUME NEW r \in Requests, NEW t \in TxIds, RecordPsbt(k, r, t)
      PROVE  StoreInv'
  BY <1>3, RecordPsbtInv
<1>4. ASSUME NEW t \in TxIds, MarkBroadcast(k, tok, t, d) \/ MarkUnknown(k, tok, t, d)
      PROVE  StoreInv'
  BY <1>4, MarkBroadcastInv, MarkUnknownInv
<1>5. ASSUME MarkFailed(k, tok) \/ MarkPreparedFailed(k, tok) \/ HeartbeatClaim(k, tok, d)
      PROVE  StoreInv'
  BY <1>5, MarkFailedInv, MarkPreparedFailedInv, HeartbeatInv
<1> QED
  BY <1>1, <1>2, <1>3, <1>4, <1>5 DEF Owned

\* StoreInv is inductive.
LEMMA StoreStepInv == StoreInv /\ [StoreNext]_storeVars => StoreInv'
<1> SUFFICES ASSUME StoreInv, [StoreNext]_storeVars PROVE StoreInv'
  OBVIOUS
<1>0. held \subseteq Tokens
  BY DEF StoreInv, StoreTypeOK
<1>1. ASSUME NEW k \in Keys, NEW r \in Requests, NEW tok \in Tokens, NEW d \in 0..Lag,
             Claim(k, r, tok, d), held' = held \cup {tok}
      PROVE  StoreInv'
  <2>1. held' \subseteq Tokens
    BY <1>0, <1>1
  <2> QED
    BY <1>1, <2>1, ClaimInv
<1>2. ASSUME NEW k \in Keys, NEW tok \in held, NEW d \in 0..Lag, Owned(k, tok, d), Keeps(tok)
      PROVE  StoreInv'
  <2>1. held' \subseteq Tokens /\ tok \in Tokens
    BY <1>0, <1>2 DEF Keeps
  <2> QED
    BY <1>2, <2>1, OwnedInv
<1>3. ASSUME NEW tok \in held, Release(tok)
      PROVE  StoreInv'
  BY <1>3 DEF Release, StoreInv, StoreTypeOK, OneOwner, TablesAgree
<1>4. ASSUME NEW d \in 0..Lag, PruneExpired(d)
      PROVE  StoreInv'
  BY <1>4, PruneInv
<1>5. CASE Tick
  BY <1>5, TickInv
<1>6. CASE UNCHANGED storeVars
  BY <1>6 DEF storeVars, StoreInv, StoreTypeOK, OneOwner, TablesAgree
<1>7. ASSUME NEW r \in Requests, NEW t \in TxIds, Keyless(r, t)
      PROVE  StoreInv'
  BY <1>0, <1>7, RecordPsbtInv DEF Keyless
<1> QED
  BY <1>1, <1>2, <1>3, <1>4, <1>5, <1>6, <1>7 DEF StoreNext

\* The columns keep their types, every open row has exactly one owner, and the
\* two tables agree, whatever the callers of CohesionStore do and however their
\* clocks lag.
THEOREM StoreInvariant == StoreSpec => []StoreInv
BY StoreInitInv, StoreStepInv, PTL DEF StoreSpec

\* Its parts, each checked by the runs: the types ...
THEOREM StoreTypeCorrect == StoreSpec => []StoreTypeOK
BY StoreInvariant, PTL DEF StoreInv

\* ... one owner for each open row, none for a settled one ...
THEOREM OneOwnerCorrect == StoreSpec => []OneOwner
BY StoreInvariant, PTL DEF StoreInv

\* ... and a prepared record of its own for each row that names one.
THEOREM TablesAgreeCorrect == StoreSpec => []TablesAgree
BY StoreInvariant, PTL DEF StoreInv

-----------------------------------------------------------------------------
(* What a step may never do *)

\* A second that passes changes nothing but what is left of the deadlines.
LEMMA TickFields ==
  ASSUME StoreInv, Tick, NEW k \in Keys
  PROVE  \A f \in {"request", "state", "token", "prepared", "reply"} :
             idem'[k][f] = idem[k][f]
<1>1. idem[k] \in Row
  BY DEF StoreInv, StoreTypeOK
<1>2. idem'[k] = [idem[k] EXCEPT !.lease = Less(@), !.expires = Less(@)]
  BY DEF Tick
<1>3. /\ idem'[k].request = idem[k].request
      /\ idem'[k].state = idem[k].state
      /\ idem'[k].token = idem[k].token
      /\ idem'[k].prepared = idem[k].prepared
      /\ idem'[k].reply = idem[k].reply
  BY <1>1, <1>2 DEF Row
<1> QED
  BY <1>3

\* Who changes the token of a row: a claim that found it vacant or its lease past,
\* or the holder that settles it, or the pruning of an expired row.
LEMMA LiveClaimStepHolds == StoreInv /\ StoreNext => LiveClaimStep
<1> SUFFICES ASSUME StoreInv, StoreNext, NEW k \in Keys,
                    idem[k].token # None, idem[k].lease > 0, idem[k].expires > 0
             PROVE  \/ idem'[k].token = idem[k].token
                    \/ idem'[k].token = None /\ idem'[k].state \in Final
  BY DEF LiveClaimStep
<1> DEFINE Kept == \/ idem'[k].token = idem[k].token
                   \/ idem'[k].token = None /\ idem'[k].state \in Final
<1>0. /\ idem \in [Keys -> Row]
      /\ idem[k] \in Row /\ idem[k].lease \in Int /\ idem[k].expires \in Int
      /\ idem[k].state \in Open
  BY TimeAssumption DEF StoreInv, StoreTypeOK, OneOwner, Row, Past
<1>1. ASSUME NEW j \in Keys, NEW r \in Requests, NEW tok \in Tokens, NEW d \in 0..Lag,
             Claim(j, r, tok, d)
      PROVE  idem'[k].token = idem[k].token
  BY <1>0, <1>1, TimeAssumption
     DEF Claim, ClaimFresh, ClaimTakeover, Vacant, CanTakeOver, Open
<1>2. ASSUME NEW j \in Keys, NEW tok \in held, NEW d \in 0..Lag, Owned(j, tok, d)
      PROVE  Kept
  <2>1. ASSUME NEW r \in Requests, NEW reply, StoreResponse(j, r, tok, d, reply)
        PROVE  Kept
    BY <1>0, <2>1 DEF StoreResponse, Final
  <2>2. ASSUME NEW r \in Requests, NEW t \in TxIds, SavePrepared(j, r, tok, t, d)
        PROVE  Kept
    BY <1>0, <2>2 DEF SavePrepared
  <2>3. ASSUME NEW t \in TxIds, MarkBroadcast(j, tok, t, d)
        PROVE  Kept
    BY <1>0, <2>3 DEF MarkBroadcast
  <2>4. ASSUME NEW t \in TxIds, MarkUnknown(j, tok, t, d)
        PROVE  Kept
    BY <1>0, <2>4 DEF MarkUnknown
  <2>5. ASSUME MarkFailed(j, tok) \/ MarkPreparedFailed(j, tok)
        PROVE  Kept
    <3>1. Fail(j)
      BY <2>5 DEF MarkFailed, MarkPreparedFailed
    <3> QED
      BY <1>0, <3>1 DEF Fail, Final
  <2>6. ASSUME HeartbeatClaim(j, tok, d)
        PROVE  Kept
    BY <1>0, <2>6 DEF HeartbeatClaim
  <2>7. ASSUME NEW r \in Requests, NEW t \in TxIds, RecordPsbt(j, r, t)
        PROVE  Kept
    BY <2>7 DEF RecordPsbt
  <2> HIDE DEF Kept
  <2> QED
    BY <1>2, <2>1, <2>2, <2>3, <2>4, <2>5, <2>6, <2>7 DEF Owned
<1>3. ASSUME NEW d \in 0..Lag, PruneExpired(d)
      PROVE  idem'[k].token = idem[k].token
  BY <1>0, <1>3, TimeAssumption DEF PruneExpired, Expired
<1>4. ASSUME Tick
      PROVE  idem'[k].token = idem[k].token
  BY <1>4, TickFields
<1>5. ASSUME NEW tok \in held, Release(tok)
      PROVE  idem'[k].token = idem[k].token
  BY <1>5 DEF Release
<1>6. ASSUME NEW r \in Requests, NEW t \in TxIds, Keyless(r, t)
      PROVE  idem'[k].token = idem[k].token
  BY <1>6 DEF Keyless, RecordPsbt
<1> QED
  BY <1>1, <1>2, <1>3, <1>4, <1>5, <1>6 DEF StoreNext

\* No claim is displaced while its lease and its row are unexpired, for any
\* lease, TTL and lag of the clocks.
THEOREM LiveClaimsKept == StoreSpec => LiveClaimKept
BY StoreInvariant, LiveClaimStepHolds, PTL DEF StoreSpec, LiveClaimKept

\* What every method leaves of an unexpired row.
LEMMA KeyStepHolds == StoreInv /\ StoreNext => KeyStep
<1> SUFFICES ASSUME StoreInv, StoreNext, NEW k \in Keys,
                    idem[k].state # "ABSENT", idem[k].expires > 0
             PROVE  /\ idem'[k].request = idem[k].request
                    /\ idem[k].prepared # 0 => idem'[k].prepared = idem[k].prepared
                    /\ idem[k].state \in Final =>
                           /\ idem'[k].state = idem[k].state
                           /\ idem'[k].reply = idem[k].reply
  BY DEF KeyStep
<1> DEFINE Kept == /\ idem'[k].request = idem[k].request
                   /\ idem[k].prepared # 0 => idem'[k].prepared = idem[k].prepared
                   /\ idem[k].state \in Final =>
                          /\ idem'[k].state = idem[k].state
                          /\ idem'[k].reply = idem[k].reply
<1>0. /\ idem \in [Keys -> Row] /\ held \subseteq Tokens
      /\ idem[k] \in Row /\ idem[k].expires \in Int
      /\ idem[k].state \in Final => idem[k].token = None
  BY TimeAssumption DEF StoreInv, StoreTypeOK, OneOwner, Row, Past, Open, Final
<1>1. ASSUME NEW j \in Keys, NEW r \in Requests, NEW tok \in Tokens, NEW d \in 0..Lag,
             Claim(j, r, tok, d)
      PROVE  Kept
  <2>1. CASE ClaimFresh(j, r, tok, d)
    <3>1. j # k
      BY <1>0, <2>1, TimeAssumption DEF ClaimFresh, Vacant
    <3> QED
      BY <1>0, <2>1, <3>1 DEF ClaimFresh
  <2>2. CASE ClaimTakeover(j, r, tok, d)
    BY <1>0, <2>2 DEF ClaimTakeover, Row
  <2> QED
    BY <1>1, <2>1, <2>2 DEF Claim
<1>2. ASSUME NEW j \in Keys, NEW tok \in held, NEW d \in 0..Lag, Owned(j, tok, d)
      PROVE  Kept
  <2>0. tok # None
    BY <1>0, NoneAssumption
  <2>1. ASSUME NEW r \in Requests, NEW reply, StoreResponse(j, r, tok, d, reply)
        PROVE  Kept
    BY <1>0, <2>0, <2>1 DEF StoreResponse, CanStoreResponse
  <2>2. ASSUME NEW r \in Requests, NEW t \in TxIds, SavePrepared(j, r, tok, t, d)
        PROVE  Kept
    BY <1>0, <2>0, <2>2 DEF SavePrepared, CanSavePrepared
  <2>3. ASSUME NEW t \in TxIds, MarkBroadcast(j, tok, t, d)
        PROVE  Kept
    <3>1. j = k => idem[k].state \notin Final
      BY <2>3 DEF MarkBroadcast, CanMarkBroadcast, Final
    <3> QED
      BY <1>0, <2>3, <3>1 DEF MarkBroadcast, Row
  <2>7. ASSUME NEW t \in TxIds, MarkUnknown(j, tok, t, d)
        PROVE  Kept
    <3>1. j = k => idem[k].state \notin Final
      BY <2>7 DEF MarkUnknown, CanMarkUnknown, Final
    <3> QED
      BY <1>0, <2>7, <3>1 DEF MarkUnknown, Row
  <2>4. ASSUME MarkFailed(j, tok) \/ MarkPreparedFailed(j, tok)
        PROVE  Kept
    <3>1. Fail(j) /\ (j = k => idem[k].state \notin Final)
      BY <2>4 DEF MarkFailed, MarkPreparedFailed, CanMarkFailed, CanMarkPreparedFailed, Final
    <3> QED
      BY <1>0, <3>1 DEF Fail, Row
  <2>5. ASSUME HeartbeatClaim(j, tok, d)
        PROVE  Kept
    BY <1>0, <2>5 DEF HeartbeatClaim
  <2>6. ASSUME NEW r \in Requests, NEW t \in TxIds, RecordPsbt(j, r, t)
        PROVE  Kept
    BY <2>6 DEF RecordPsbt
  <2> QED
    BY <1>2, <2>1, <2>2, <2>3, <2>4, <2>5, <2>6, <2>7 DEF Owned
<1>3. ASSUME NEW d \in 0..Lag, PruneExpired(d)
      PROVE  Kept
  BY <1>0, <1>3, TimeAssumption DEF PruneExpired, Expired
<1>4. ASSUME Tick
      PROVE  Kept
  BY <1>4, TickFields
<1>5. ASSUME NEW tok \in held, Release(tok)
      PROVE  Kept
  BY <1>5 DEF Release
<1>6. ASSUME NEW r \in Requests, NEW t \in TxIds, Keyless(r, t)
      PROVE  Kept
  BY <1>6 DEF Keyless, RecordPsbt
<1> QED
  BY <1>1, <1>2, <1>3, <1>4, <1>5, <1>6 DEF StoreNext

\* Replays agree: until its row expires a key keeps its request, its prepared
\* transaction and its answer.
THEOREM KeysKept == StoreSpec => KeyKept
BY StoreInvariant, KeyStepHolds, PTL DEF StoreSpec, KeyKept

\* What every method leaves of a record.
LEMMA RecordsStepHolds == StoreInv /\ StoreNext => RecordsStep
<1> SUFFICES ASSUME StoreInv, StoreNext, NEW i \in DOMAIN records
             PROVE  /\ i \in DOMAIN records'
                    /\ records'[i] = [records[i] EXCEPT !.status = records'[i].status]
                    /\ records'[i].status \in StatusMoves(records[i].status)
  BY DEF RecordsStep
<1> DEFINE Kept == /\ i \in DOMAIN records'
                   /\ records'[i] = [records[i] EXCEPT !.status = records'[i].status]
                   /\ records'[i].status \in StatusMoves(records[i].status)
<1>0. records \in Seq(Record) /\ records[i] \in Record /\ held \subseteq Tokens
  BY DEF StoreInv, StoreTypeOK
<1>a. ASSUME records'[i] = records[i], i \in DOMAIN records'
      PROVE  Kept
  BY <1>0, <1>a DEF StatusMoves, Record
<1>b. ASSUME NEW j \in Keys, NEW s \in {"broadcast", "rejected"}, SetStatus(j, s),
             idem[j].state \in {"PREPARED", "UNKNOWN", "BROADCAST"}
      PROVE  Kept
  <2>1. Agrees(j, idem[j], records)
    BY RowFacts
  <2>2. /\ i \in DOMAIN records'
        /\ records'[i] = IF i = idem[j].prepared THEN [records[i] EXCEPT !.status = s]
                                                 ELSE records[i]
    BY <1>b, SetStatusFacts
  <2>3. CASE i = idem[j].prepared
    <3>1. records[i].status \in {"prepared", "broadcast"} /\ records'[i].status = s
      BY <1>0, <1>b, <2>1, <2>2, <2>3 DEF Agrees, StatusFor, Record
    <3> QED
      BY <1>0, <1>b, <2>2, <2>3, <3>1 DEF StatusMoves, Record
  <2> QED
    BY <2>2, <2>3, <1>a
<1>1. ASSUME NEW j \in Keys, NEW tok \in held, NEW d \in 0..Lag, Owned(j, tok, d)
      PROVE  Kept
  <2>1. ASSUME NEW t \in TxIds, MarkBroadcast(j, tok, t, d)
        PROVE  Kept
    BY <2>1, <1>b DEF MarkBroadcast, CanMarkBroadcast
  <2>2. ASSUME MarkPreparedFailed(j, tok)
        PROVE  Kept
    BY <2>2, <1>b DEF MarkPreparedFailed, CanMarkPreparedFailed
  <2>3. ASSUME UNCHANGED records
        PROVE  Kept
    BY <2>3, <1>a
  <2>4. ASSUME NEW rec, records' = Append(records, rec)
        PROVE  Kept
    BY <1>0, <2>4, <1>a
  <2> QED
    BY <1>1, <2>1, <2>2, <2>3, <2>4 DEF Owned, StoreResponse, SavePrepared, RecordPsbt,
       MarkUnknown, MarkFailed, HeartbeatClaim
<1>2. ASSUME UNCHANGED records
      PROVE  Kept
  BY <1>2, <1>a
<1>3. ASSUME NEW r \in Requests, NEW t \in TxIds, Keyless(r, t)
      PROVE  Kept
  BY <1>0, <1>3, <1>a DEF Keyless, RecordPsbt
<1>4. ASSUME NEW k, NEW r, NEW tok, NEW d, Claim(k, r, tok, d)
      PROVE  Kept
  BY <1>2, <1>4 DEF Claim, ClaimFresh, ClaimTakeover
<1>5. ASSUME NEW d, PruneExpired(d) \/ Tick
      PROVE  Kept
  BY <1>2, <1>5 DEF PruneExpired, Tick
<1>6. ASSUME NEW tok, Release(tok)
      PROVE  Kept
  BY <1>2, <1>6 DEF Release
<1> HIDE DEF Kept
<1> QED
  BY <1>1, <1>3, <1>4, <1>5, <1>6 DEF StoreNext, Kept

\* transaction_records only grows, and only the status of a prepared
\* transaction ever moves, never back from rejected.
THEOREM RecordsLogged == StoreSpec => RecordsKept
BY StoreInvariant, RecordsStepHolds, PTL DEF StoreSpec, RecordsKept

=============================================================================
