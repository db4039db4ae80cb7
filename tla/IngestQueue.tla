----------------------------- MODULE IngestQueue -----------------------------
(***************************************************************************)
(* The path of a WhatsApp message into the `messages` collection:          *)
(* handleIngest and ingestExternalEvent on one goroutine per delivery, the *)
(* bounded queue (ingest.go), its one consumer, the bulk upsert, what      *)
(* follows a flush, and the worker's shutdown (main.go).                   *)
(*                                                                         *)
(* The bridge delivers a message once or, after a reconnect, again. Its    *)
(* attachment is uploaded before the row exists, with an outcome of its    *)
(* own each time; the row gets the status when it is created and the rest  *)
(* (the object's key) from a goroutine nobody waits for.                   *)
(***************************************************************************)
EXTENDS Naturals, FiniteSets, Sequences

CONSTANTS
  Deliveries, (* what the bridge posts                                     *)
  Messages,   (* the messages' identities                                  *)
  MessageOf,  (* the message of each delivery                              *)
  WithMedia,  (* the messages with an attachment                           *)
  Size,       (* the queue's capacity                                      *)
  FlushMax    (* INGEST_FLUSH_MAX                                          *)

ASSUME IngestAssumption ==
  /\ MessageOf \in [Deliveries -> Messages]
  /\ WithMedia \subseteq Messages
  /\ Size \in Nat \ {0}
  /\ FlushMax \in Nat \ {0}

Outcomes == {"none", "stored", "failed"}

VARIABLES
  proc,     (* the process: up, leaving (ctx is done) or exited            *)
  at,       (* per delivery: where its handler stands                      *)
  outcome,  (* per delivery: what became of its attachment                 *)
  ch,       (* the channel                                                 *)
  stopped,  (* closed to producers                                         *)
  run,      (* where the consumer stands                                   *)
  final,    (* its flush is the last one                                   *)
  batch,    (* the consumer's batch                                        *)
  created,  (* the deliveries the last Save says are new                   *)
  row,      (* the messages collection                                     *)
  tally,    (* the messagesIn counter, by message                          *)
  dropped,  (* the dropped counter, by delivery                            *)
  written,  (* the deliveries MongoDB applied                              *)
  jobs      (* goroutines of recordSaved, by what they have left to do     *)

qVars == <<ch, stopped, batch>>
dbVars == <<row, tally, written>>
vars == <<proc, at, outcome, run, final, created, dropped, jobs, qVars, dbVars>>

NoRow == [exists |-> FALSE, media |-> "none", key |-> FALSE]

Elements(s) == {s[i] : i \in DOMAIN s}

Init ==
  /\ proc = "up"
  /\ at = [d \in Deliveries |-> "none"]
  /\ outcome = [d \in Deliveries |-> "none"]
  /\ ch = <<>> /\ stopped = FALSE /\ batch = <<>>
  /\ run = "select" /\ final = FALSE /\ created = {}
  /\ row = [m \in Messages |-> NoRow]
  /\ tally = [m \in Messages |-> 0]
  /\ dropped = {} /\ written = {} /\ jobs = {}

-----------------------------------------------------------------------------
(* A delivery's handler.                                                   *)

Arrive(d) ==
  /\ proc = "up"
  /\ at[d] = "none"
  /\ at' = [at EXCEPT ![d] = "arrived"]
  /\ UNCHANGED <<proc, outcome, run, final, created, dropped, jobs, qVars, dbVars>>

(* The queue is asked first; 503 if it is closed.                          *)
CheckStopped(d) ==
  /\ proc # "exited"
  /\ at[d] = "arrived"
  /\ at' = [at EXCEPT ![d] = IF stopped THEN "refused" ELSE "storing"]
  /\ UNCHANGED <<proc, outcome, run, final, created, dropped, jobs, qVars, dbVars>>

(* storeMedia: the attachment is in the bucket, or its record says why not. *)
StoreMedia(d, o) ==
  /\ proc # "exited"
  /\ at[d] = "storing"
  /\ (o # "none") <=> (MessageOf[d] \in WithMedia)
  /\ outcome' = [outcome EXCEPT ![d] = o]
  /\ at' = [at EXCEPT ![d] = "mapped"]
  /\ UNCHANGED <<proc, run, final, created, dropped, jobs, qVars, dbVars>>

(* Enqueue, under the queue's lock; 202 whatever it did.                   *)
Enqueue(d) ==
  /\ proc # "exited"
  /\ at[d] = "mapped"
  /\ at' = [at EXCEPT ![d] = "accepted"]
  /\ \/ /\ ~stopped /\ Len(ch) < Size
        /\ ch' = Append(ch, d)
        /\ UNCHANGED dropped
     \/ /\ stopped \/ Len(ch) = Size
        /\ dropped' = dropped \cup {d}
        /\ UNCHANGED ch
  /\ UNCHANGED <<proc, outcome, run, final, created, jobs, stopped, batch, dbVars>>

-----------------------------------------------------------------------------
(* The consumer.                                                           *)

Receive ==
  /\ run = "select" /\ ch # <<>>
  /\ ch' = Tail(ch)
  /\ batch' = Append(batch, Head(ch))
  /\ run' = IF Len(batch) + 1 >= FlushMax THEN "flush" ELSE "select"
  /\ UNCHANGED <<proc, at, outcome, final, created, dropped, jobs, stopped, dbVars>>

(* Mutant of Tick: a batch waits until it is full.                         *)
TickWhenFull ==
  /\ run = "select" /\ Len(batch) >= FlushMax
  /\ run' = "flush"
  /\ UNCHANGED <<proc, at, outcome, final, created, dropped, jobs, qVars, dbVars>>

Tick ==
  /\ run = "select" /\ batch # <<>>
  /\ run' = "flush"
  /\ UNCHANGED <<proc, at, outcome, final, created, dropped, jobs, qVars, dbVars>>

(* Mutant of Stop: the channel is emptied and not closed.                  *)
StopOpen ==
  /\ run = "select" /\ proc = "leaving"
  /\ batch' = batch \o ch /\ ch' = <<>>
  /\ final' = TRUE
  /\ run' = IF batch' = <<>> THEN "done" ELSE "flush"
  /\ UNCHANGED <<proc, at, outcome, created, dropped, jobs, stopped, dbVars>>

(* ctx is done: stop(), under the queue's lock, and the last flush.        *)
Stop ==
  /\ run = "select" /\ proc = "leaving"
  /\ stopped' = TRUE
  /\ batch' = batch \o ch /\ ch' = <<>>
  /\ final' = TRUE
  /\ run' = IF batch' = <<>> THEN "done" ELSE "flush"
  /\ UNCHANGED <<proc, at, outcome, created, dropped, jobs, dbVars>>

(* The first document of the batch among W for a message.                  *)
FirstOf(W, m) ==
  CHOOSE i \in DOMAIN batch :
    /\ batch[i] \in W /\ MessageOf[batch[i]] = m
    /\ \A j \in 1..(i - 1) : ~(batch[j] \in W /\ MessageOf[batch[j]] = m)

(* Upserts on the identity: the first one creates the row, with the status *)
(* of its own attachment and no key ($setOnInsert); the others leave these *)
(* fields alone.                                                           *)
Upserted(W) ==
  [m \in Messages |->
     IF row[m].exists \/ ~\E d \in W : MessageOf[d] = m THEN row[m]
     ELSE [exists |-> TRUE, media |-> outcome[batch[FirstOf(W, m)]], key |-> FALSE]]

(* Mutant of Created: everything that went in.                             *)
CreatedAll(W) == W

(* UpsertedIDs: per message that was not there, the first of the batch.    *)
Created(W) ==
  {d \in W : /\ ~row[MessageOf[d]].exists
             /\ \E i \in DOMAIN batch : /\ batch[i] = d
                  /\ \A j \in 1..(i - 1) : MessageOf[batch[j]] # MessageOf[d]}

Save ==
  /\ run = "flush"
  /\ row' = Upserted(Elements(batch))
  /\ written' = written \cup Elements(batch)
  /\ created' = Created(Elements(batch))
  /\ run' = "stored"
  /\ UNCHANGED <<proc, at, outcome, final, dropped, jobs, tally, qVars>>

AfterFlush == IF final THEN "done" ELSE "select"

(* externalStoredMedia: a document whose attachment came to something.     *)
Observed(d) == outcome[d] # "none"

(* The goroutine of recordSaved for the batch, redeliveries included, if   *)
(* it has anything to record.                                              *)
JobsWithBatch ==
  IF \E d \in Elements(batch) : Observed(d) THEN jobs \cup {batch} ELSE jobs

(* One document is rejected, the deadline passes or the answer is lost:    *)
(* any of the unordered writes were applied, and the batch is dropped.     *)
SaveFails(W) ==
  /\ run = "flush"
  /\ W \subseteq Elements(batch)
  /\ row' = Upserted(W)
  /\ written' = written \cup W
  /\ dropped' = dropped \cup Elements(batch)
  /\ batch' = <<>>
  /\ run' = AfterFlush
  /\ UNCHANGED <<proc, at, outcome, final, created, jobs, tally, ch, stopped>>

(* onStored: recordStored bumps the counters, as well as it can.           *)
OnStored ==
  /\ run = "stored"
  /\ \/ tally' = [m \in Messages |->
          tally[m] + Cardinality({d \in created : MessageOf[d] = m})]
     \/ UNCHANGED tally
  /\ run' = "counted"
  /\ UNCHANGED <<proc, at, outcome, final, created, dropped, jobs, qVars, row, written>>

(* afterSave: a goroutine for the media records; countMediaOutcomes and    *)
(* the replies go the same way.                                            *)
AfterSave ==
  /\ run = "counted"
  /\ jobs' = JobsWithBatch
  /\ batch' = <<>> /\ created' = {}
  /\ run' = AfterFlush
  /\ UNCHANGED <<proc, at, outcome, final, dropped, ch, stopped, dbVars>>

-----------------------------------------------------------------------------
(* saveMedia, one after the other; a failure is logged and passed over, as *)
(* is a document without an attachment.                                    *)
SaveMedia(job) ==
  LET d == Head(job)
      m == MessageOf[d]
  IN /\ proc # "exited"
     /\ jobs' = (jobs \ {job}) \cup (IF Len(job) = 1 THEN {} ELSE {Tail(job)})
     /\ \/ /\ Observed(d)
           /\ row' = [row EXCEPT ![m].media = outcome[d], ![m].key = (outcome[d] = "stored")]
        \/ UNCHANGED row
     /\ UNCHANGED <<proc, at, outcome, run, final, created, dropped, qVars, tally, written>>

(* SIGTERM, or the listener fails.                                         *)
Leave ==
  /\ proc = "up"
  /\ proc' = "leaving"
  /\ UNCHANGED <<at, outcome, run, final, created, dropped, jobs, qVars, dbVars>>

(* awaitShutdown: the consumer is waited for, the handlers for 10 seconds, *)
(* the goroutines of a flush not at all.                                   *)
Exit ==
  /\ proc = "leaving" /\ run = "done"
  /\ proc' = "exited"
  /\ UNCHANGED <<at, outcome, run, final, created, dropped, jobs, qVars, dbVars>>

-----------------------------------------------------------------------------
Consume ==
  \/ Receive \/ Tick \/ Stop \/ Save \/ OnStored \/ AfterSave
  \/ \E W \in SUBSET Elements(batch) : SaveFails(W)

Handle(d) ==
  \/ CheckStopped(d) \/ Enqueue(d) \/ \E o \in Outcomes : StoreMedia(d, o)

Next ==
  \/ \E d \in Deliveries : Arrive(d) \/ Handle(d)
  \/ Consume
  \/ \E job \in jobs : SaveMedia(job)
  \/ Leave \/ Exit

Spec == Init /\ [][Next]_vars

(* The consumer runs and its ticker ticks. The select may prefer messages  *)
(* or ticks, but not for ever.                                             *)
Fairness ==
  /\ SF_vars(Receive) /\ SF_vars(Tick) /\ SF_vars(Stop)
  /\ WF_vars(Save \/ OnStored \/ AfterSave)

FairSpec == Spec /\ Fairness

-----------------------------------------------------------------------------
Handed == {d \in Deliveries : at[d] = "accepted"}

(* Types, and the bounds of the two buffers: the channel's capacity, and a *)
(* batch that overshoots its limit by the channel's rest at most.          *)
TypeOK ==
  /\ proc \in {"up", "leaving", "exited"}
  /\ at \in [Deliveries -> {"none", "arrived", "refused", "storing", "mapped", "accepted"}]
  /\ outcome \in [Deliveries -> Outcomes]
  /\ ch \in Seq(Deliveries) /\ Len(ch) <= Size
  /\ batch \in Seq(Deliveries)
  /\ Len(batch) <= IF final THEN FlushMax + Size - 1 ELSE FlushMax
  /\ stopped \in BOOLEAN /\ final \in BOOLEAN
  /\ run \in {"select", "flush", "stored", "counted", "done"}
  /\ created \subseteq Deliveries
  /\ row \in [Messages -> [exists : BOOLEAN, media : Outcomes, key : BOOLEAN]]
  /\ tally \in [Messages -> Nat]
  /\ dropped \subseteq Deliveries /\ written \subseteq Deliveries
  /\ \A job \in jobs : job \in Seq(Deliveries) /\ job # <<>>

(* Every delivery that was handed over is in the channel, in the batch, in *)
(* the database or counted as dropped; once the consumer is done, in one   *)
(* of the last two, whatever producers were still on their way (Run,       *)
(* stop).                                                                  *)
WrittenOrDropped ==
  /\ Handed \subseteq Elements(ch) \cup Elements(batch) \cup written \cup dropped
  /\ run = "done" => Handed \subseteq written \cup dropped

(* Nothing that was handed over is lost.                                   *)
QueueInv == TypeOK /\ WrittenOrDropped

(* What follows a write follows one that happened, once: a message is      *)
(* counted at most once and only if it is there, however often it is       *)
(* delivered and whichever flush fails, and an attachment's outcome goes   *)
(* to a row that is there, as a delivery of it said (Save, onStored,       *)
(* afterIngestFlush).                                                      *)
EffectsFollowTheRow ==
  /\ \A m \in Messages : tally[m] <= 1 /\ (tally[m] = 1 => row[m].exists)
  /\ \A job \in jobs : \A d \in Elements(job) : row[MessageOf[d]].exists /\ d \in written
  /\ \A m \in Messages : row[m].key => \E d \in written : MessageOf[d] = m /\ outcome[d] = "stored"

(* What is handed over is written or counted in the end, without another   *)
(* message to push it and through a shutdown.                              *)
HandedIsSettled ==
  \A d \in Deliveries : at[d] = "accepted" ~> d \in written \cup dropped

(* A redelivery does not write over what the pipeline stored.              *)
StoredMediaIsKept == [][\A m \in Messages : row[m].key => row'[m].key]_vars
=============================================================================
