------------------------------ MODULE Notifications ------------------------------
(***************************************************************************)
(* Mails about what the threat engine escalates (notify/, api/notify.rs):  *)
(* a bounded queue, a worker that sends each event at once or gathers them *)
(* for a digest, and a limit on the mails of a minute.                     *)
(*                                                                         *)
(* Time goes by in half minutes; events are only counted.  A test mail     *)
(* passes by queue, worker and limit, and is left out.                     *)
(***************************************************************************)
EXTENDS BackgroundBase

CONSTANTS
  MailPlans,  \* settings that are saved: on, the category wanted, digest, mails per minute
  Room,       \* bound of the queue (512 in the code)
  Period      \* half minutes between two digests (10 in the code)

ASSUME NotifyAssumption ==
  /\ Room \in Nat /\ Period \in Nat /\ Period > 2
  /\ MailPlans # {} /\ \A m \in MailPlans : m.limit \in Nat /\ (m.on => m.limit > 0)

VARIABLES
  mail,     \* the saved settings
  queue,    \* events in the queue
  buffer,   \* events that wait for the next digest
  limiter,  \* the token bucket: its size, its tokens, and its age; {} before its first use
  timer,    \* half minutes of the period gone by, and ticks the worker has not seen
  letter,   \* the mail that is being sent: its events, and the attempts left
  sent,     \* history: mails sent in this half minute and in the one before
  tally     \* history: events that were taken into the queue, and events mailed

notifyVars == <<mail, queue, buffer, limiter, timer, letter, sent, tally>>

NoLetter == [events |-> 0, tries |-> 0]
Idle == letter = NoLetter
Bucket(n) == [max |-> n, tokens |-> n, age |-> 0]

SaveNotify == \E m \in MailPlans :
  /\ Spend("edits") /\ mail' = m /\ past' = past \union If(m # mail, {"changed"})
  /\ UNCHANGED <<queue, buffer, limiter, timer, letter, sent, tally>>

\* The threat engine does not look at whether there was room.
Escalate ==
  /\ Spend("requests")
  /\ IF queue < Room
     THEN queue' = queue + 1 /\ tally' = [tally EXCEPT !.taken = @ + 1]
     ELSE UNCHANGED <<queue, tally>>
  /\ UNCHANGED <<past, mail, buffer, limiter, timer, letter, sent>>

\* A bucket is filled up a minute after it was filled last.
\* A mistake to be found: when that was is not brought up to date.
RefilledAgain(b) == IF b.age >= 2 THEN [b EXCEPT !.tokens = b.max] ELSE b

Refilled(b) == IF b.age >= 2 THEN Bucket(b.max) ELSE b

\* A mail of n events is sent if there is a token for it.
Mailing(b, n) ==
  LET full == Refilled(b)
  IN  IF full.tokens > 0
      THEN /\ limiter' = {[full EXCEPT !.tokens = @ - 1]}
           /\ letter' = [events |-> n, tries |-> 2]
      ELSE limiter' = {full} /\ UNCHANGED letter

\* The worker takes an event: the bucket has the size that the settings say.
Receive ==
  /\ Idle /\ queue > 0
  /\ queue' = queue - 1
  /\ IF ~(mail.on /\ mail.wants)
     THEN UNCHANGED <<buffer, limiter, letter>>
     ELSE LET kept == {b \in limiter : b.max = mail.limit}
              b == IF kept = {} THEN Bucket(mail.limit) ELSE CHOOSE c \in kept : TRUE
          IN  IF mail.digest
              THEN buffer' = buffer + 1 /\ limiter' = {b} /\ UNCHANGED letter
              ELSE Mailing(b, 1) /\ UNCHANGED buffer
  /\ UNCHANGED <<left, past, mail, timer, sent, tally>>

\* Time for a digest: what was gathered is discarded when there is to be none any more,
\* and kept for the next one when there is no token.
Digest ==
  /\ Idle /\ timer.due > 0
  /\ timer' = [timer EXCEPT !.due = @ - 1]
  /\ IF buffer = 0 THEN UNCHANGED <<buffer, limiter, letter>>
     ELSE IF ~(mail.on /\ mail.digest)
     THEN buffer' = 0 /\ UNCHANGED <<limiter, letter>>
     ELSE LET b == IF limiter = {} THEN Bucket(mail.limit) ELSE CHOOSE c \in limiter : TRUE
          IN  /\ Mailing(b, buffer)
              /\ buffer' = IF letter' = letter THEN buffer ELSE 0
  /\ UNCHANGED <<left, past, mail, queue, sent, tally>>

\* The server takes the mail and says so; or it does not say so, whether it took it or
\* not, and the worker tries once more, without a token, or gives up.  Meanwhile the
\* worker takes nothing from the queue.
Deliver ==
  /\ ~Idle
  /\ \E taken, known \in BOOLEAN :
       /\ IF known THEN taken /\ letter' = NoLetter /\ UNCHANGED <<left, past>>
          ELSE /\ Spend("faults")
               /\ letter' = IF letter.tries = 1 THEN NoLetter ELSE [letter EXCEPT !.tries = @ - 1]
               /\ past' = past \union If(taken, {"again"}) \union If(letter.tries = 1, {"failed"})
       /\ sent' = IF taken THEN [sent EXCEPT !.now = @ + 1] ELSE sent
       /\ tally' = IF taken THEN [tally EXCEPT !.mailed = @ + letter.events] ELSE tally
  /\ UNCHANGED <<mail, queue, buffer, limiter, timer>>

HalfMinute ==
  /\ Spend("time")
  /\ limiter' = {[b EXCEPT !.age = IF @ < 2 THEN @ + 1 ELSE @] : b \in limiter}
  /\ sent' = [now |-> 0, before |-> sent.now]
  /\ timer' = IF timer.gone + 1 < Period THEN [timer EXCEPT !.gone = @ + 1]
              ELSE [gone |-> 0, due |-> timer.due + 1]
  /\ UNCHANGED <<past, mail, queue, buffer, letter, tally>>

\* Queue, digest and bucket are in memory only.
NotifyRestart ==
  /\ Spend("restarts") /\ past' = past \union {"restarted"}
  /\ queue' = 0 /\ buffer' = 0 /\ limiter' = {} /\ letter' = NoLetter
  /\ timer' = [gone |-> 0, due |-> 0]
  /\ UNCHANGED <<mail, sent, tally>>

NotifyInit ==
  /\ mail \in IF part = "notify" THEN MailPlans ELSE {CHOOSE m \in MailPlans : TRUE}
  /\ queue = 0 /\ buffer = 0 /\ limiter = {} /\ letter = NoLetter
  /\ timer = [gone |-> 0, due |-> 0]
  /\ sent = [now |-> 0, before |-> 0] /\ tally = [taken |-> 0, mailed |-> 0]

NotifyNext ==
  \/ SaveNotify \/ Escalate \/ Receive \/ Digest \/ Deliver \/ HalfMinute \/ NotifyRestart

-----------------------------------------------------------------------------
\* With settings that stay, a daemon that runs and no answer of the server lost, less than
\* a minute sees twice the mails of the limit at most (the bucket is filled up at once,
\* rate_limit.rs:35-40), and a digest is complete although mails are limited: an event
\* that was taken into the queue is mailed, or waits for it, unless it is refused twice.
MailsLimited ==
  /\ past \subseteq {"failed"} => sent.now + sent.before <= 2 * mail.limit
  /\ past = {} /\ mail.on /\ mail.wants /\ mail.digest =>
       tally.taken = tally.mailed + queue + buffer + letter.events
=============================================================================
