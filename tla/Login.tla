--------------------------------- MODULE Login ---------------------------------
(***************************************************************************)
(* The administrator's account (api/auth.rs, auth/): failed logins are     *)
(* counted for each name and lock it for a time, a login is answered with  *)
(* a token signed with a key on disk, and a token that a request brings is *)
(* checked against that key.                                               *)
(*                                                                         *)
(* No lock is held while a password is verified or the key is made: what a *)
(* request does between two of its waits is one step.                      *)
(***************************************************************************)
EXTENDS BackgroundBase

CONSTANTS
  Securities,  \* settings that are saved: attempts, minutes of a lock, minutes of a session
  Passwords,   \* passwords that are sent or chosen
  FirstKeys    \* session.key as the daemon's start has left it

ASSUME LoginAssumption ==
  /\ IsFiniteSet(Client)
  /\ Securities # {} /\ Securities \subseteq [attempts : Nat, lock : Nat, session : Nat]
  /\ FirstKeys # {} /\ FirstKeys \subseteq [value : Nat, full : BOOLEAN]

VARIABLES
  account,  \* the password of admin.json
  sec,      \* the security settings
  tries,    \* tries[u]: the failures counted for the name u, and when its lock ends
  key,      \* session.key: its value, 0 without a file, and whether that is written
  tokens,   \* the tokens that were issued
  now,      \* the clock, in minutes
  call,     \* call[p]: what the request p does
  tested    \* history: passwords verified since the last success, and locks that ended

loginVars == <<account, sec, tries, key, tokens, now, call, tested>>

Admin == "admin"
Name == {Admin, "guest"}
NoTries == [count |-> 0, until |-> 0]
NoKey == [value |-> 0, full |-> FALSE]
Waits == [pc |-> "idle"]
Locked(u) == now < tries[u].until
Valid(t, k) == t.key = k /\ now < t.until
Verifying(p) == call[p].pc = "verify" /\ call[p].name = Admin

Answers(p, step) == call' = [call EXCEPT ![p] = step]
Arrives(p) ==
  /\ call[p].pc \in {"idle", "answered"}
  /\ p = CHOOSE c \in Client : call[c].pc \in {"idle", "answered"}
  /\ Spend("requests")

-----------------------------------------------------------------------------
\* A login: the lock is looked at, and the account read.
LoginRequest(p) == \E u \in Name, w \in Passwords :
  /\ Arrives(p)
  /\ IF sec.attempts > 0 /\ Locked(u)
     THEN Answers(p, Waits) /\ UNCHANGED tested
     ELSE /\ Answers(p, [pc |-> "verify", name |-> u, password |-> w, against |-> account,
                         sec |-> sec, began |-> now])
          /\ tested' = IF u = Admin THEN [tested EXCEPT !.count = @ + 1] ELSE tested
  /\ UNCHANGED <<past, account, sec, tries, key, tokens, now>>

\* A mistake to be found: one attempt more than the settings say.
CountedLate(e, c) ==
  [count |-> e.count + 1,
   until |-> IF e.count + 1 > c.sec.attempts THEN c.began + c.sec.lock ELSE e.until]

\* The count is kept when a lock ends: the next failure locks again.
Counted(e, c) ==
  [count |-> e.count + 1,
   until |-> IF e.count + 1 >= c.sec.attempts THEN c.began + c.sec.lock ELSE e.until]

LoginFails(p) ==
  /\ call[p].pc = "verify"
  /\ call[p].name # Admin \/ call[p].password # call[p].against
  /\ tries' = IF call[p].sec.attempts = 0 THEN tries
              ELSE [tries EXCEPT ![call[p].name] = Counted(@, call[p])]
  /\ Answers(p, Waits)
  /\ UNCHANGED <<left, past, account, sec, key, tokens, now, tested>>

LoginSucceeds(p) ==
  /\ Verifying(p) /\ call[p].password = call[p].against
  /\ tries' = [tries EXCEPT ![Admin] = NoTries]
  /\ tested' = [count |-> Cardinality({q \in Client \ {p} : Verifying(q)}), ended |-> 0]
  /\ Answers(p, [pc |-> "key", brings |-> {}, began |-> call[p].began, sec |-> call[p].sec,
                 key |-> 0])
  /\ UNCHANGED <<left, past, account, sec, key, tokens, now>>

-----------------------------------------------------------------------------
\* A request that brings a token, in the header, the query or the cookie, to a path that
\* is guarded, a web socket or not, or to /auth/status.
Guarded(p) == \E t \in tokens, by \in {"header", "query", "cookie"},
                 path \in {"plain", "socket", "status"} :
  /\ Arrives(p)
  /\ Answers(p, [pc |-> "key", brings |-> {[token |-> t, by |-> by, path |-> path]}, key |-> 0])
  /\ UNCHANGED <<past, account, sec, tries, key, tokens, now, tested>>

\* The token among the words of an Authorization header, as the guard looks for it, and
\* as /auth/status does.
FromHeader(words) == If(Len(words) = 3 /\ words[1] = "Bearer", {words[Len(words)]})
StatusFromHeader(words) == If(Len(words) = 2 /\ words[1] = "Bearer", {words[Len(words)]})

Found(r) ==
  CASE r.by = "header" /\ r.path = "status" -> StatusFromHeader(<<"Bearer", r.token>>)
    [] r.by = "header" /\ r.path # "status" -> FromHeader(<<"Bearer", r.token>>)
    [] r.by = "query" -> If(r.path = "socket", {r.token})
    [] OTHER -> {r.token}

\* With the key k, a token is issued or one that was brought is checked.
Keyed(p, k) ==
  LET c == call[p]
  IN  /\ tokens' = tokens \union
           If(c.brings = {}, {[key |-> k, until |-> c.began + c.sec.session]})
      /\ Answers(p, IF c.brings = {} THEN Waits
                    ELSE [pc |-> "answered", brings |-> c.brings, key |-> k, at |-> now,
                          ok |-> \E r \in c.brings : \E t \in Found(r) : Valid(t, k)])

\* The key is read, or made when the file is not one: what file there is by then is
\* removed, a new one created, and written after that.
KeyRead(p) ==
  /\ call[p].pc = "key"
  /\ IF key.full
     THEN Keyed(p, key.value) /\ UNCHANGED past
     ELSE /\ Answers(p, [call[p] EXCEPT !.pc = "remove"])
          /\ past' = past \union
               If(\E q \in Client : call[q].pc \in {"remove", "create", "write"}, {"met"})
          /\ UNCHANGED tokens
  /\ UNCHANGED <<left, account, sec, tries, key, now, tested>>

KeyRemove(p) ==
  /\ call[p].pc = "remove"
  /\ key' = NoKey
  /\ Answers(p, [call[p] EXCEPT !.pc = "create"])
  /\ UNCHANGED <<left, past, account, sec, tries, tokens, now, tested>>

Fresh == 1 + Max({key.value} \union {t.key : t \in tokens}
                 \union {call[q].key : q \in {c \in Client : call[c].pc = "write"}})
KeyCreate(p) ==
  /\ call[p].pc = "create"
  /\ IF key # NoKey
     THEN UNCHANGED key /\ Answers(p, Waits)
     ELSE /\ key' = [value |-> Fresh, full |-> FALSE]
          /\ Answers(p, [call[p] EXCEPT !.pc = "write", !.key = Fresh])
  /\ UNCHANGED <<left, past, account, sec, tries, tokens, now, tested>>

\* A mistake to be found: the key is used although it could not be written.
KeyWriteAnyway(p) ==
  /\ call[p].pc = "write"
  /\ \/ /\ UNCHANGED left
        /\ key' = IF key.value = call[p].key THEN [key EXCEPT !.full = TRUE] ELSE key
     \/ Spend("faults") /\ UNCHANGED key
  /\ Keyed(p, call[p].key)
  /\ UNCHANGED <<past, account, sec, tries, now, tested>>

\* A file that another request has removed meanwhile is written all the same.
KeyWrite(p) ==
  /\ call[p].pc = "write"
  /\ \/ /\ key' = IF key.value = call[p].key THEN [key EXCEPT !.full = TRUE] ELSE key
        /\ Keyed(p, call[p].key) /\ UNCHANGED left
     \/ Spend("faults") /\ Answers(p, Waits) /\ UNCHANGED <<key, tokens>>
  /\ UNCHANGED <<past, account, sec, tries, now, tested>>

-----------------------------------------------------------------------------
\* The password is changed once the old one is verified; a wrong one is not counted.
ChangePassword(p) == \E t \in tokens, old, new \in Passwords :
  /\ Valid(t, key.value) /\ Arrives(p)
  /\ Answers(p, IF old = account THEN [pc |-> "change", password |-> new] ELSE Waits)
  /\ UNCHANGED <<past, account, sec, tries, key, tokens, now, tested>>

PasswordSaved(p) ==
  /\ call[p].pc = "change"
  /\ \/ account' = call[p].password /\ UNCHANGED left
     \/ UNCHANGED account /\ Spend("faults")
  /\ Answers(p, Waits)
  /\ UNCHANGED <<past, sec, tries, key, tokens, now, tested>>

SaveSecurity == \E s \in Securities :
  /\ s # sec /\ Spend("edits")
  /\ sec' = s /\ past' = past \union {"settings"}
  /\ UNCHANGED <<account, tries, key, tokens, now, call, tested>>

\* The command line sets the first password, or another one.
InitAdmin == \E w \in Passwords :
  /\ Spend("edits") /\ account' = w
  /\ UNCHANGED <<past, sec, tries, key, tokens, now, call, tested>>

\* A minute goes by; verifying a password takes less.
LoginMinute ==
  /\ Spend("time")
  /\ now' = now + 1
  /\ past' = past \union If(\E p \in Client : call[p].pc = "verify", {"slow"})
  /\ tested' = IF Locked(Admin) /\ now' >= tries[Admin].until
               THEN [tested EXCEPT !.ended = @ + 1] ELSE tested
  /\ UNCHANGED <<account, sec, tries, key, tokens, call>>

\* What was counted is forgotten; the start makes the key if it has to and can.
LoginRestart ==
  /\ Spend("restarts")
  /\ tries' = [u \in Name |-> NoTries] /\ tested' = [count |-> 0, ended |-> 0]
  /\ call' = [p \in Client |-> Waits]
  /\ \/ key' = IF key.full THEN key ELSE [value |-> Fresh, full |-> TRUE]
     \/ ~key.full /\ left.faults > 0 /\ UNCHANGED key
  /\ UNCHANGED <<past, account, sec, tokens, now>>

LoginInit ==
  LET From(S) == IF part = "login" THEN S ELSE {CHOOSE x \in S : TRUE}
  IN  /\ account \in From(Passwords) /\ sec \in From(Securities) /\ key \in From(FirstKeys)
      /\ tries = [u \in Name |-> NoTries] /\ tokens = {} /\ now = 0
      /\ call = [p \in Client |-> Waits] /\ tested = [count |-> 0, ended |-> 0]

LoginNext ==
  \/ SaveSecurity \/ InitAdmin \/ LoginMinute \/ LoginRestart
  \/ \E p \in Client :
       \/ LoginRequest(p) \/ LoginFails(p) \/ LoginSucceeds(p) \/ Guarded(p)
       \/ KeyRead(p) \/ KeyRemove(p) \/ KeyCreate(p) \/ KeyWrite(p)
       \/ ChangePassword(p) \/ PasswordSaved(p)

-----------------------------------------------------------------------------
\* Between two successes, no more passwords are verified than the settings allow, and one
\* for each request at a time, once more after each lock that ends: unless the settings
\* change, a lock lasts no time, or a verification takes more than a minute.
GuessLimit ==
  past = {} /\ sec.attempts > 0 /\ sec.lock > 0 =>
    tested.count <= sec.attempts - 1 + Cardinality(Client) * (1 + tested.ended)

\* A token that was issued is good until it expires, whatever restarts and fails in
\* between: unless two requests make the key at the same time.
TokensHonoured ==
  "met" \notin past => \A t \in tokens : key = [value |-> t.key, full |-> TRUE]

\* auth/middleware.rs: a valid token is accepted from the Authorization header.
BearerAccepted ==
  \A p \in Client : call[p].pc = "answered" =>
    \A r \in call[p].brings :
      r.by = "header" /\ r.token.key = call[p].key /\ call[p].at < r.token.until => call[p].ok
=============================================================================
