-------------------------- MODULE BackgroundProofs --------------------------
(* Theorems about five parts of Background, for any number of requests, traffic, timer  *)
(* ticks and budgets: logins and their tokens, certificates and their keys,             *)
(* notifications by mail, dynamic DNS, and the policy engine: what it changed can be    *)
(* undone, and a bootstrap lets the services in.                                        *)
EXTENDS Background, FiniteSetTheorems, SequenceTheorems, WellFoundedInduction, TLAPS

-----------------------------------------------------------------------------
\* The parts: a step is one of the part the behaviour takes place in.

LEMMA LoginSteps ==
  ASSUME Next
  PROVE  /\ UNCHANGED part
         /\ \/ part = "login" /\ LoginNext
            \/ part # "login" /\ UNCHANGED loginVars
BY DEF Next, Policies, InRules, Acme, Logins, Updates, Mails, Within

-----------------------------------------------------------------------------
(* Login.                                                                  *)

Security == [attempts : Nat, lock : Nat, session : Nat]
Making(p) == call[p].pc \in {"remove", "create", "write"}

\* What a request carries along at each step.
Carries(c) ==
  /\ "pc" \in DOMAIN c
  /\ c.pc \in {"key", "remove", "create", "write"} => "key" \in DOMAIN c
  /\ c.pc = "verify" => c.name \in Name /\ c.sec \in Security /\ c.began \in Nat

LoginType ==
  /\ sec \in Security /\ now \in Nat
  /\ tries \in [Name -> [count : Nat, until : Nat]]
  /\ tested \in [count : Nat, ended : Nat]
  /\ key = [value |-> key.value, full |-> key.full] /\ key.full \in BOOLEAN
  /\ DOMAIN call = Client /\ \A p \in Client : Carries(call[p])

\* One request at a time makes the key, before any token is issued; the tokens are signed
\* with the key on disk.
KeyMade ==
  "met" \notin past =>
    /\ \A p, q \in Client : Making(p) /\ Making(q) => p = q
    /\ \A p \in Client :
         /\ Making(p) => tokens = {} /\ ~key.full
         /\ call[p].pc = "create" => key = NoKey
         /\ call[p].pc = "write" => key.value = call[p].key
    /\ \A t \in tokens : key = [value |-> t.key, full |-> TRUE]

\* The passwords verified are the failures counted and those being verified: unless the
\* name is locked, the failures leave room for one of each request.
Verifiers == {p \in Client : Verifying(p)}
GuessesCounted ==
  past = {} =>
    /\ \A p \in Client : call[p].pc = "verify" => call[p].sec = sec /\ call[p].began = now
    /\ sec.attempts > 0 /\ sec.lock > 0 =>
         /\ tested.count = tries[Admin].count + Cardinality(Verifiers)
         /\ tested.count <= sec.attempts - 1 + Cardinality(Client) * (1 + tested.ended)
         /\ ~Locked(Admin) =>
              tries[Admin].count <= sec.attempts - 1 + Cardinality(Client) * tested.ended

LoginSound ==
  /\ LoginType
  /\ part = "login" => KeyMade /\ GuessesCounted
  /\ part # "login" => tokens = {} /\ tested = [count |-> 0, ended |-> 0]

LEMMA LoginStarts == Init => LoginSound
<1> SUFFICES ASSUME Init PROVE LoginSound
  OBVIOUS
<1>1. PICK k \in FirstKeys, s \in Securities : key = k /\ sec = s
  BY LoginAssumption DEF Init, LoginInit
<1>2. /\ tries = [u \in Name |-> NoTries] /\ tokens = {} /\ now = 0 /\ past = {}
      /\ call = [p \in Client |-> Waits] /\ tested = [count |-> 0, ended |-> 0]
  BY DEF Init, LoginInit, BaseInit
<1>3. LoginType
  BY <1>1, <1>2, LoginAssumption DEF LoginType, Carries, Waits, NoTries, Name, Security
<1>4. KeyMade
  BY <1>2 DEF KeyMade, Making, Waits
<1>5. GuessesCounted
  <2>1. Verifiers = {}
    BY <1>2 DEF Verifiers, Verifying, Waits
  <2>2. Cardinality(Verifiers) = 0 /\ Cardinality(Client) \in Nat
    BY <2>1, FS_EmptySet, FS_CardinalityType, LoginAssumption
  <2>3. tries[Admin].count = 0
    BY <1>2 DEF NoTries, Name, Admin
  <2>4. sec.attempts \in Nat
    BY <1>3 DEF LoginType, Security
  <2>5. \A p \in Client : call[p].pc # "verify"
    BY <1>2 DEF Waits
  <2>6. sec.attempts > 0 => 0 <= sec.attempts - 1 + Cardinality(Client) * 1
                           /\ 0 <= sec.attempts - 1 + Cardinality(Client) * 0
    BY <2>2, <2>4
  <2>7. tested.count = 0 /\ tested.ended = 0
    BY <1>2
  <2>8. QED
    BY <2>2, <2>3, <2>5, <2>6, <2>7 DEF GuessesCounted
<1>6. QED
  BY <1>2, <1>3, <1>4, <1>5 DEF LoginSound

LEMMA CallSet ==
  ASSUME LoginType, NEW p \in Client, NEW c, Answers(p, c)
  PROVE  /\ DOMAIN call' = Client /\ call'[p] = c
         /\ \A q \in Client : q # p => call'[q] = call[q]
BY DEF LoginType, Answers

LEMMA LoginTypeBy ==
  ASSUME LoginType, NEW p \in Client, NEW c, Answers(p, c), Carries(c),
         sec' = sec, now' = now
  PROVE  /\ sec' \in Security /\ now' \in Nat
         /\ DOMAIN call' = Client /\ \A q \in Client : Carries(call'[q])
<1>1. \A q \in Client : q # p => call'[q] = call[q]
  BY CallSet
<1>2. DOMAIN call' = Client /\ call'[p] = c
  BY CallSet
<1>3. QED
  BY <1>1, <1>2 DEF LoginType

\* The key, where it is one that is made.
LEMMA KeyType ==
  ASSUME NEW v, NEW f \in BOOLEAN, NEW k, k = [value |-> v, full |-> f]
  PROVE  k = [value |-> k.value, full |-> k.full] /\ k.full \in BOOLEAN
OBVIOUS

LEMMA LoginTypeKept ==
  ASSUME LoginType, LoginNext
  PROVE  LoginType'
<1>0. /\ sec \in Security /\ now \in Nat
      /\ tries \in [Name -> [count : Nat, until : Nat]]
      /\ tested \in [count : Nat, ended : Nat]
      /\ key = [value |-> key.value, full |-> key.full] /\ key.full \in BOOLEAN
      /\ DOMAIN call = Client /\ \A p \in Client : Carries(call[p])
  BY DEF LoginType
<1>1. CASE SaveSecurity
  BY <1>0, <1>1, LoginAssumption DEF SaveSecurity, LoginType, Security
<1>2. CASE InitAdmin
  BY <1>0, <1>2 DEF InitAdmin, LoginType
<1>3. CASE LoginMinute
  BY <1>0, <1>3 DEF LoginMinute, LoginType
<1>4. CASE LoginRestart
  <2>1. key' = key \/ key' = [value |-> Fresh, full |-> TRUE]
    BY <1>4 DEF LoginRestart
  <2>2. key' = [value |-> key'.value, full |-> key'.full] /\ key'.full \in BOOLEAN
    BY <1>0, <2>1, KeyType
  <2>3. call' = [p \in Client |-> Waits] /\ Carries(Waits)
    BY <1>4 DEF LoginRestart, Carries, Waits
  <2>4. /\ tries' \in [Name -> [count : Nat, until : Nat]]
        /\ tested' \in [count : Nat, ended : Nat] /\ sec' = sec /\ now' = now
    BY <1>4 DEF LoginRestart, NoTries
  <2>5. QED
    BY <1>0, <2>2, <2>3, <2>4 DEF LoginType
<1>5. ASSUME NEW p \in Client, LoginRequest(p)
      PROVE  LoginType'
  <2>1. PICK u \in Name, w \in Passwords :
          \/ Answers(p, Waits) /\ UNCHANGED tested
          \/ /\ Answers(p, [pc |-> "verify", name |-> u, password |-> w, against |-> account,
                            sec |-> sec, began |-> now])
             /\ tested' = IF u = Admin THEN [tested EXCEPT !.count = @ + 1] ELSE tested
    BY <1>5 DEF LoginRequest
  <2>2. UNCHANGED <<sec, tries, key, now>>
    BY <1>5 DEF LoginRequest
  <2>3. Carries(Waits)
    BY DEF Carries, Waits
  <2>4. Carries([pc |-> "verify", name |-> u, password |-> w, against |-> account,
                 sec |-> sec, began |-> now])
    BY <1>0 DEF Carries
  <2>5. tested' \in [count : Nat, ended : Nat]
    BY <1>0, <2>1
  <2>6. DOMAIN call' = Client /\ \A q \in Client : Carries(call'[q])
    BY <2>1, <2>2, <2>3, <2>4, LoginTypeBy
  <2>7. QED
    BY <1>0, <2>2, <2>5, <2>6 DEF LoginType
<1>6. ASSUME NEW p \in Client, LoginFails(p)
      PROVE  LoginType'
  <2>1. call[p].name \in Name /\ call[p].sec \in Security /\ call[p].began \in Nat
    BY <1>0, <1>6 DEF LoginFails, Carries
  <2>2. Counted(tries[call[p].name], call[p]) \in [count : Nat, until : Nat]
    BY <1>0, <2>1 DEF Counted, Security
  <2>3. tries' \in [Name -> [count : Nat, until : Nat]]
    BY <1>0, <1>6, <2>1, <2>2 DEF LoginFails
  <2>4. DOMAIN call' = Client /\ \A q \in Client : Carries(call'[q])
    <3>1. Carries(Waits)
      BY DEF Carries, Waits
    <3>2. QED
      BY <1>6, <3>1, LoginTypeBy DEF LoginFails
  <2>5. QED
    BY <1>0, <1>6, <2>3, <2>4 DEF LoginFails, LoginType
<1>7. ASSUME NEW p \in Client, LoginSucceeds(p)
      PROVE  LoginType'
  <2>1. Cardinality({q \in Client \ {p} : Verifying(q)}) \in Nat
    <3>1. IsFiniteSet({q \in Client \ {p} : Verifying(q)})
      BY LoginAssumption, FS_Subset
    <3>2. QED
      BY <3>1, FS_CardinalityType
  <2>2. NoTries \in [count : Nat, until : Nat]
    BY DEF NoTries
  <2>3. Carries([pc |-> "key", brings |-> {}, began |-> call[p].began, sec |-> call[p].sec,
                 key |-> 0])
    BY DEF Carries
  <2>4. DOMAIN call' = Client /\ \A q \in Client : Carries(call'[q])
    BY <1>7, <2>3, LoginTypeBy DEF LoginSucceeds
  <2>5. QED
    BY <1>0, <1>7, <2>1, <2>2, <2>4 DEF LoginSucceeds, LoginType
<1>8. ASSUME NEW p \in Client, NEW c, Answers(p, c), Carries(c),
             UNCHANGED <<sec, tries, now, tested>>,
             key' = [value |-> key'.value, full |-> key'.full] /\ key'.full \in BOOLEAN
      PROVE  LoginType'
  <2>1. DOMAIN call' = Client /\ \A q \in Client : Carries(call'[q])
    BY <1>8, LoginTypeBy
  <2>2. QED
    BY <1>0, <1>8, <2>1 DEF LoginType
<1>9. Carries(Waits)
  BY DEF Carries, Waits
<1>10. ASSUME NEW p \in Client, NEW k, Keyed(p, k), UNCHANGED <<sec, tries, now, tested>>,
              key' = [value |-> key'.value, full |-> key'.full] /\ key'.full \in BOOLEAN
       PROVE  LoginType'
  <2> DEFINE c == IF call[p].brings = {} THEN Waits
                  ELSE [pc |-> "answered", brings |-> call[p].brings, key |-> k, at |-> now,
                        ok |-> \E r \in call[p].brings : \E t \in Found(r) : Valid(t, k)]
  <2>1. Answers(p, c)
    BY <1>10 DEF Keyed
  <2>2. Carries(c)
    BY <1>9 DEF Carries
  <2> HIDE DEF c
  <2>3. QED
    BY <1>8, <1>10, <2>1, <2>2
<1>11. ASSUME NEW p \in Client, Guarded(p)
       PROVE  LoginType'
  <2>1. PICK t \in tokens, by \in {"header", "query", "cookie"},
             path \in {"plain", "socket", "status"} :
          Answers(p, [pc |-> "key", brings |-> {[token |-> t, by |-> by, path |-> path]},
                      key |-> 0])
    BY <1>11 DEF Guarded
  <2>2. Carries([pc |-> "key", brings |-> {[token |-> t, by |-> by, path |-> path]},
                 key |-> 0])
    BY DEF Carries
  <2>3. UNCHANGED <<sec, tries, now, tested, key>>
    BY <1>11 DEF Guarded
  <2>4. QED
    BY <1>0, <1>8, <2>1, <2>2, <2>3
<1>12. ASSUME NEW p \in Client, KeyRead(p)
       PROVE  LoginType'
  <2>1. UNCHANGED <<sec, tries, now, tested, key>>
    BY <1>12 DEF KeyRead
  <2>2. CASE Keyed(p, key.value)
    BY <1>0, <1>10, <2>1, <2>2
  <2>3. CASE Answers(p, [call[p] EXCEPT !.pc = "remove"])
    <3>1. Carries([call[p] EXCEPT !.pc = "remove"])
      BY <1>0, <1>12 DEF KeyRead, Carries
    <3>2. QED
      BY <1>0, <1>8, <2>1, <2>3, <3>1
  <2>4. QED
    BY <1>12, <2>2, <2>3 DEF KeyRead
<1>13. ASSUME NEW p \in Client, KeyRemove(p)
       PROVE  LoginType'
  <2>1. Carries([call[p] EXCEPT !.pc = "create"])
    BY <1>0, <1>13 DEF KeyRemove, Carries
  <2>2. QED
    BY <1>8, <1>13, <2>1 DEF KeyRemove, NoKey
<1>14. ASSUME NEW p \in Client, KeyCreate(p)
       PROVE  LoginType'
  <2>1. Carries([call[p] EXCEPT !.pc = "write", !.key = Fresh])
    BY <1>0, <1>14 DEF KeyCreate, Carries
  <2>2. UNCHANGED <<sec, tries, now, tested>>
    BY <1>14 DEF KeyCreate
  <2>3. key' = [value |-> key'.value, full |-> key'.full] /\ key'.full \in BOOLEAN
    <3>1. key' = key \/ key' = [value |-> Fresh, full |-> FALSE]
      BY <1>14 DEF KeyCreate
    <3>2. QED
      BY <1>0, <3>1, KeyType
  <2>4. QED
    BY <1>8, <1>9, <1>14, <2>1, <2>2, <2>3 DEF KeyCreate
<1>15. ASSUME NEW p \in Client, KeyWrite(p)
       PROVE  LoginType'
  <2>1. key' = [value |-> key'.value, full |-> key'.full] /\ key'.full \in BOOLEAN
    BY <1>0, <1>15 DEF KeyWrite
  <2>2. QED
    BY <1>8, <1>9, <1>10, <1>15, <2>1 DEF KeyWrite
<1>16. ASSUME NEW p \in Client, ChangePassword(p)
       PROVE  LoginType'
  <2>1. PICK given, new \in Passwords :
          Answers(p, IF given = account THEN [pc |-> "change", password |-> new] ELSE Waits)
    BY <1>16 DEF ChangePassword
  <2>2. Carries([pc |-> "change", password |-> new])
    BY DEF Carries
  <2>3. QED
    BY <1>0, <1>8, <1>9, <1>16, <2>1, <2>2 DEF ChangePassword
<1>17. ASSUME NEW p \in Client, PasswordSaved(p)
       PROVE  LoginType'
  BY <1>0, <1>8, <1>9, <1>17 DEF PasswordSaved
<1>18. QED
  BY <1>1, <1>2, <1>3, <1>4, <1>5, <1>6, <1>7, <1>11, <1>12, <1>13, <1>14, <1>15,
     <1>16, <1>17 DEF LoginNext

\* Where a request makes the key, it is the only one.
LEMMA KeyMadeKept ==
  ASSUME LoginType, KeyMade, LoginNext
  PROVE  KeyMade'
<1> SUFFICES ASSUME "met" \notin past'
             PROVE  KeyMade'
  BY DEF KeyMade
<1>1. "met" \notin past
  BY DEF LoginNext, SaveSecurity, InitAdmin, LoginMinute, LoginRestart, LoginRequest,
    LoginFails, LoginSucceeds, Guarded, KeyRead, KeyRemove, KeyCreate, KeyWrite,
    ChangePassword, PasswordSaved
<1>2. /\ \A p, q \in Client : Making(p) /\ Making(q) => p = q
      /\ \A p \in Client :
           /\ Making(p) => tokens = {} /\ ~key.full
           /\ call[p].pc = "create" => key = NoKey
           /\ call[p].pc = "write" => key.value = call[p].key
      /\ \A t \in tokens : key = [value |-> t.key, full |-> TRUE]
  BY <1>1 DEF KeyMade
<1>3. key = [value |-> key.value, full |-> key.full] /\ key.full \in BOOLEAN
  BY DEF LoginType
\* A request goes on, and makes no key.
<1>4. ASSUME NEW p \in Client, NEW c, Answers(p, c), UNCHANGED <<key, tokens>>,
             c.pc \notin {"remove", "create", "write"}
      PROVE  KeyMade'
  <2>1. call'[p] = c /\ \A q \in Client : q # p => call'[q] = call[q]
    BY <1>4, CallSet
  <2>2. \A q \in Client :
          Making(q)' \/ call'[q].pc \in {"create", "write"} => q # p /\ Making(q) /\ call'[q] = call[q]
    BY <1>4, <2>1 DEF Making
  <2>3. QED
    BY <1>2, <1>4, <2>2 DEF KeyMade, Making
\* One that is issued a token, or whose token is checked, with the key on disk.
<1>5. ASSUME NEW p \in Client, Keyed(p, key'.value), key' = [value |-> key'.value, full |-> TRUE],
             \A t \in tokens : t.key = key'.value,
             \A q \in Client \ {p} : ~Making(q)
      PROVE  KeyMade'
  <2>1. PICK c : Answers(p, c) /\ c.pc \in {"idle", "answered"}
    BY <1>5 DEF Keyed, Waits
  <2>2. call'[p] = c /\ \A q \in Client : q # p => call'[q] = call[q]
    BY <2>1, CallSet
  <2>3. \A q \in Client : call'[q].pc \notin {"remove", "create", "write"}
    BY <1>5, <2>1, <2>2 DEF Making
  <2>4. \A t \in tokens' : t.key = key'.value
    BY <1>5 DEF Keyed, If
  <2>5. QED
    BY <1>5, <2>3, <2>4 DEF KeyMade, Making
<1>6. Waits.pc \notin {"remove", "create", "write"}
  BY DEF Waits
<1>7. CASE SaveSecurity \/ InitAdmin \/ LoginMinute
  <2>1. UNCHANGED <<key, tokens, call>>
    BY <1>7 DEF SaveSecurity, InitAdmin, LoginMinute
  <2>2. QED
    BY <1>2, <2>1 DEF KeyMade, Making
<1>8. CASE LoginRestart
  <2>1. \A q \in Client : call'[q] = Waits
    BY <1>8 DEF LoginRestart
  <2>2. tokens' = tokens /\ (key.full => key' = key)
    BY <1>8 DEF LoginRestart
  <2>3. \A t \in tokens : key' = [value |-> t.key, full |-> TRUE]
    BY <1>2, <2>2
  <2>4. QED
    BY <1>6, <2>1, <2>2, <2>3 DEF KeyMade, Making, Waits
<1>9. ASSUME NEW p \in Client, LoginRequest(p)
      PROVE  KeyMade'
  BY <1>4, <1>6, <1>9 DEF LoginRequest
<1>10. ASSUME NEW p \in Client, LoginFails(p) \/ LoginSucceeds(p)
       PROVE  KeyMade'
  BY <1>4, <1>6, <1>10 DEF LoginFails, LoginSucceeds
<1>11. ASSUME NEW p \in Client, Guarded(p)
       PROVE  KeyMade'
  BY <1>4, <1>11 DEF Guarded
<1>12. ASSUME NEW p \in Client, KeyRead(p)
       PROVE  KeyMade'
  <2>1. CASE key.full
    <3>1. Keyed(p, key.value) /\ key' = key
      BY <1>12, <2>1 DEF KeyRead
    <3>2. \A q \in Client : ~Making(q)
      BY <1>2, <2>1
    <3>3. QED
      BY <1>2, <1>3, <1>5, <2>1, <3>1, <3>2
  <2>2. CASE ~key.full
    <3>1. Answers(p, [call[p] EXCEPT !.pc = "remove"]) /\ UNCHANGED <<key, tokens>>
      BY <1>12, <2>2 DEF KeyRead
    <3>2. \A q \in Client : ~Making(q)
      BY <1>12, <2>2 DEF KeyRead, Making, If
    <3>3. call'[p].pc = "remove"
      BY <3>1, CallSet DEF LoginType, Carries
    <3>4. \A q \in Client : q # p => call'[q] = call[q]
      BY <3>1, CallSet
    <3>5. tokens = {}
      BY <1>2, <2>2
    <3>6. QED
      BY <2>2, <3>1, <3>2, <3>3, <3>4, <3>5 DEF KeyMade, Making
  <2>3. QED
    BY <2>1, <2>2
<1>13. ASSUME NEW p \in Client, KeyRemove(p)
       PROVE  KeyMade'
  <2>1. Answers(p, [call[p] EXCEPT !.pc = "create"]) /\ key' = NoKey /\ tokens' = tokens
    BY <1>13 DEF KeyRemove
  <2>2. Making(p)
    BY <1>13 DEF KeyRemove, Making
  <2>3. call'[p].pc = "create"
    BY <2>1, CallSet DEF LoginType, Carries
  <2>4. \A q \in Client : q # p => call'[q] = call[q] /\ ~Making(q)
    BY <1>2, <2>1, <2>2, CallSet
  <2>5. QED
    BY <1>2, <2>1, <2>2, <2>3, <2>4 DEF KeyMade, Making, NoKey
<1>14. ASSUME NEW p \in Client, KeyCreate(p)
       PROVE  KeyMade'
  <2>1. Making(p) /\ key = NoKey
    BY <1>2, <1>14 DEF KeyCreate, Making
  <2>2. /\ Answers(p, [call[p] EXCEPT !.pc = "write", !.key = Fresh])
        /\ key' = [value |-> Fresh, full |-> FALSE] /\ tokens' = tokens
    BY <1>14, <2>1 DEF KeyCreate
  <2>3. "pc" \in DOMAIN call[p] /\ "key" \in DOMAIN call[p]
    BY <1>14 DEF KeyCreate, LoginType, Carries
  <2>4. call'[p].pc = "write" /\ call'[p].key = Fresh
    <3>1. call'[p] = [call[p] EXCEPT !.pc = "write", !.key = Fresh]
      BY <2>2, CallSet
    <3>2. ASSUME NEW f, NEW c, NEW k, "pc" \in DOMAIN c, "key" \in DOMAIN c,
                 f = [c EXCEPT !.pc = "write", !.key = k]
          PROVE  f.pc = "write" /\ f.key = k
      BY <3>2
    <3>3. QED
      BY <2>3, <3>1, <3>2
  <2>5. \A q \in Client : q # p => call'[q] = call[q] /\ ~Making(q)
    BY <1>2, <2>1, <2>2, CallSet
  <2>6. key'.value = Fresh /\ ~key'.full
    BY <2>2
  <2>7. QED
    BY <1>2, <2>1, <2>2, <2>4, <2>5, <2>6 DEF KeyMade, Making
<1>15. ASSUME NEW p \in Client, KeyWrite(p)
       PROVE  KeyMade'
  <2>1. CASE Answers(p, Waits) /\ UNCHANGED <<key, tokens>>
    BY <1>4, <1>6, <2>1
  <2>2. CASE /\ key' = IF key.value = call[p].key THEN [key EXCEPT !.full = TRUE] ELSE key
             /\ Keyed(p, call[p].key)
    <3>1. Making(p) /\ key.value = call[p].key
      BY <1>2, <1>15 DEF KeyWrite, Making
    <3>2. key' = [value |-> call[p].key, full |-> TRUE]
      BY <1>3, <2>2, <3>1
    <3>3. tokens = {} /\ \A q \in Client \ {p} : ~Making(q)
      BY <1>2, <3>1
    <3>4. key'.value = call[p].key
      BY <3>2
    <3>5. QED
      BY <1>5, <2>2, <3>2, <3>3, <3>4
  <2>3. QED
    BY <1>15, <2>1, <2>2 DEF KeyWrite
<1>16. ASSUME NEW p \in Client, ChangePassword(p)
       PROVE  KeyMade'
  BY <1>4, <1>6, <1>16 DEF ChangePassword
<1>17. ASSUME NEW p \in Client, PasswordSaved(p)
       PROVE  KeyMade'
  BY <1>4, <1>6, <1>17 DEF PasswordSaved
<1>18. QED
  BY <1>7, <1>8, <1>9, <1>10, <1>11, <1>12, <1>13, <1>14, <1>15, <1>16, <1>17 DEF LoginNext

\* Who verifies the administrator's password, once p has gone on to c.
LEMMA VerifiersMove ==
  ASSUME LoginType, NEW p \in Client, NEW c, Answers(p, c)
  PROVE  /\ IsFiniteSet(Verifiers) /\ Verifiers \subseteq Client
         /\ Cardinality(Verifiers) \in Nat /\ Cardinality(Client) \in Nat
         /\ (c.pc = "verify" /\ c.name = Admin) /\ p \notin Verifiers =>
              /\ Cardinality(Verifiers') = Cardinality(Verifiers) + 1
              /\ Cardinality(Verifiers) + 1 <= Cardinality(Client)
         /\ (c.pc = "verify" /\ c.name = Admin) /\ p \in Verifiers => Verifiers' = Verifiers
         /\ ~(c.pc = "verify" /\ c.name = Admin) /\ p \notin Verifiers => Verifiers' = Verifiers
         /\ ~(c.pc = "verify" /\ c.name = Admin) /\ p \in Verifiers =>
              Cardinality(Verifiers') = Cardinality(Verifiers) - 1
<1>1. call'[p] = c /\ \A q \in Client : q # p => call'[q] = call[q]
  BY CallSet
<1>2. IsFiniteSet(Client) /\ IsFiniteSet(Verifiers) /\ Verifiers \subseteq Client
  BY LoginAssumption, FS_Subset DEF Verifiers
<1>3. Cardinality(Verifiers) \in Nat /\ Cardinality(Client) \in Nat
  BY <1>2, FS_CardinalityType
<1>4. CASE c.pc = "verify" /\ c.name = Admin
  <2>1. Verifiers' = Verifiers \union {p}
    BY <1>1, <1>4 DEF Verifiers, Verifying
  <2>2. p \notin Verifiers => Cardinality(Verifiers \union {p}) = Cardinality(Verifiers) + 1
    BY <1>2, FS_AddElement
  <2>3. Verifiers \union {p} \subseteq Client
    BY <1>2
  <2>4. Cardinality(Verifiers \union {p}) <= Cardinality(Client)
    BY <1>2, <2>3, FS_Subset
  <2>5. p \in Verifiers => Verifiers \union {p} = Verifiers
    OBVIOUS
  <2>6. QED
    BY <1>2, <1>3, <1>4, <2>1, <2>2, <2>4, <2>5
<1>5. CASE ~(c.pc = "verify" /\ c.name = Admin)
  <2>1. Verifiers' = Verifiers \ {p}
    BY <1>1, <1>5 DEF Verifiers, Verifying
  <2>2. p \in Verifiers => Cardinality(Verifiers \ {p}) = Cardinality(Verifiers) - 1
    BY <1>2, FS_RemoveElement
  <2>3. p \notin Verifiers => Verifiers \ {p} = Verifiers
    OBVIOUS
  <2>4. QED
    BY <1>2, <1>3, <1>5, <2>1, <2>2, <2>3
<1>6. QED
  BY <1>4, <1>5

LEMMA Rounds ==
  /\ Cardinality(Client) \in Nat
  /\ \A e \in Nat : /\ Cardinality(Client) * e \in Nat
                    /\ Cardinality(Client) * (1 + e) = Cardinality(Client) * e + Cardinality(Client)
<1>1. Cardinality(Client) \in Nat
  BY LoginAssumption, FS_CardinalityType
<1>2. \A n, e \in Nat : n * e \in Nat /\ n * (1 + e) = n * e + n
  OBVIOUS
<1>3. QED
  BY <1>1, <1>2

LEMMA GuessesKept ==
  ASSUME LoginType, GuessesCounted, LoginNext
  PROVE  GuessesCounted'
<1> DEFINE N == Cardinality(Client)
           V == Cardinality(Verifiers)
           Limited == sec.attempts > 0 /\ sec.lock > 0
<1> SUFFICES ASSUME past' = {}
             PROVE  GuessesCounted'
  BY DEF GuessesCounted
<1>1. past = {} /\ ~SaveSecurity
  BY DEF LoginNext, SaveSecurity, InitAdmin, LoginMinute, LoginRestart, LoginRequest,
    LoginFails, LoginSucceeds, Guarded, KeyRead, KeyRemove, KeyCreate, KeyWrite,
    ChangePassword, PasswordSaved
<1>2. /\ \A p \in Client : call[p].pc = "verify" => call[p].sec = sec /\ call[p].began = now
      /\ Limited =>
           /\ tested.count = tries[Admin].count + V
           /\ tested.count <= sec.attempts - 1 + N * (1 + tested.ended)
           /\ ~Locked(Admin) => tries[Admin].count <= sec.attempts - 1 + N * tested.ended
  BY <1>1 DEF GuessesCounted
<1>3. /\ sec.attempts \in Nat /\ sec.lock \in Nat /\ now \in Nat
      /\ tries \in [Name -> [count : Nat, until : Nat]] /\ Admin \in Name
      /\ tries[Admin].count \in Nat /\ tries[Admin].until \in Nat
      /\ tested \in [count : Nat, ended : Nat] /\ tested.count \in Nat /\ tested.ended \in Nat
  BY DEF LoginType, Security, Name
<1>4. N \in Nat /\ \A e \in Nat : N * e \in Nat /\ N * (1 + e) = N * e + N
  BY Rounds
<1>5. IsFiniteSet(Verifiers) /\ V \in Nat
  <2>1. IsFiniteSet(Verifiers)
    BY LoginAssumption, FS_Subset DEF Verifiers
  <2>2. QED
    BY <2>1, FS_CardinalityType
\* A request that verifies nothing goes on.
<1>6. ASSUME NEW p \in Client, NEW c, Answers(p, c), UNCHANGED <<sec, tries, now, tested>>,
             call[p].pc # "verify", c.pc # "verify"
      PROVE  GuessesCounted'
  <2>1. call'[p] = c /\ \A q \in Client : q # p => call'[q] = call[q]
    BY <1>6, CallSet
  <2>2. Verifiers' = Verifiers
    BY <1>6, <2>1 DEF Verifiers, Verifying
  <2>3. \A q \in Client : call'[q].pc = "verify" => call'[q].sec = sec' /\ call'[q].began = now'
    BY <1>2, <1>6, <2>1
  <2>4. QED
    BY <1>2, <1>6, <2>2, <2>3 DEF GuessesCounted, Locked
<1>7. CASE InitAdmin
  BY <1>2, <1>7 DEF InitAdmin, GuessesCounted, Locked, Verifiers, Verifying
<1>8. CASE LoginMinute
  <2>1. \A p \in Client : call[p].pc # "verify"
    BY <1>8 DEF LoginMinute, If
  <2>2. UNCHANGED <<call, sec, tries>> /\ now' = now + 1
        /\ tested' = IF Locked(Admin) /\ now' >= tries[Admin].until
                     THEN [tested EXCEPT !.ended = @ + 1] ELSE tested
    BY <1>8 DEF LoginMinute
  <2>3. Verifiers = {} /\ Verifiers' = {}
    BY <2>1, <2>2 DEF Verifiers, Verifying
  <2>4. V = 0 /\ Cardinality(Verifiers') = 0
    BY <2>3, FS_EmptySet
  <2>5. CASE Locked(Admin) /\ now' >= tries[Admin].until
    <3>1. tested'.count = tested.count /\ tested'.ended = tested.ended + 1
      BY <1>3, <2>2, <2>5
    <3>2. tested'.ended \in Nat /\ N * tested'.ended = N * tested.ended + N
          /\ N * tested.ended \in Nat /\ N * (1 + tested.ended) = N * tested.ended + N
      <4> HIDE DEF N
      <4>1. N * (1 + tested.ended) = N * tested.ended + N
        BY <1>3, <1>4
      <4>2. QED
        BY <1>3, <1>4, <3>1, <4>1
    <3>3. N * (1 + tested'.ended) = N * tested'.ended + N
      BY <1>4, <3>2
    <3>4. Limited => /\ tested.count = tries[Admin].count
                     /\ tries[Admin].count <= sec.attempts - 1 + N * tested'.ended
                     /\ tested'.count <= sec.attempts - 1 + N * (1 + tested'.ended)
      <4> HIDE DEF N
      <4>1. QED
        BY <1>2, <1>3, <1>4, <2>4, <3>1, <3>2, <3>3
    <3>5. QED
      BY <2>1, <2>2, <2>4, <3>1, <3>4, <1>3 DEF GuessesCounted
  <2>6. CASE ~(Locked(Admin) /\ now' >= tries[Admin].until)
    <3>1. tested' = tested
      BY <2>2, <2>6
    <3>2. ~Locked(Admin)' => ~Locked(Admin)
      BY <1>3, <2>2, <2>6 DEF Locked
    <3>3. QED
      BY <1>2, <2>1, <2>2, <2>3, <3>1, <3>2 DEF GuessesCounted
  <2>7. QED
    BY <2>5, <2>6
<1>9. CASE LoginRestart
  <2>1. /\ tries' = [u \in Name |-> NoTries] /\ tested' = [count |-> 0, ended |-> 0]
        /\ call' = [p \in Client |-> Waits] /\ sec' = sec
    BY <1>9 DEF LoginRestart
  <2>2. \A p \in Client : call'[p].pc # "verify"
    BY <2>1 DEF Waits
  <2>3. Verifiers' = {}
    BY <2>2 DEF Verifiers, Verifying
  <2>4. Cardinality(Verifiers') = 0
    BY <2>3, FS_EmptySet
  <2>5. tries'[Admin].count = 0 /\ tested'.count = 0 /\ tested'.ended = 0
    BY <1>3, <2>1 DEF NoTries
  <2>6. sec.attempts > 0 => 0 <= sec.attempts - 1 + N * (1 + 0) /\ 0 <= sec.attempts - 1 + N * 0
    <3> HIDE DEF N
    <3>1. QED
      BY <1>3, <1>4
  <2>7. QED
    BY <2>1, <2>2, <2>4, <2>5, <2>6 DEF GuessesCounted
<1>10. ASSUME NEW p \in Client, LoginRequest(p)
       PROVE  GuessesCounted'
  <2>1. PICK u \in Name, w \in Passwords :
          IF sec.attempts > 0 /\ Locked(u)
          THEN Answers(p, Waits) /\ UNCHANGED tested
          ELSE /\ Answers(p, [pc |-> "verify", name |-> u, password |-> w,
                              against |-> account, sec |-> sec, began |-> now])
               /\ tested' = IF u = Admin THEN [tested EXCEPT !.count = @ + 1] ELSE tested
    BY <1>10 DEF LoginRequest
  <2>2. UNCHANGED <<sec, tries, now>> /\ call[p].pc # "verify"
    BY <1>10 DEF LoginRequest, Arrives
  <2>3. CASE sec.attempts > 0 /\ Locked(u)
    BY <1>6, <2>1, <2>2, <2>3 DEF Waits
  <2>4. CASE ~(sec.attempts > 0 /\ Locked(u))
    <3> DEFINE c == [pc |-> "verify", name |-> u, password |-> w, against |-> account,
                     sec |-> sec, began |-> now]
    <3>1. Answers(p, c)
      BY <2>1, <2>4
    <3>2. call'[p] = c /\ \A q \in Client : q # p => call'[q] = call[q]
      BY <3>1, CallSet
    <3>3. \A q \in Client : call'[q].pc = "verify" => call'[q].sec = sec' /\ call'[q].began = now'
      BY <1>2, <2>2, <3>2
    <3>4. p \notin Verifiers
      BY <2>2 DEF Verifiers, Verifying
    <3>5. CASE u = Admin
      <4>1. Cardinality(Verifiers') = V + 1 /\ V + 1 <= N
        BY <3>1, <3>4, <3>5, VerifiersMove
      <4>2. tested'.count = tested.count + 1 /\ tested'.ended = tested.ended
        BY <1>3, <2>1, <2>4, <3>5
      <4>3. Limited => ~Locked(Admin)
        BY <2>4, <3>5
      <4>4. Limited =>
              /\ tested.count + 1 = tries[Admin].count + (V + 1)
              /\ tested.count + 1 <= sec.attempts - 1 + N * (1 + tested.ended)
        <5>1. N * tested.ended \in Nat /\ N * (1 + tested.ended) = N * tested.ended + N
          BY <1>3, <1>4
        <5> HIDE DEF N, V
        <5>2. QED
          BY <1>2, <1>3, <1>4, <1>5, <4>1, <4>3, <5>1
      <4>5. QED
        BY <1>2, <2>2, <3>3, <4>1, <4>2, <4>3, <4>4 DEF GuessesCounted, Locked
    <3>6. CASE u # Admin
      <4>1. Verifiers' = Verifiers /\ tested' = tested
        BY <2>1, <2>4, <3>1, <3>4, <3>6, VerifiersMove
      <4>2. QED
        BY <1>2, <2>2, <3>3, <4>1 DEF GuessesCounted, Locked
    <3>7. QED
      BY <3>5, <3>6
  <2>5. QED
    BY <2>3, <2>4
<1>11. ASSUME NEW p \in Client, LoginFails(p)
       PROVE  GuessesCounted'
  <2>1. /\ Answers(p, Waits) /\ UNCHANGED <<sec, now, tested>> /\ call[p].pc = "verify"
        /\ tries' = IF call[p].sec.attempts = 0 THEN tries
                    ELSE [tries EXCEPT ![call[p].name] = Counted(@, call[p])]
    BY <1>11 DEF LoginFails
  <2>2. call[p].sec = sec /\ call[p].began = now /\ call[p].name \in Name
    BY <1>2, <2>1 DEF LoginType, Carries
  <2>3. call'[p] = Waits /\ \A q \in Client : q # p => call'[q] = call[q]
    BY <2>1, CallSet
  <2>4. \A q \in Client : call'[q].pc = "verify" => call'[q].sec = sec' /\ call'[q].began = now'
    BY <1>2, <2>1, <2>3 DEF Waits
  <2>5. Waits.pc # "verify"
    BY DEF Waits
  <2>6. CASE call[p].name = Admin
    <3>1. p \in Verifiers
      BY <2>1, <2>6 DEF Verifiers, Verifying
    <3>2. Cardinality(Verifiers') = V - 1
      BY <2>1, <2>5, <3>1, VerifiersMove
    <3>3. Limited => tries'[Admin] = Counted(tries[Admin], call[p])
      BY <1>3, <2>1, <2>2, <2>6
    <3>4. Limited =>
            /\ tries'[Admin].count = tries[Admin].count + 1
            /\ tries'[Admin].count >= sec.attempts => tries'[Admin].until = now + sec.lock
      BY <2>2, <3>3 DEF Counted
    <3>5. Limited /\ ~Locked(Admin)' => tries'[Admin].count < sec.attempts
      BY <1>3, <2>1, <3>4 DEF Locked
    <3>6. Limited =>
            /\ tested.count = (tries[Admin].count + 1) + (V - 1)
            /\ tries[Admin].count + 1 < sec.attempts =>
                 tries[Admin].count + 1 <= sec.attempts - 1 + N * tested.ended
      <4>1. N * tested.ended \in Nat
        BY <1>3, <1>4
      <4> HIDE DEF N, V
      <4>2. QED
        BY <1>2, <1>3, <1>5, <4>1
    <3>7. QED
      BY <1>2, <2>1, <2>4, <3>2, <3>4, <3>5, <3>6 DEF GuessesCounted
  <2>7. CASE call[p].name # Admin
    <3>1. Verifiers' = Verifiers
      BY <2>1, <2>5, <2>7, VerifiersMove DEF Verifiers, Verifying
    <3>2. tries'[Admin] = tries[Admin]
      BY <1>3, <2>1, <2>2, <2>7
    <3>3. QED
      BY <1>2, <2>1, <2>4, <3>1, <3>2 DEF GuessesCounted, Locked
  <2>8. QED
    BY <2>6, <2>7
<1>12. ASSUME NEW p \in Client, LoginSucceeds(p)
       PROVE  GuessesCounted'
  <2> DEFINE c == [pc |-> "key", brings |-> {}, began |-> call[p].began, sec |-> call[p].sec,
                   key |-> 0]
  <2>1. /\ tries' = [tries EXCEPT ![Admin] = NoTries] /\ UNCHANGED <<sec, now>>
        /\ tested' = [count |-> Cardinality({q \in Client \ {p} : Verifying(q)}), ended |-> 0]
        /\ Answers(p, c)
    BY <1>12 DEF LoginSucceeds
  <2>2. call'[p] = c /\ \A q \in Client : q # p => call'[q] = call[q]
    BY <2>1, CallSet
  <2>3. \A q \in Client : call'[q].pc = "verify" => call'[q].sec = sec' /\ call'[q].began = now'
    BY <1>2, <2>1, <2>2
  <2>4. Verifiers' = {q \in Client \ {p} : Verifying(q)}
    BY <2>2 DEF Verifiers, Verifying
  <2>5. Cardinality(Verifiers') \in Nat /\ Cardinality(Verifiers') <= N
    <3>1. Verifiers' \subseteq Client /\ IsFiniteSet(Client)
      BY <2>4, LoginAssumption
    <3>2. QED
      BY <3>1, FS_Subset, FS_CardinalityType
  <2>6. tries'[Admin].count = 0 /\ tested'.count = Cardinality(Verifiers') /\ tested'.ended = 0
    BY <1>3, <2>1, <2>4 DEF NoTries
  <2>7. Limited => /\ Cardinality(Verifiers') = 0 + Cardinality(Verifiers')
                   /\ Cardinality(Verifiers') <= sec.attempts - 1 + N * (1 + 0)
                   /\ 0 <= sec.attempts - 1 + N * 0
    <3> HIDE DEF N
    <3>1. QED
      BY <1>3, <1>4, <2>5
  <2>8. QED
    BY <2>1, <2>3, <2>6, <2>7 DEF GuessesCounted
<1>13. ASSUME NEW p \in Client, NEW k, Keyed(p, k), UNCHANGED <<sec, tries, now, tested>>,
              call[p].pc # "verify"
       PROVE  GuessesCounted'
  <2>1. PICK c : Answers(p, c) /\ c.pc \in {"idle", "answered"}
    BY <1>13 DEF Keyed, Waits
  <2>2. QED
    BY <1>6, <1>13, <2>1
<1>14. ASSUME NEW p \in Client, Guarded(p) \/ ChangePassword(p) \/ PasswordSaved(p)
       PROVE  GuessesCounted'
  <2>1. UNCHANGED <<sec, tries, now, tested>> /\ call[p].pc # "verify"
    BY <1>14 DEF Guarded, ChangePassword, PasswordSaved, Arrives
  <2>2. CASE Guarded(p)
    <3>1. PICK t \in tokens, by \in {"header", "query", "cookie"},
               path \in {"plain", "socket", "status"} :
            Answers(p, [pc |-> "key", brings |-> {[token |-> t, by |-> by, path |-> path]},
                        key |-> 0])
      BY <2>2 DEF Guarded
    <3>2. QED
      BY <1>6, <2>1, <3>1
  <2>3. CASE ChangePassword(p)
    <3>1. PICK given, new \in Passwords :
            Answers(p, IF given = account THEN [pc |-> "change", password |-> new] ELSE Waits)
      BY <2>3 DEF ChangePassword
    <3>2. QED
      BY <1>6, <2>1, <3>1 DEF Waits
  <2>4. CASE PasswordSaved(p)
    BY <1>6, <2>1, <2>4 DEF PasswordSaved, Waits
  <2>5. QED
    BY <1>14, <2>2, <2>3, <2>4
<1>15. ASSUME NEW p \in Client, KeyRead(p) \/ KeyRemove(p) \/ KeyCreate(p) \/ KeyWrite(p)
       PROVE  GuessesCounted'
  <2>1. UNCHANGED <<sec, tries, now, tested>> /\ call[p].pc # "verify"
    BY <1>15 DEF KeyRead, KeyRemove, KeyCreate, KeyWrite
  <2>2. \/ Keyed(p, key.value) \/ Keyed(p, call[p].key) \/ Answers(p, Waits)
        \/ Answers(p, [call[p] EXCEPT !.pc = "remove"])
        \/ Answers(p, [call[p] EXCEPT !.pc = "create"])
        \/ Answers(p, [call[p] EXCEPT !.pc = "write", !.key = Fresh])
    BY <1>15 DEF KeyRead, KeyRemove, KeyCreate, KeyWrite
  <2>3. Waits.pc # "verify"
    BY DEF Waits
  <2>4. "pc" \in DOMAIN call[p]
    BY DEF LoginType, Carries
  <2>5. /\ [call[p] EXCEPT !.pc = "remove"].pc = "remove"
        /\ [call[p] EXCEPT !.pc = "create"].pc = "create"
        /\ [call[p] EXCEPT !.pc = "write", !.key = Fresh].pc = "write"
    BY <2>4
  <2>6. QED
    BY <1>6, <1>13, <2>1, <2>2, <2>3, <2>5
<1>16. QED
  BY <1>1, <1>7, <1>8, <1>9, <1>10, <1>11, <1>12, <1>14, <1>15 DEF LoginNext

LEMMA LoginKept == LoginSound /\ [Next]_vars => LoginSound'
<1> SUFFICES ASSUME LoginSound, [Next]_vars
             PROVE  LoginSound'
  OBVIOUS
<1>1. CASE UNCHANGED vars
  <2>1. UNCHANGED <<part, past, loginVars>>
    BY <1>1 DEF vars, shared
  <2>2. QED
    BY <2>1 DEF LoginSound, LoginType, KeyMade, GuessesCounted, Making, Verifiers, Verifying,
      Locked, loginVars
<1>2. CASE Next /\ part = "login"
  <2>1. LoginNext /\ UNCHANGED part
    BY <1>2, LoginSteps
  <2>2. QED
    BY <1>2, <2>1, LoginTypeKept, KeyMadeKept, GuessesKept DEF LoginSound
<1>3. CASE Next /\ part # "login"
  <2>1. UNCHANGED <<part, loginVars>>
    BY <1>3, LoginSteps
  <2>2. QED
    BY <1>3, <2>1 DEF LoginSound, LoginType, loginVars
<1>4. QED
  BY <1>1, <1>2, <1>3

LEMMA LoginAlways == Spec => []LoginSound
BY LoginStarts, LoginKept, PTL DEF Spec

\* Whatever the requests, settings and restarts, a token that was issued is honoured until
\* it expires, unless two requests make the key at the same time.
THEOREM TokensAlwaysHonoured == Spec => []TokensHonoured
<1>1. LoginSound => TokensHonoured
  BY DEF LoginSound, KeyMade, TokensHonoured
<1>2. QED
  BY <1>1, LoginAlways, PTL

\* Whatever the number of requests, passwords are guessed no faster than the settings allow.
THEOREM GuessesLimited == Spec => []GuessLimit
<1>1. LoginSound => GuessLimit
  <2> SUFFICES ASSUME LoginSound, past = {}, sec.attempts > 0, sec.lock > 0
               PROVE  tested.count <=
                        sec.attempts - 1 + Cardinality(Client) * (1 + tested.ended)
    BY DEF GuessLimit
  <2>1. CASE part = "login"
    BY <2>1 DEF LoginSound, GuessesCounted
  <2>2. CASE part # "login"
    <3>1. tested.count = 0 /\ tested.ended = 0 /\ sec.attempts \in Nat
      BY <2>2 DEF LoginSound, LoginType, Security
    <3>2. Cardinality(Client) \in Nat
      BY Rounds
    <3>3. 0 <= sec.attempts - 1 + Cardinality(Client) * (1 + 0)
      BY <3>1, <3>2
    <3>4. QED
      BY <3>1, <3>3
  <2>3. QED
    BY <2>1, <2>2
<1>2. QED
  BY <1>1, LoginAlways, PTL

-----------------------------------------------------------------------------
(* Certificates.                                                           *)

LEMMA AcmeSteps ==
  ASSUME Next
  PROVE  /\ UNCHANGED part
         /\ \/ part = "acme" /\ AcmeNext
            \/ part # "acme" /\ UNCHANGED acmeVars
BY DEF Next, Policies, InRules, Acme, Logins, Updates, Mails, Within

Writes(c) == c.pc \in {"crt", "key", "delete"}

\* What an order carries along.
Ordered(c) ==
  /\ "pc" \in DOMAIN c
  /\ c # NoOrder => "new" \in DOMAIN c /\ c.for.domain \in Domain

AcmeType ==
  /\ acme.domain \in Domain
  /\ DOMAIN crt = Domain /\ DOMAIN pem = Domain
  /\ DOMAIN order = Orderer /\ \A p \in Orderer : Ordered(order[p])

\* The certificate of a domain that an operation writes is known from what it does next;
\* while no operation writes it, it is that of the key.
Paired ==
  past = {} => \A d \in Domain :
    /\ \A p, q \in Writing(d) : p = q
    /\ Writing(d) = {} => crt[d] = pem[d]
    /\ \A p \in Writing(d) :
         /\ order[p].pc = "crt" => crt[d] = pem[d]
         /\ order[p].pc = "key" => crt[d] = {order[p].new}
         /\ order[p].pc = "delete" => crt[d] = {}

AcmeSound ==
  /\ part = "acme" => AcmeType /\ Paired
  /\ part # "acme" => crt = pem

LEMMA AcmeStarts == Init => AcmeSound
<1> SUFFICES ASSUME Init PROVE AcmeSound
  OBVIOUS
<1>1. /\ crt = [d \in Domain |-> {}] /\ pem = crt /\ order = [p \in Orderer |-> NoOrder]
      /\ acme \in AcmePlans
  BY AcmeAssumption DEF Init, AcmeInit
<1>2. AcmeType
  BY <1>1, AcmeAssumption DEF AcmeType, Ordered, NoOrder
<1>3. \A d \in Domain : Writing(d) = {}
  BY <1>1 DEF Writing, NoOrder
<1>4. QED
  BY <1>1, <1>2, <1>3 DEF AcmeSound, Paired

\* p goes on to c, and writes what it has written.
LEMMA OrderSet ==
  ASSUME AcmeType, NEW p \in Orderer, NEW c, order' = [order EXCEPT ![p] = c]
  PROVE  /\ DOMAIN order' = Orderer /\ order'[p] = c
         /\ \A q \in Orderer : q # p => order'[q] = order[q]
         /\ \A d \in Domain :
              Writing(d)' = (Writing(d) \ {p})
                            \union If(Writes(c) /\ c.for.domain = d, {p})
<1>1. /\ DOMAIN order' = Orderer /\ order'[p] = c
      /\ \A q \in Orderer : q # p => order'[q] = order[q]
  BY DEF AcmeType
<1>2. QED
  BY <1>1 DEF Writing, Writes, If

LEMMA OrderTypeBy ==
  ASSUME AcmeType, NEW p \in Orderer, NEW c, order' = [order EXCEPT ![p] = c], Ordered(c),
         acme' = acme, DOMAIN crt' = Domain, DOMAIN pem' = Domain
  PROVE  AcmeType'
<1>1. DOMAIN order' = Orderer /\ \A q \in Orderer : Ordered(order'[q])
  BY OrderSet DEF AcmeType
<1>2. QED
  BY <1>1 DEF AcmeType

\* The order goes to the step l.
LEMMA MovesTo ==
  ASSUME AcmeType, NEW p \in Orderer, NEW l, order[p] # NoOrder, Moves(p, l)
  PROVE  \E c : /\ order' = [order EXCEPT ![p] = c] /\ Ordered(c)
                /\ c.pc = l /\ c.for = order[p].for /\ c.new = order[p].new
<1> DEFINE c == [order[p] EXCEPT !.pc = l]
<1>1. "pc" \in DOMAIN order[p] /\ "new" \in DOMAIN order[p] /\ order[p].for.domain \in Domain
  BY DEF AcmeType, Ordered
<1>2. order' = [order EXCEPT ![p] = c]
  BY DEF Moves
<1>3. c.pc = l /\ c.for = order[p].for /\ c.new = order[p].new /\ DOMAIN c = DOMAIN order[p]
  BY <1>1
<1>4. Ordered(c)
  BY <1>1, <1>3 DEF Ordered
<1>5. QED
  BY <1>2, <1>3, <1>4

LEMMA EndOrdered == Ordered(NoOrder) /\ ~Writes(NoOrder)
BY DEF Ordered, NoOrder, Writes

LEMMA AcmeKept ==
  ASSUME AcmeType, Paired, AcmeNext
  PROVE  AcmeType' /\ Paired'
<1>1. past' = {} => past = {}
  BY DEF AcmeNext, SaveAcme, Renew, Account, NewOrder, Challenge, Poll, Finalise, WriteCrt,
    WriteKey, DeleteCrt, DeleteKey, Ages, AcmeRestart, Meets
\* Nobody writes who did not, and the files stay.
<1>2. ASSUME NEW p \in Orderer, NEW c, order' = [order EXCEPT ![p] = c], Ordered(c),
             ~Writes(order[p]), ~Writes(c), UNCHANGED <<acme, crt, pem>>
      PROVE  AcmeType' /\ Paired'
  <2>1. AcmeType'
    BY <1>2, OrderTypeBy DEF AcmeType
  <2>2. \A d \in Domain : p \notin Writing(d) /\ Writing(d)' = Writing(d)
    BY <1>2, OrderSet DEF Writing, Writes, If
  <2>3. \A q \in Orderer : q # p => order'[q] = order[q]
    BY <1>2, OrderSet
  <2>4. Paired'
    BY <1>1, <1>2, <2>2, <2>3 DEF Paired, Writing
  <2>5. QED
    BY <2>1, <2>4
\* An order goes on that has not begun to write, or ends.
<1>3. ASSUME NEW p \in Orderer, order[p] # NoOrder, ~Writes(order[p]), UNCHANGED <<acme, crt, pem>>,
             NEW l, l \notin {"crt", "key", "delete"}, Moves(p, l) \/ Ends(p)
      PROVE  AcmeType' /\ Paired'
  <2>1. CASE Moves(p, l)
    <3>1. PICK c : order' = [order EXCEPT ![p] = c] /\ Ordered(c) /\ c.pc = l
      BY <1>3, <2>1, MovesTo
    <3>2. QED
      BY <1>2, <1>3, <3>1 DEF Writes
  <2>2. CASE Ends(p)
    BY <1>2, <1>3, <2>2, EndOrdered DEF Ends
  <2>3. QED
    BY <1>3, <2>1, <2>2
\* The files of a domain d are written by p alone, which goes on to c.
<1>4. ASSUME NEW p \in Orderer, NEW c, order' = [order EXCEPT ![p] = c], Ordered(c),
             NEW d \in Domain, acme' = acme,
             DOMAIN crt' = Domain, DOMAIN pem' = Domain,
             \A e \in Domain \ {d} : crt'[e] = crt[e] /\ pem'[e] = pem[e],
             Writes(c) => c.for.domain = d,
             past' = {} =>
               /\ \A e \in Domain \ {d} : p \notin Writing(e)
               /\ Writing(d) \subseteq {p}
               /\ c.pc \notin {"key", "delete"} => crt'[d] = pem'[d]
               /\ c.pc = "key" => crt'[d] = {c.new}
               /\ c.pc = "delete" => crt'[d] = {}
      PROVE  AcmeType' /\ Paired'
  <2>1. AcmeType'
    BY <1>4, OrderTypeBy
  <2>2. ASSUME past' = {}, NEW e \in Domain \ {d}
        PROVE  /\ \A x, y \in Writing(e)' : x = y
               /\ Writing(e)' = {} => crt'[e] = pem'[e]
               /\ \A x \in Writing(e)' :
                    /\ order'[x].pc = "crt" => crt'[e] = pem'[e]
                    /\ order'[x].pc = "key" => crt'[e] = {order'[x].new}
                    /\ order'[x].pc = "delete" => crt'[e] = {}
    <3>1. Writing(e)' = Writing(e)
      <4>1. Writing(e)' = (Writing(e) \ {p}) \union If(Writes(c) /\ c.for.domain = e, {p})
        <5>1. e \in Domain
          BY <2>2
        <5>2. \A x \in Domain : Writing(x)' = (Writing(x) \ {p})
                 \union If(Writes(c) /\ c.for.domain = x, {p})
          BY <1>4, OrderSet
        <5>3. QED
          BY <5>1, <5>2
      <4>2. p \notin Writing(e) /\ ~(Writes(c) /\ c.for.domain = e)
        BY <1>4, <2>2
      <4>3. QED
        BY <4>1, <4>2 DEF If
    <3>2. \A x \in Writing(e) : order'[x] = order[x]
      BY <1>4, <2>2, OrderSet DEF Writing
    <3>3. QED
      BY <1>1, <1>4, <2>2, <3>1, <3>2 DEF Paired
  <2>3. ASSUME past' = {}
        PROVE  /\ \A x, y \in Writing(d)' : x = y
               /\ Writing(d)' = {} => crt'[d] = pem'[d]
               /\ \A x \in Writing(d)' :
                    /\ order'[x].pc = "crt" => crt'[d] = pem'[d]
                    /\ order'[x].pc = "key" => crt'[d] = {order'[x].new}
                    /\ order'[x].pc = "delete" => crt'[d] = {}
    <3>1. Writing(d)' = If(Writes(c), {p})
      <4>1. Writing(d)' = (Writing(d) \ {p}) \union If(Writes(c) /\ c.for.domain = d, {p})
        BY <1>4, OrderSet
      <4>2. Writing(d) \ {p} = {} /\ (Writes(c) => c.for.domain = d)
        BY <1>4, <2>3
      <4>3. QED
        BY <4>1, <4>2 DEF If
    <3>2. order'[p] = c
      BY <1>4, OrderSet
    <3>3. QED
      BY <1>4, <2>3, <3>1, <3>2 DEF If, Writes
  <2>4. Paired'
    BY <2>2, <2>3 DEF Paired
  <2>5. QED
    BY <2>1, <2>4
<1>5. CASE SaveAcme
  <2>1. acme' \in AcmePlans /\ UNCHANGED <<past, crt, pem, order>>
    BY <1>5 DEF SaveAcme
  <2>2. QED
    BY <2>1, AcmeAssumption DEF AcmeType, Paired, Writing
<1>6. CASE Ages
  <2>1. UNCHANGED <<past, acme, crt, pem, order>>
    BY <1>6 DEF Ages
  <2>2. QED
    BY <2>1 DEF AcmeType, Paired, Writing
<1>7. CASE AcmeRestart
  <2>1. order' = [p \in Orderer |-> NoOrder] /\ UNCHANGED <<acme, crt, pem>>
    BY <1>7 DEF AcmeRestart
  <2>2. past' = {} => \A d \in Domain : Writing(d) = {}
    BY <1>7 DEF AcmeRestart, If
  <2>3. \A d \in Domain : Writing(d)' = {}
    BY <2>1 DEF Writing, NoOrder
  <2>4. AcmeType'
    BY <2>1, EndOrdered DEF AcmeType
  <2>5. Paired'
    BY <1>1, <2>1, <2>2, <2>3 DEF Paired
  <2>6. QED
    BY <2>4, <2>5
<1>8. ASSUME NEW p \in Orderer, Renew(p)
      PROVE  AcmeType' /\ Paired'
  <2> DEFINE c == [pc |-> "account", for |-> acme, new |-> 0]
  <2>1. order[p] = NoOrder /\ UNCHANGED <<past, acme, crt, pem>>
        /\ (order' = [order EXCEPT ![p] = c] \/ order' = order)
    BY <1>8 DEF Renew
  <2>2. Ordered(c) /\ ~Writes(c)
    BY DEF AcmeType, Ordered, Writes
  <2>3. QED
    BY <1>2, <2>1, <2>2, EndOrdered DEF AcmeType, Paired, Writing
<1>9. ASSUME NEW p \in Orderer, Account(p)
      PROVE  AcmeType' /\ Paired'
  <2>1. order[p] # NoOrder /\ ~Writes(order[p]) /\ UNCHANGED <<acme, crt, pem>>
    BY <1>9 DEF Account, NoOrder, Writes
  <2>2. Moves(p, "order") \/ Ends(p)
    BY <1>9 DEF Account
  <2>3. QED
    BY <1>3, <2>1, <2>2
<1>10. ASSUME NEW p \in Orderer, NewOrder(p)
       PROVE  AcmeType' /\ Paired'
  <2>1. order[p] # NoOrder /\ ~Writes(order[p]) /\ UNCHANGED <<acme, crt, pem>>
    BY <1>10 DEF NewOrder, NoOrder, Writes
  <2>2. Moves(p, "challenge") \/ Ends(p)
    BY <1>10 DEF NewOrder
  <2>3. QED
    BY <1>3, <2>1, <2>2
<1>11. ASSUME NEW p \in Orderer, Challenge(p)
       PROVE  AcmeType' /\ Paired'
  <2>1. order[p] # NoOrder /\ ~Writes(order[p]) /\ UNCHANGED <<acme, crt, pem>>
    BY <1>11 DEF Challenge, NoOrder, Writes
  <2>2. Moves(p, "poll") \/ Ends(p)
    BY <1>11 DEF Challenge
  <2>3. QED
    BY <1>3, <2>1, <2>2
<1>12. ASSUME NEW p \in Orderer, Poll(p)
       PROVE  AcmeType' /\ Paired'
  <2>1. order[p] # NoOrder /\ ~Writes(order[p]) /\ UNCHANGED <<acme, crt, pem>>
    BY <1>12 DEF Poll, NoOrder, Writes
  <2>2. Moves(p, "finalise") \/ Ends(p)
    BY <1>12 DEF Poll
  <2>3. QED
    BY <1>3, <2>1, <2>2
<1>13. ASSUME NEW p \in Orderer, Finalise(p)
       PROVE  AcmeType' /\ Paired'
  <2>1. /\ order[p].pc = "finalise" /\ order[p] # NoOrder /\ ~Writes(order[p])
        /\ UNCHANGED <<acme, crt, pem>>
    BY <1>13 DEF Finalise, NoOrder, Writes
  <2>2. CASE Ends(p)
    BY <1>3, <2>1, <2>2
  <2>3. CASE /\ order' = [order EXCEPT ![p].pc = "crt", ![p].new = pairs']
             /\ Meets(p, order[p].for.domain)
    <3> DEFINE c == [order[p] EXCEPT !.pc = "crt", !.new = pairs']
               d == order[p].for.domain
    <3>1. "pc" \in DOMAIN order[p] /\ "new" \in DOMAIN order[p] /\ d \in Domain
      BY <2>1 DEF AcmeType, Ordered
    <3>2. order' = [order EXCEPT ![p] = c]
      BY <2>3 DEF AcmeType
    <3>3. c.pc = "crt" /\ c.for = order[p].for /\ DOMAIN c = DOMAIN order[p]
      BY <3>1
    <3>4. Ordered(c)
      BY <3>1, <3>3 DEF Ordered
    <3>5. past' = {} => Writing(d) \subseteq {p}
      BY <2>3 DEF Meets, If
    <3>6. \A e \in Domain : p \notin Writing(e)
      BY <2>1 DEF Writing, Writes
    <3>7. past' = {} => crt[d] = pem[d]
      BY <1>1, <3>1, <3>5, <3>6 DEF Paired
    <3> HIDE DEF c, d
    <3>8. c.for.domain = d
      BY <3>3 DEF d
    <3>9. DOMAIN crt' = Domain /\ DOMAIN pem' = Domain
      BY <2>1 DEF AcmeType
    <3>10. QED
      BY <1>4, <2>1, <3>1, <3>2, <3>3, <3>4, <3>5, <3>6, <3>7, <3>8, <3>9
  <2>4. QED
    BY <1>13, <2>2, <2>3 DEF Finalise
<1>14. ASSUME NEW p \in Orderer, order[p] # NoOrder, Writes(order[p])
       PROVE  /\ order[p].for.domain \in Domain
              /\ p \in Writing(order[p].for.domain)
              /\ \A e \in Domain : e # order[p].for.domain => p \notin Writing(e)
              /\ past = {} => Writing(order[p].for.domain) \subseteq {p}
  BY <1>14 DEF AcmeType, Ordered, Writing, Writes, Paired
<1>15. ASSUME NEW p \in Orderer, WriteCrt(p)
       PROVE  AcmeType' /\ Paired'
  <2> DEFINE d == order[p].for.domain
  <2>1. order[p].pc = "crt" /\ order[p] # NoOrder /\ Writes(order[p]) /\ UNCHANGED <<acme, pem>>
    BY <1>15 DEF WriteCrt, NoOrder, Writes
  <2>2. d \in Domain /\ DOMAIN crt = Domain /\ DOMAIN pem = Domain
    BY <1>14, <2>1 DEF AcmeType
  <2>3. PICK v : crt' = [crt EXCEPT ![d] = v]
    BY <1>15 DEF WriteCrt
  <2>4. DOMAIN crt' = Domain /\ crt'[d] = v /\ \A e \in Domain \ {d} : crt'[e] = crt[e]
    BY <2>2, <2>3
  <2>5. CASE crt' = [crt EXCEPT ![d] = {order[p].new}] /\ Moves(p, "key")
    <3>1. PICK c : /\ order' = [order EXCEPT ![p] = c] /\ Ordered(c)
                   /\ c.pc = "key" /\ c.for = order[p].for /\ c.new = order[p].new
      BY <2>1, <2>5, MovesTo
    <3>2. crt'[d] = {c.new}
      BY <2>2, <2>5, <3>1
    <3> HIDE DEF d
    <3>3. c.for.domain = d
      BY <3>1 DEF d
    <3>4. \A e \in Domain \ {d} : p \notin Writing(e)
      BY <1>14, <2>1 DEF d
    <3>5. past' = {} => Writing(d) \subseteq {p}
      BY <1>1, <1>14, <2>1 DEF d
    <3>6. past' = {} =>
            /\ \A e \in Domain \ {d} : p \notin Writing(e)
            /\ Writing(d) \subseteq {p}
            /\ c.pc \notin {"key", "delete"} => crt'[d] = pem'[d]
            /\ c.pc = "key" => crt'[d] = {c.new}
            /\ c.pc = "delete" => crt'[d] = {}
      BY <3>1, <3>2, <3>4, <3>5
    <3>7. /\ DOMAIN crt' = Domain /\ DOMAIN pem' = Domain /\ acme' = acme
          /\ \A e \in Domain \ {d} : crt'[e] = crt[e] /\ pem'[e] = pem[e]
      BY <2>1, <2>2, <2>4
    <3>8. order' = [order EXCEPT ![p] = c] /\ Ordered(c) /\ d \in Domain
      BY <2>2, <3>1
    <3>9. QED
      BY <1>4, <3>3, <3>6, <3>7, <3>8
  <2>6. CASE Ends(p) /\ past' = past \union {"halved"}
    <3>1. order' = [order EXCEPT ![p] = NoOrder] /\ past' # {}
      BY <2>6 DEF Ends
    <3> HIDE DEF d
    <3>2. QED
      BY <1>4, <2>1, <2>2, <2>4, <3>1, EndOrdered
  <2>7. QED
    BY <1>15, <2>5, <2>6 DEF WriteCrt
<1>16. ASSUME NEW p \in Orderer, WriteKey(p)
       PROVE  AcmeType' /\ Paired'
  <2> DEFINE d == order[p].for.domain
  <2>1. /\ order[p].pc = "key" /\ order[p] # NoOrder /\ Writes(order[p])
        /\ UNCHANGED <<acme, crt>> /\ order' = [order EXCEPT ![p] = NoOrder]
    BY <1>16 DEF WriteKey, NoOrder, Writes, Ends
  <2>2. d \in Domain /\ DOMAIN crt = Domain /\ DOMAIN pem = Domain
    BY <1>14, <2>1 DEF AcmeType
  <2>3. PICK v : /\ pem' = [pem EXCEPT ![d] = v]
                 /\ past' = {} => v = {order[p].new}
    BY <1>16 DEF WriteKey
  <2>4. DOMAIN pem' = Domain /\ pem'[d] = v /\ \A e \in Domain \ {d} : pem'[e] = pem[e]
    BY <2>2, <2>3
  <2>5. past' = {} => crt[d] = {order[p].new}
    BY <1>1, <1>14, <2>1, <2>2 DEF Paired
  <2> HIDE DEF d
  <2>6. \A e \in Domain \ {d} : p \notin Writing(e)
    BY <1>14, <2>1 DEF d
  <2>7. past' = {} => Writing(d) \subseteq {p}
    BY <1>1, <1>14, <2>1 DEF d
  <2>8. NoOrder.pc \notin {"key", "delete"}
    BY DEF NoOrder
  <2>9. QED
    BY <1>4, <2>1, <2>2, <2>3, <2>4, <2>5, <2>6, <2>7, <2>8, EndOrdered
<1>17. ASSUME NEW p \in Orderer, DeleteKey(p)
       PROVE  AcmeType' /\ Paired'
  <2> DEFINE d == order[p].for.domain
  <2>1. /\ order[p].pc = "delete" /\ order[p] # NoOrder /\ Writes(order[p])
        /\ UNCHANGED <<acme, crt>> /\ order' = [order EXCEPT ![p] = NoOrder]
    BY <1>17 DEF DeleteKey, NoOrder, Writes, Ends
  <2>2. d \in Domain /\ DOMAIN crt = Domain /\ DOMAIN pem = Domain
    BY <1>14, <2>1 DEF AcmeType
  <2>3. /\ DOMAIN pem' = Domain
        /\ \A e \in Domain \ {d} : pem'[e] = pem[e]
        /\ past' = {} => pem'[d] = {}
    BY <1>17, <2>2 DEF DeleteKey
  <2>4. past' = {} => crt[d] = {}
    BY <1>1, <1>14, <2>1, <2>2 DEF Paired
  <2> HIDE DEF d
  <2>5. \A e \in Domain \ {d} : p \notin Writing(e)
    BY <1>14, <2>1 DEF d
  <2>6. past' = {} => Writing(d) \subseteq {p}
    BY <1>1, <1>14, <2>1 DEF d
  <2>7. NoOrder.pc \notin {"key", "delete"}
    BY DEF NoOrder
  <2>8. QED
    BY <1>4, <2>1, <2>2, <2>3, <2>4, <2>5, <2>6, <2>7, EndOrdered
<1>18. ASSUME NEW p \in Orderer, DeleteCrt(p)
       PROVE  AcmeType' /\ Paired'
  <2> DEFINE d == acme.domain
             c == [pc |-> "delete", for |-> acme, new |-> 0]
  <2>1. /\ order[p] = NoOrder /\ crt' = [crt EXCEPT ![d] = {}] /\ UNCHANGED <<acme, pem>>
        /\ order' = [order EXCEPT ![p] = c] /\ Meets(p, d)
    BY <1>18 DEF DeleteCrt
  <2>2. d \in Domain /\ DOMAIN crt = Domain /\ DOMAIN pem = Domain /\ Ordered(c)
    BY DEF AcmeType, Ordered
  <2>3. DOMAIN crt' = Domain /\ crt'[d] = {} /\ \A e \in Domain \ {d} : crt'[e] = crt[e]
    BY <2>1, <2>2
  <2>4. \A e \in Domain : p \notin Writing(e)
    BY <2>1 DEF Writing, NoOrder
  <2>5. past' = {} => Writing(d) \subseteq {p}
    BY <2>1 DEF Meets, If
  <2>6. c.pc = "delete" /\ c.for.domain = d
    OBVIOUS
  <2> HIDE DEF c, d
  <2>7. QED
    BY <1>4, <2>1, <2>2, <2>3, <2>4, <2>5, <2>6
<1>19. QED
  BY <1>5, <1>6, <1>7, <1>8, <1>9, <1>10, <1>11, <1>12, <1>13, <1>15, <1>16, <1>17, <1>18
    DEF AcmeNext

LEMMA AcmeAlways == Spec => []AcmeSound
<1>1. AcmeSound /\ [Next]_vars => AcmeSound'
  <2> SUFFICES ASSUME AcmeSound, [Next]_vars
               PROVE  AcmeSound'
    OBVIOUS
  <2>1. CASE UNCHANGED vars
    <3>1. UNCHANGED <<part, past, acmeVars>>
      BY <2>1 DEF vars, shared
    <3>2. QED
      BY <3>1 DEF AcmeSound, AcmeType, Paired, Writing, acmeVars
  <2>2. CASE Next /\ part = "acme"
    <3>1. AcmeNext /\ UNCHANGED part
      BY <2>2, AcmeSteps
    <3>2. QED
      BY <2>2, <3>1, AcmeKept DEF AcmeSound
  <2>3. CASE Next /\ part # "acme"
    <3>1. UNCHANGED <<part, acmeVars>>
      BY <2>3, AcmeSteps
    <3>2. QED
      BY <2>3, <3>1 DEF AcmeSound, acmeVars
  <2>4. QED
    BY <2>1, <2>2, <2>3
<1>2. QED
  BY <1>1, AcmeStarts, PTL DEF Spec

\* However orders, renewals and removals follow on one another, for every number of them and
\* of domains, the certificate of a domain is that of its key.
THEOREM PairsAlwaysMatch == Spec => []PairsMatch
<1>1. AcmeSound => PairsMatch
  BY DEF AcmeSound, Paired, PairsMatch
<1>2. QED
  BY <1>1, AcmeAlways, PTL

-----------------------------------------------------------------------------
(* Notifications.                                                          *)

LEMMA NotifySteps ==
  ASSUME Next
  PROVE  /\ UNCHANGED part
         /\ \/ part = "notify" /\ NotifyNext
            \/ part # "notify" /\ UNCHANGED notifyVars
BY DEF Next, Policies, InRules, Acme, Logins, Updates, Mails, Within

Buckets == [max : Nat, tokens : Nat, age : 0..2]
Letters == [events : Nat, tries : 0..2]

NotifyType ==
  /\ mail \in MailPlans /\ queue \in Nat /\ buffer \in Nat
  /\ limiter = {} \/ \E b \in Buckets : limiter = {b}
  /\ letter \in Letters /\ (letter # NoLetter => letter.tries > 0)
  /\ sent \in [now : Nat, before : Nat]
  /\ tally \in [taken : Nat, mailed : Nat]

\* The mail that is being sent has its token, and will be sent once.
Flying == IF letter = NoLetter THEN 0 ELSE 1

\* With a bucket b: the mails sent since it was filled, and the one being sent, have cost
\* as many tokens; those of the half minutes before it was filled were of one bucket more.
Metered(b) ==
  /\ b.max = mail.limit /\ b.tokens <= b.max
  /\ Flying <= b.max - b.tokens
  /\ b.age >= 1 => sent.now + Flying <= b.max - b.tokens
  /\ b.age >= 2 => sent.now + sent.before + Flying <= b.max - b.tokens
  /\ sent.now + sent.before + Flying <= 2 * b.max - b.tokens

MailsMetered ==
  past \subseteq {"failed"} =>
    /\ limiter = {} => sent.now = 0 /\ sent.before = 0 /\ letter = NoLetter
    /\ \A b \in limiter : Metered(b)

NothingLost ==
  past = {} /\ mail.on /\ mail.wants /\ mail.digest =>
    tally.taken = tally.mailed + queue + buffer + letter.events

NotifySound ==
  /\ NotifyType
  /\ part = "notify" => MailsMetered /\ NothingLost
  /\ part # "notify" =>
       /\ sent = [now |-> 0, before |-> 0] /\ tally = [taken |-> 0, mailed |-> 0]
       /\ queue = 0 /\ buffer = 0 /\ letter = NoLetter

LEMMA NotifyStarts == Init => NotifySound
<1> SUFFICES ASSUME Init PROVE NotifySound
  OBVIOUS
<1>1. /\ mail \in MailPlans /\ queue = 0 /\ buffer = 0 /\ limiter = {} /\ letter = NoLetter
      /\ sent = [now |-> 0, before |-> 0] /\ tally = [taken |-> 0, mailed |-> 0]
  BY NotifyAssumption DEF Init, NotifyInit
<1>2. NotifyType
  BY <1>1 DEF NotifyType, NoLetter, Letters
<1>3. QED
  BY <1>1, <1>2 DEF NotifySound, MailsMetered, NothingLost, NoLetter

\* A mail of n events, from a bucket that tells the truth.
LEMMA MailingSound ==
  ASSUME NotifyType, NEW b \in Buckets, NEW n \in Nat, Mailing(b, n), Idle
  PROVE  /\ \E c \in Buckets : limiter' = {c}
         /\ letter' \in Letters
         /\ letter' = letter \/ letter' = [events |-> n, tries |-> 2]
         /\ UNCHANGED <<mail, sent>> /\ Metered(b) => \A c \in limiter' : Metered(c)'
<1> DEFINE full == Refilled(b)
<1>1. /\ b.max \in Nat /\ b.tokens \in Nat /\ b.age \in 0..2 /\ mail.limit \in Nat
      /\ sent.now \in Nat /\ sent.before \in Nat /\ letter = NoLetter /\ letter \in Letters
  BY NotifyAssumption DEF NotifyType, Buckets, Idle
<1>2. /\ full \in Buckets /\ full.max = b.max
      /\ b.age >= 2 => full.tokens = b.max /\ full.age = 0
      /\ b.age < 2 => full = b
  BY <1>1 DEF Refilled, Bucket, Buckets
<1>3. full.tokens \in Nat /\ full.age \in 0..2 /\ full.max \in Nat
  BY <1>2 DEF Buckets
<1>4. CASE full.tokens > 0
  <2> DEFINE c == [full EXCEPT !.tokens = @ - 1]
             l == [events |-> n, tries |-> 2]
  <2>1. limiter' = {c} /\ letter' = l
    BY <1>4 DEF Mailing
  <2>2. c \in Buckets /\ c.max = full.max /\ c.tokens = full.tokens - 1 /\ c.age = full.age
    BY <1>2, <1>3, <1>4 DEF Buckets
  <2>3. l \in Letters /\ l # NoLetter
    BY DEF Letters, NoLetter
  <2>4. ASSUME UNCHANGED <<mail, sent>>, Metered(b)
        PROVE  Metered(c)'
    <3>1. Flying = 0 /\ Flying' = 1
      BY <1>1, <2>1, <2>3 DEF Flying
    <3>2. c' = c
      BY DEF Refilled, Bucket
    <3> HIDE DEF c, full, l
    <3>3. /\ b.max = mail.limit /\ b.tokens <= b.max
          /\ b.age >= 1 => sent.now <= b.max - b.tokens
          /\ b.age >= 2 => sent.now + sent.before <= b.max - b.tokens
          /\ sent.now + sent.before <= 2 * b.max - b.tokens
      BY <1>1, <2>4, <3>1 DEF Metered
    <3>4. /\ c.max = mail.limit /\ c.tokens <= c.max
          /\ 1 <= c.max - c.tokens
          /\ c.age >= 1 => sent.now + 1 <= c.max - c.tokens
          /\ c.age >= 2 => sent.now + sent.before + 1 <= c.max - c.tokens
          /\ sent.now + sent.before + 1 <= 2 * c.max - c.tokens
      <4>1. CASE b.age >= 2
        BY <1>1, <1>2, <1>4, <2>2, <3>3, <4>1
      <4>2. CASE b.age < 2
        BY <1>1, <1>2, <1>4, <2>2, <3>3, <4>2
      <4>3. QED
        BY <1>1, <4>1, <4>2
    <3>5. QED
      BY <2>4, <3>1, <3>2, <3>4 DEF Metered
  <2>5. QED
    BY <2>1, <2>2, <2>3, <2>4
<1>5. CASE ~(full.tokens > 0)
  <2>1. limiter' = {full} /\ letter' = letter
    BY <1>5 DEF Mailing
  <2>2. ASSUME UNCHANGED <<mail, sent>>, Metered(b)
        PROVE  Metered(full)'
    <3>1. Flying = 0 /\ Flying' = 0 /\ full' = full
      BY <1>1, <2>1 DEF Flying, Refilled, Bucket
    <3> HIDE DEF full
    <3>2. /\ b.max = mail.limit /\ b.tokens <= b.max
          /\ b.age >= 1 => sent.now <= b.max - b.tokens
          /\ b.age >= 2 => sent.now + sent.before <= b.max - b.tokens
          /\ sent.now + sent.before <= 2 * b.max - b.tokens
      BY <1>1, <2>2, <3>1 DEF Metered
    <3>3. /\ full.max = mail.limit /\ full.tokens <= full.max /\ 0 <= full.max - full.tokens
          /\ full.age >= 1 => sent.now <= full.max - full.tokens
          /\ full.age >= 2 => sent.now + sent.before <= full.max - full.tokens
          /\ sent.now + sent.before <= 2 * full.max - full.tokens
      <4>1. CASE b.age >= 2
        BY <1>1, <1>2, <1>3, <3>2, <4>1
      <4>2. CASE b.age < 2
        BY <1>1, <1>2, <1>3, <3>2, <4>2
      <4>3. QED
        BY <1>1, <4>1, <4>2
    <3>4. QED
      BY <1>1, <2>2, <3>1, <3>3 DEF Metered
  <2>3. QED
    BY <1>1, <1>2, <2>1, <2>2
<1>6. QED
  BY <1>4, <1>5

\* A new bucket tells the truth as long as no mail was sent.
LEMMA NewBucket ==
  ASSUME NotifyType
  PROVE  /\ Bucket(mail.limit) \in Buckets
         /\ sent.now = 0 /\ sent.before = 0 /\ letter = NoLetter => Metered(Bucket(mail.limit))
<1>1. mail.limit \in Nat
  BY NotifyAssumption DEF NotifyType
<1>2. Bucket(mail.limit) \in Buckets
  BY <1>1 DEF Bucket, Buckets
<1>3. ASSUME sent.now = 0, sent.before = 0, letter = NoLetter
      PROVE  Metered(Bucket(mail.limit))
  <2>1. Flying = 0
    BY <1>3 DEF Flying
  <2>2. Bucket(mail.limit).max = mail.limit /\ Bucket(mail.limit).tokens = mail.limit
        /\ Bucket(mail.limit).age = 0
    BY DEF Bucket
  <2>3. QED
    BY <1>1, <1>3, <2>1, <2>2 DEF Metered
<1>4. QED
  BY <1>2, <1>3

LEMMA NotifyKept ==
  ASSUME NotifyType, MailsMetered, NothingLost, NotifyNext
  PROVE  NotifyType' /\ MailsMetered' /\ NothingLost'
<1> DEFINE Calm == past \subseteq {"failed"}
           Gathers == past = {} /\ mail.on /\ mail.wants /\ mail.digest
<1>1. past \subseteq past'
  BY DEF NotifyNext, SaveNotify, Escalate, Receive, Digest, Deliver, HalfMinute, NotifyRestart
<1>2. /\ mail \in MailPlans /\ mail.limit \in Nat /\ queue \in Nat /\ buffer \in Nat
      /\ limiter = {} \/ \E b \in Buckets : limiter = {b}
      /\ letter \in Letters /\ letter.events \in Nat /\ letter.tries \in 0..2
      /\ letter # NoLetter => letter.tries > 0
      /\ sent \in [now : Nat, before : Nat] /\ sent.now \in Nat /\ sent.before \in Nat
      /\ tally \in [taken : Nat, mailed : Nat] /\ tally.taken \in Nat /\ tally.mailed \in Nat
  BY NotifyAssumption DEF NotifyType, Letters
<1>3. Calm => /\ limiter = {} => sent.now = 0 /\ sent.before = 0 /\ letter = NoLetter
              /\ \A b \in limiter : Metered(b)
  BY DEF MailsMetered
<1>4. Gathers => tally.taken = tally.mailed + queue + buffer + letter.events
  BY DEF NothingLost
\* The bucket, the mails and their limit stay.
<1>5. ASSUME UNCHANGED <<limiter, letter, sent>>, Calm' => UNCHANGED mail
      PROVE  MailsMetered'
  BY <1>1, <1>3, <1>5 DEF MailsMetered, Metered, Flying
<1>6. CASE SaveNotify
  <2>1. PICK m \in MailPlans : mail' = m /\ past' = past \union If(m # mail, {"changed"})
    BY <1>6 DEF SaveNotify
  <2>2. UNCHANGED <<queue, buffer, limiter, timer, letter, sent, tally>>
    BY <1>6 DEF SaveNotify
  <2>3. Calm' => UNCHANGED mail
    BY <2>1 DEF If
  <2>4. NotifyType'
    BY <1>2, <2>1, <2>2 DEF NotifyType
  <2>5. MailsMetered'
    BY <1>5, <2>2, <2>3
  <2>6. NothingLost'
    BY <1>1, <1>4, <2>2, <2>3 DEF NothingLost
  <2>7. QED
    BY <2>4, <2>5, <2>6
<1>7. CASE Escalate
  <2>1. UNCHANGED <<past, mail, buffer, limiter, timer, letter, sent>>
    BY <1>7 DEF Escalate
  <2>2. \/ queue' = queue + 1 /\ tally' = [tally EXCEPT !.taken = @ + 1]
        \/ UNCHANGED <<queue, tally>>
    BY <1>7 DEF Escalate
  <2>3. /\ queue' \in Nat /\ tally' \in [taken : Nat, mailed : Nat]
        /\ tally'.mailed = tally.mailed
        /\ tally'.taken - queue' = tally.taken - queue /\ tally'.taken \in Nat
    BY <1>2, <2>2
  <2>4. NotifyType' /\ MailsMetered'
    BY <1>2, <1>5, <2>1, <2>3 DEF NotifyType
  <2>5. NothingLost'
    BY <1>2, <1>4, <2>1, <2>3 DEF NothingLost
  <2>6. QED
    BY <2>4, <2>5
<1>8. CASE Receive
  <2>1. /\ Idle /\ queue > 0 /\ queue' = queue - 1
        /\ UNCHANGED <<left, past, mail, timer, sent, tally>>
    BY <1>8 DEF Receive
  <2>2. letter = NoLetter
    BY <2>1 DEF Idle
  <2>3. CASE ~(mail.on /\ mail.wants)
    <3>1. UNCHANGED <<buffer, limiter, letter>>
      BY <1>8, <2>3 DEF Receive
    <3>2. NotifyType' /\ MailsMetered'
      BY <1>2, <1>5, <2>1, <3>1 DEF NotifyType
    <3>3. NothingLost'
      BY <2>1, <2>3 DEF NothingLost
    <3>4. QED
      BY <3>2, <3>3
  <2>4. CASE mail.on /\ mail.wants
    <3> DEFINE kept == {b \in limiter : b.max = mail.limit}
               b == IF kept = {} THEN Bucket(mail.limit) ELSE CHOOSE c \in kept : TRUE
    <3>1. b \in Buckets /\ (Calm => Metered(b))
      <4>1. CASE kept = {}
        <5>1. Calm => limiter = {}
          BY <1>3, <4>1 DEF Metered
        <5>2. QED
          BY <1>3, <4>1, <5>1, NewBucket
      <4>2. CASE kept # {}
        <5>1. b \in limiter
          BY <4>2
        <5>2. QED
          BY <1>2, <1>3, <5>1
      <4>3. QED
        BY <4>1, <4>2
    <3>2. \/ mail.digest /\ buffer' = buffer + 1 /\ limiter' = {b} /\ UNCHANGED letter
          \/ ~mail.digest /\ Mailing(b, 1) /\ UNCHANGED buffer
      BY <1>8, <2>4 DEF Receive
    <3> HIDE DEF b
    <3>3. CASE mail.digest /\ buffer' = buffer + 1 /\ limiter' = {b} /\ UNCHANGED letter
      <4>1. NotifyType'
        BY <1>2, <2>1, <3>1, <3>3 DEF NotifyType
      <4>2. PICK x \in Buckets : limiter' = {x} /\ (Calm => Metered(x))
        BY <3>1, <3>3
      <4>3. MailsMetered'
        BY <2>1, <3>3, <4>2 DEF MailsMetered, Metered, Flying
      <4>4. NothingLost'
        BY <1>2, <1>4, <2>1, <3>3 DEF NothingLost
      <4>5. QED
        BY <4>1, <4>3, <4>4
    <3>4. CASE ~mail.digest /\ Mailing(b, 1) /\ UNCHANGED buffer
      <4>1. /\ \E c \in Buckets : limiter' = {c}
            /\ letter' \in Letters
            /\ letter' = letter \/ letter' = [events |-> 1, tries |-> 2]
            /\ Metered(b) => \A c \in limiter' : Metered(c)'
        BY <2>1, <3>1, <3>4, MailingSound
      <4>2. NotifyType'
        BY <1>2, <2>1, <3>4, <4>1 DEF NotifyType
      <4>3. MailsMetered'
        BY <2>1, <3>1, <4>1 DEF MailsMetered
      <4>4. NothingLost'
        BY <2>1, <3>4 DEF NothingLost
      <4>5. QED
        BY <4>2, <4>3, <4>4
    <3>5. QED
      BY <3>2, <3>3, <3>4
  <2>5. QED
    BY <2>3, <2>4
<1>9. CASE Digest
  <2>1. Idle /\ UNCHANGED <<left, past, mail, queue, sent, tally>>
    BY <1>9 DEF Digest
  <2>2. letter = NoLetter
    BY <2>1 DEF Idle
  <2>3. CASE buffer = 0
    <3>1. UNCHANGED <<buffer, limiter, letter>>
      BY <1>9, <2>3 DEF Digest
    <3>2. QED
      BY <1>2, <1>4, <1>5, <2>1, <3>1 DEF NotifyType, NothingLost
  <2>4. CASE buffer # 0 /\ ~(mail.on /\ mail.digest)
    <3>1. buffer' = 0 /\ UNCHANGED <<limiter, letter>>
      BY <1>9, <2>4 DEF Digest
    <3>2. QED
      BY <1>2, <1>5, <2>1, <2>4, <3>1 DEF NotifyType, NothingLost
  <2>5. CASE buffer # 0 /\ mail.on /\ mail.digest
    <3> DEFINE b == IF limiter = {} THEN Bucket(mail.limit) ELSE CHOOSE c \in limiter : TRUE
    <3>1. b \in Buckets /\ (Calm => Metered(b))
      <4>1. CASE limiter = {}
        BY <1>3, <4>1, NewBucket
      <4>2. CASE limiter # {}
        BY <1>2, <1>3, <4>2
      <4>3. QED
        BY <4>1, <4>2
    <3>2. Mailing(b, buffer) /\ buffer' = IF letter' = letter THEN buffer ELSE 0
      BY <1>9, <2>5 DEF Digest
    <3> HIDE DEF b
    <3>3. /\ \E c \in Buckets : limiter' = {c}
          /\ letter' \in Letters
          /\ letter' = letter \/ letter' = [events |-> buffer, tries |-> 2]
          /\ Metered(b) => \A c \in limiter' : Metered(c)'
      BY <1>2, <2>1, <3>1, <3>2, MailingSound
    <3>4. NotifyType'
      BY <1>2, <2>1, <3>2, <3>3 DEF NotifyType
    <3>5. MailsMetered'
      BY <2>1, <3>1, <3>3 DEF MailsMetered
    <3>6. buffer' + letter'.events = buffer + letter.events /\ buffer' \in Nat /\ letter'.events \in Nat
      <4>1. CASE letter' = letter
        BY <1>2, <3>2, <4>1
      <4>2. CASE letter' # letter
        BY <1>2, <2>2, <3>2, <3>3, <4>2 DEF NoLetter
      <4>3. QED
        BY <4>1, <4>2
    <3>7. NothingLost'
      BY <1>2, <1>4, <2>1, <3>6 DEF NothingLost
    <3>8. QED
      BY <3>4, <3>5, <3>7
  <2>6. QED
    BY <2>3, <2>4, <2>5
<1>10. CASE Deliver
  <2>1. letter # NoLetter /\ UNCHANGED <<mail, queue, buffer, limiter, timer>>
    BY <1>10 DEF Deliver, Idle
  <2>2. PICK taken, known \in BOOLEAN :
          /\ IF known THEN taken /\ letter' = NoLetter /\ UNCHANGED <<left, past>>
             ELSE /\ Spend("faults")
                  /\ letter' = IF letter.tries = 1 THEN NoLetter
                               ELSE [letter EXCEPT !.tries = @ - 1]
                  /\ past' = past \union If(taken, {"again"})
                             \union If(letter.tries = 1, {"failed"})
          /\ sent' = IF taken THEN [sent EXCEPT !.now = @ + 1] ELSE sent
          /\ tally' = IF taken THEN [tally EXCEPT !.mailed = @ + letter.events] ELSE tally
    BY <1>10 DEF Deliver
  <2>3. /\ letter' \in Letters /\ (letter' # NoLetter => letter'.tries > 0)
        /\ sent' \in [now : Nat, before : Nat] /\ tally' \in [taken : Nat, mailed : Nat]
    BY <1>2, <2>1, <2>2 DEF Letters, NoLetter
  <2>4. NotifyType'
    BY <1>2, <2>1, <2>3 DEF NotifyType
  <2>5. Calm' => (taken => known)
    BY <2>2 DEF If
  <2>6. sent'.before = sent.before /\ (Calm' => sent'.now + Flying' <= sent.now + Flying)
        /\ sent'.now \in Nat /\ Flying' \in 0..1 /\ Flying = 1 /\ (Calm' => Flying' <= 1)
    BY <1>2, <2>1, <2>2, <2>5 DEF Flying
  <2>7. ASSUME Calm', NEW b \in limiter'
        PROVE  Metered(b)'
    <3>1. b \in limiter /\ b \in Buckets /\ Metered(b)
      BY <1>1, <1>2, <1>3, <2>1, <2>7
    <3>2. QED
      BY <1>2, <2>1, <2>6, <2>7, <3>1 DEF Metered, Buckets
  <2>8. limiter = {} => ~Calm'
    BY <1>1, <1>3, <2>1
  <2>9. MailsMetered'
    BY <2>1, <2>7, <2>8 DEF MailsMetered
  <2>10. ASSUME past' = {}
         PROVE  /\ tally'.mailed + letter'.events = tally.mailed + letter.events
                /\ tally'.taken = tally.taken
                /\ tally'.mailed \in Nat /\ letter'.events \in Nat
    <3>1. CASE known
      BY <1>2, <2>2, <3>1 DEF NoLetter
    <3>2. CASE ~known
      <4>1. ~taken /\ letter.tries # 1
        BY <2>2, <2>10, <3>2 DEF If
      <4>2. letter'.events = letter.events
        BY <1>2, <2>2, <3>2, <4>1 DEF Letters
      <4>3. QED
        BY <1>2, <2>2, <4>1, <4>2
    <3>3. QED
      BY <3>1, <3>2
  <2>11. NothingLost'
    BY <1>1, <1>2, <1>4, <2>1, <2>10 DEF NothingLost
  <2>12. QED
    BY <2>4, <2>9, <2>11
<1>11. CASE HalfMinute
  <2>1. /\ limiter' = {[b EXCEPT !.age = IF @ < 2 THEN @ + 1 ELSE @] : b \in limiter}
        /\ sent' = [now |-> 0, before |-> sent.now]
        /\ UNCHANGED <<past, mail, queue, buffer, letter, tally>>
    BY <1>11 DEF HalfMinute
  <2>2. sent' \in [now : Nat, before : Nat] /\ sent'.now = 0 /\ sent'.before = sent.now
    BY <1>2, <2>1
  <2>3. CASE limiter = {}
    <3>1. limiter' = {}
      BY <2>1, <2>3
    <3>2. QED
      BY <1>2, <1>3, <1>4, <2>1, <2>2, <2>3, <3>1 DEF NotifyType, MailsMetered, NothingLost
  <2>4. CASE limiter # {}
    <3>1. PICK b \in Buckets : limiter = {b}
      BY <1>2, <2>4
    <3> DEFINE c == [b EXCEPT !.age = IF @ < 2 THEN @ + 1 ELSE @]
    <3>2. limiter' = {c}
      BY <2>1, <3>1
    <3>3. /\ c \in Buckets /\ c.max = b.max /\ c.tokens = b.tokens
          /\ c.age = (IF b.age < 2 THEN b.age + 1 ELSE b.age)
          /\ b.max \in Nat /\ b.tokens \in Nat /\ b.age \in 0..2
      BY DEF Buckets
    <3> HIDE DEF c
    <3>4. ASSUME Calm
          PROVE  Metered(c)'
      <4>1. Metered(b) /\ Flying' = Flying /\ Flying \in 0..1
        BY <1>3, <2>1, <3>1, <3>4 DEF Flying
      <4>2. QED
        BY <1>2, <2>1, <2>2, <3>3, <4>1 DEF Metered
    <3>5. MailsMetered'
      BY <2>1, <3>2, <3>4 DEF MailsMetered
    <3>6. NotifyType' /\ NothingLost'
      BY <1>2, <1>4, <2>1, <2>2, <3>2, <3>3 DEF NotifyType, NothingLost
    <3>7. QED
      BY <3>5, <3>6
  <2>5. QED
    BY <2>3, <2>4
<1>12. CASE NotifyRestart
  <2>1. /\ "restarted" \in past' /\ queue' = 0 /\ buffer' = 0 /\ limiter' = {}
        /\ letter' = NoLetter /\ UNCHANGED <<mail, sent, tally>>
    BY <1>12 DEF NotifyRestart
  <2>2. ~(past' \subseteq {"failed"}) /\ past' # {}
    BY <2>1
  <2>3. NoLetter \in Letters
    BY DEF NoLetter, Letters
  <2>4. QED
    BY <1>2, <2>1, <2>2, <2>3 DEF NotifyType, MailsMetered, NothingLost
<1>13. QED
  BY <1>6, <1>7, <1>8, <1>9, <1>10, <1>11, <1>12 DEF NotifyNext

LEMMA NotifyAlways == Spec => []NotifySound
<1>1. NotifySound /\ [Next]_vars => NotifySound'
  <2> SUFFICES ASSUME NotifySound, [Next]_vars
               PROVE  NotifySound'
    OBVIOUS
  <2>1. CASE UNCHANGED vars
    <3>1. UNCHANGED <<part, past, notifyVars>>
      BY <2>1 DEF vars, shared
    <3>2. QED
      BY <3>1 DEF NotifySound, NotifyType, MailsMetered, NothingLost, Metered, Flying, notifyVars
  <2>2. CASE Next /\ part = "notify"
    <3>1. NotifyNext /\ UNCHANGED part
      BY <2>2, NotifySteps
    <3>2. QED
      BY <2>2, <3>1, NotifyKept DEF NotifySound
  <2>3. CASE Next /\ part # "notify"
    <3>1. UNCHANGED <<part, notifyVars>>
      BY <2>3, NotifySteps
    <3>2. QED
      BY <2>3, <3>1 DEF NotifySound, NotifyType, notifyVars
  <2>4. QED
    BY <2>1, <2>2, <2>3
<1>2. QED
  BY <1>1, NotifyStarts, PTL DEF Spec

\* Whatever the limit, the size of the queue and the period of the digest: while attempts fail
\* at most and nothing restarts, a minute sees twice the mails of the limit at most; and while
\* none fails and digests are on, no event is lost or mailed twice.
THEOREM MailsAlwaysLimited == Spec => []MailsLimited
<1>1. NotifySound => MailsLimited
  <2> SUFFICES ASSUME NotifySound
               PROVE  MailsLimited
    OBVIOUS
  <2>1. /\ mail.limit \in Nat /\ sent.now \in Nat /\ sent.before \in Nat
        /\ limiter = {} \/ \E b \in Buckets : limiter = {b}
    BY NotifyAssumption DEF NotifySound, NotifyType
  <2>2. CASE part = "notify"
    <3>1. ASSUME past \subseteq {"failed"}
          PROVE  sent.now + sent.before <= 2 * mail.limit
      <4>1. CASE limiter = {}
        BY <2>1, <2>2, <3>1, <4>1 DEF NotifySound, MailsMetered
      <4>2. CASE limiter # {}
        <5>1. PICK b \in Buckets : limiter = {b} /\ Metered(b)
          BY <2>1, <2>2, <3>1, <4>2 DEF NotifySound, MailsMetered
        <5>2. QED
          BY <2>1, <5>1 DEF Metered, Buckets, Flying
      <4>3. QED
        BY <4>1, <4>2
    <3>2. QED
      BY <2>2, <3>1 DEF NotifySound, NothingLost, MailsLimited
  <2>3. CASE part # "notify"
    <3>1. /\ sent.now = 0 /\ sent.before = 0 /\ tally.taken = 0 /\ tally.mailed = 0
          /\ queue = 0 /\ buffer = 0 /\ letter.events = 0
      BY <2>3 DEF NotifySound, NoLetter
    <3>2. QED
      BY <2>1, <3>1 DEF MailsLimited
  <2>4. QED
    BY <2>2, <2>3
<1>2. QED
  BY <1>1, NotifyAlways, PTL

-----------------------------------------------------------------------------
(* Dynamic DNS.                                                            *)

LEMMA DdnsSteps ==
  ASSUME Next
  PROVE  /\ UNCHANGED part
         /\ \/ part = "ddns" /\ DdnsNext
            \/ part # "ddns" /\ UNCHANGED ddnsVars
BY DEF Next, Policies, InRules, Acme, Logins, Updates, Mails, Within

\* The elements of a finite set in some order.
LEMMA SetToSeqProperties ==
  ASSUME NEW S, IsFiniteSet(S)
  PROVE  SetToSeq(S) \in [1..Cardinality(S) -> S] /\ Cardinality(S) \in Nat
<1>1. Cardinality(S) \in Nat /\ ExistsBijection(1..Cardinality(S), S)
  BY FS_CardinalityType
<1>2. PICK f \in [1..Cardinality(S) -> S] : IsInjective(f)
  BY <1>1 DEF ExistsBijection, Bijection, Injection, IsInjective
<1>3. QED
  BY <1>1, <1>2 DEF SetToSeq

Listed == [on : BOOLEAN, host : Hosts, iface : Uplink, cloud : BOOLEAN, password : BOOLEAN]

\* A run that is under way: the entries left, and what is noted of the others.
Underway(c) ==
  /\ DOMAIN c = {"pc", "todo", "at", "found", "done"} /\ c.pc \in {"next", "write"}
  /\ c.todo \in Seq(Listed) /\ (c.pc = "write" => c.todo # <<>>)
  /\ \A s \in c.done : s.host \in Hosts

DdnsType ==
  /\ DOMAIN ddns = {"on", "entries"} /\ IsFiniteSet(DOMAIN ddns.entries)
  /\ \A i \in DOMAIN ddns.entries : ddns.entries[i] \in Listed
  /\ DOMAIN zone = Hosts /\ DOMAIN cycle = Updater
  /\ \A p \in Updater : InCycle(p) => Underway(cycle[p])
  /\ \A s \in status : s.host \in Hosts

\* What N notes of the hosts that are not in M is true of their records z.
Holds(N, z, M) ==
  \A s \in N :
    s.ok /\ s.host \notin M /\ (\A t \in N : t.host = s.host => t = s)
    => {r[2] : r \in z[s.host]} = {s.ip}

\* One run at a time is under way, and has noted what is true; a host has one record at
\* most, the one that the run has found and is to change, if it has found one.
RecordsTrue ==
  "met" \notin past =>
    /\ \A h \in Hosts : zone[h] = {} \/ \E a : zone[h] = {<<1, a>>}
    /\ \A p, q \in Updater : InCycle(p) /\ InCycle(q) => p = q
    /\ \A p \in Updater : InCycle(p) =>
         /\ ~sure /\ Holds(cycle[p].done, zone, misread)
         /\ cycle[p].pc = "write" =>
              cycle[p].found = IF zone[Entry(p).host] = {} THEN {} ELSE {1}
    /\ sure => Holds(status, zone, misread)

DdnsSound ==
  /\ part = "ddns" => DdnsType /\ RecordsTrue
  /\ part # "ddns" => status = {}

LEMMA DdnsStarts == Init => DdnsSound
<1> SUFFICES ASSUME Init PROVE DdnsSound
  OBVIOUS
<1>1. /\ ddns \in DdnsPlans /\ status = {} /\ cycle = [p \in Updater |-> NoCycle]
  BY DEF Init, DdnsInit
<1>2. ASSUME part = "ddns"
      PROVE  DOMAIN zone = Hosts /\ \A h \in Hosts : zone[h] = {} \/ \E a : zone[h] = {<<1, a>>}
  <2>1. PICK Z \in {{}, {<<1, "other">>}} : zone = [h \in Hosts |-> Z]
    BY <1>2 DEF Init, DdnsInit
  <2>2. QED
    BY <2>1
<1>3. \A p \in Updater : ~InCycle(p)
  BY <1>1 DEF InCycle, NoCycle
<1>4. QED
  BY <1>1, <1>2, <1>3, DdnsAssumption DEF DdnsSound, DdnsType, RecordsTrue, Listed, Holds

\* The run p goes on to c.
LEMMA CycleSet ==
  ASSUME DdnsType, NEW p \in Updater, NEW c, cycle' = [cycle EXCEPT ![p] = c]
  PROVE  /\ DOMAIN cycle' = Updater /\ cycle'[p] = c
         /\ \A q \in Updater : q # p => cycle'[q] = cycle[q] /\ InCycle(q)' = InCycle(q)
         /\ InCycle(p)' <=> c.pc \notin {"none", "ended"}
<1>1. /\ DOMAIN cycle' = Updater /\ cycle'[p] = c
      /\ \A q \in Updater : q # p => cycle'[q] = cycle[q]
  BY DEF DdnsType
<1>2. QED
  BY <1>1 DEF InCycle

LEMMA DdnsTypeBy ==
  ASSUME DdnsType, NEW p \in Updater, NEW c, cycle' = [cycle EXCEPT ![p] = c],
         c.pc \notin {"none", "ended"} => Underway(c),
         ddns' = ddns, DOMAIN zone' = Hosts, \A s \in status' : s.host \in Hosts
  PROVE  DdnsType'
<1>1. DOMAIN cycle' = Updater /\ cycle'[p] = c
  BY CycleSet
<1>2. \A q \in Updater : InCycle(q)' => Underway(cycle'[q])
  BY CycleSet DEF DdnsType
<1>3. QED
  BY <1>1, <1>2 DEF DdnsType, Underway

\* The first entry of a run, and the others.
LEMMA EntryListed ==
  ASSUME DdnsType, NEW p \in Updater, InCycle(p), cycle[p].todo # <<>>
  PROVE  /\ Entry(p) \in Listed /\ Entry(p).host \in Hosts
         /\ Tail(cycle[p].todo) \in Seq(Listed)
<1>1. cycle[p].todo \in Seq(Listed)
  BY DEF DdnsType, Underway
<1>2. Head(cycle[p].todo) \in Listed /\ Tail(cycle[p].todo) \in Seq(Listed)
  BY <1>1, HeadTailProperties
<1>3. QED
  BY <1>2 DEF Entry, Listed

\* p notes how it went with its entry, and has changed no other host's records.
LEMMA NotedSound ==
  ASSUME DdnsType, RecordsTrue, NEW p \in Updater, InCycle(p), cycle[p].todo # <<>>,
         NEW ok \in BOOLEAN, Noted(p, ok), UNCHANGED <<past, ddns, status, sure>>,
         zone' = zone \/ \E z : zone' = [zone EXCEPT ![Entry(p).host] = z],
         misread \subseteq misread' \union {Entry(p).host},
         "met" \notin past =>
           /\ zone'[Entry(p).host] = {} \/ \E a : zone'[Entry(p).host] = {<<1, a>>}
           /\ ok /\ Entry(p).host \notin misread' => {r[2] : r \in zone'[Entry(p).host]} = {Given(p)}
  PROVE  DdnsType' /\ RecordsTrue'
<1> DEFINE h == Entry(p).host
           note == [host |-> h, ip |-> Given(p), ok |-> ok]
           c == [cycle[p] EXCEPT !.pc = "next", !.todo = Tail(@), !.done = @ \union {note}]
<1>1. Underway(cycle[p]) /\ h \in Hosts /\ Tail(cycle[p].todo) \in Seq(Listed)
  BY EntryListed DEF DdnsType
<1>2. cycle' = [cycle EXCEPT ![p] = c]
  BY DEF Noted
<1>3. /\ c.pc = "next" /\ c.todo = Tail(cycle[p].todo) /\ c.done = cycle[p].done \union {note}
      /\ DOMAIN c = DOMAIN cycle[p]
  BY <1>1 DEF Underway
<1>4. Underway(c)
  BY <1>1, <1>3 DEF Underway
<1>5. DOMAIN zone' = Hosts /\ \A g \in Hosts \ {h} : zone'[g] = zone[g]
  BY <1>1 DEF DdnsType
<1>6. DdnsType'
  <2> HIDE DEF c, h, note
  <2>1. QED
    BY <1>2, <1>4, <1>5, DdnsTypeBy DEF DdnsType
<1>7. ASSUME "met" \notin past
      PROVE  Holds(c.done, zone', misread')
  <2>1. Holds(cycle[p].done, zone, misread) /\ \A s \in cycle[p].done : s.host \in Hosts
    BY <1>1, <1>7 DEF RecordsTrue, Underway
  <2>2. ASSUME NEW s \in c.done, s.ok, s.host \notin misread',
               \A t \in c.done : t.host = s.host => t = s
        PROVE  {r[2] : r \in zone'[s.host]} = {s.ip}
    <3>1. CASE s.host = h
      <4>1. note \in c.done /\ note.host = h
        BY <1>3
      <4>2. s = note
        BY <2>2, <3>1, <4>1
      <4>3. QED
        BY <1>7, <2>2, <4>2
    <3>2. CASE s.host # h
      <4>1. s \in cycle[p].done /\ \A t \in cycle[p].done : t.host = s.host => t = s
        BY <1>3, <2>2, <3>2
      <4>2. zone'[s.host] = zone[s.host]
        BY <1>5, <2>1, <3>2, <4>1
      <4>3. s.host \notin misread
        BY <2>2, <3>2
      <4>4. QED
        BY <2>1, <2>2, <4>1, <4>2, <4>3 DEF Holds
    <3>3. QED
      BY <3>1, <3>2
  <2>3. QED
    BY <2>2 DEF Holds
<1>8. RecordsTrue'
  <2> SUFFICES ASSUME "met" \notin past
               PROVE  RecordsTrue'
    BY DEF RecordsTrue
  <2>1. /\ \A g \in Hosts : zone[g] = {} \/ \E a : zone[g] = {<<1, a>>}
        /\ \A x, q \in Updater : InCycle(x) /\ InCycle(q) => x = q
        /\ ~sure
    BY DEF RecordsTrue
  <2>2. \A g \in Hosts : zone'[g] = {} \/ \E a : zone'[g] = {<<1, a>>}
    <3>1. ASSUME NEW g \in Hosts, g # h
          PROVE  zone'[g] = {} \/ \E a : zone'[g] = {<<1, a>>}
      <4>1. zone'[g] = zone[g]
        BY <1>5, <3>1
      <4>2. zone[g] = {} \/ \E a : zone[g] = {<<1, a>>}
        BY <2>1
      <4>3. QED
        BY <4>1, <4>2
    <3>2. zone'[h] = {} \/ \E a : zone'[h] = {<<1, a>>}
      BY <1>1
    <3>3. QED
      BY <3>1, <3>2
  <2>3. \A q \in Updater : InCycle(q)' => q = p
    BY <1>2, <2>1, CycleSet
  <2>4. cycle'[p] = c
    BY <1>2, CycleSet
  <2>5. cycle'[p].pc = "next" /\ Holds(cycle'[p].done, zone', misread')
    BY <1>3, <1>7, <2>4
  <2>6. QED
    BY <2>1, <2>2, <2>3, <2>5 DEF RecordsTrue
<1>9. QED
  BY <1>6, <1>8

\* A task that an answer breaks, or a run that is over or cut off.
LEMMA BrokenSound ==
  ASSUME DdnsType, RecordsTrue, NEW p \in Updater, InCycle(p), Breaks(p),
         UNCHANGED <<past, ddns, status, sure>>,
         zone' = zone \/ \E z : zone' = [zone EXCEPT ![Entry(p).host] = z],
         cycle[p].todo # <<>>,
         "met" \notin past =>
           zone'[Entry(p).host] = {} \/ \E a : zone'[Entry(p).host] = {<<1, a>>}
  PROVE  DdnsType' /\ RecordsTrue'
<1> DEFINE h == Entry(p).host
<1>1. PICK c : cycle' = [cycle EXCEPT ![p] = c] /\ c.pc \in {"none", "ended"}
  <2>1. /\ p = Job => cycle' = [cycle EXCEPT ![p] = [pc |-> "ended"]]
        /\ p # Job => cycle' = [cycle EXCEPT ![p] = [pc |-> "none"]]
    BY DEF Breaks, NoCycle
  <2>2. [pc |-> "ended"].pc = "ended" /\ [pc |-> "none"].pc = "none"
    OBVIOUS
  <2>3. QED
    BY <2>1, <2>2
<1>2. h \in Hosts /\ DOMAIN zone' = Hosts /\ \A g \in Hosts \ {h} : zone'[g] = zone[g]
  BY EntryListed DEF DdnsType
<1>3. DdnsType'
  BY <1>1, <1>2, DdnsTypeBy DEF DdnsType
<1>4. RecordsTrue'
  <2> SUFFICES ASSUME "met" \notin past
               PROVE  RecordsTrue'
    BY DEF RecordsTrue
  <2>1. /\ \A g \in Hosts : zone[g] = {} \/ \E a : zone[g] = {<<1, a>>}
        /\ \A x, q \in Updater : InCycle(x) /\ InCycle(q) => x = q
        /\ ~sure
    BY DEF RecordsTrue
  <2>2. \A g \in Hosts : zone'[g] = {} \/ \E a : zone'[g] = {<<1, a>>}
    <3>1. ASSUME NEW g \in Hosts, g # h
          PROVE  zone'[g] = {} \/ \E a : zone'[g] = {<<1, a>>}
      <4>1. zone'[g] = zone[g]
        BY <1>2, <3>1
      <4>2. zone[g] = {} \/ \E a : zone[g] = {<<1, a>>}
        BY <2>1
      <4>3. QED
        BY <4>1, <4>2
    <3>2. zone'[h] = {} \/ \E a : zone'[h] = {<<1, a>>}
      BY <1>1
    <3>3. QED
      BY <3>1, <3>2
  <2>3. \A q \in Updater : ~InCycle(q)'
    BY <1>1, <2>1, CycleSet
  <2>4. QED
    BY <2>1, <2>2, <2>3 DEF RecordsTrue
<1>5. QED
  BY <1>3, <1>4

\* A provider is asked for records of which each is the only one, with the address given.
LEMMA RepliedSound ==
  ASSUME DdnsType, RecordsTrue, NEW p \in Updater, InCycle(p), cycle[p].todo # <<>>,
         NEW Z, Replied(p, Z), UNCHANGED <<past, ddns, status, sure>>,
         "met" \notin past => \A z \in Z : z = {<<1, Given(p)>>}
  PROVE  DdnsType' /\ RecordsTrue'
<1> DEFINE h == Entry(p).host
           after == {[zone EXCEPT ![h] = z] : z \in Z}
<1>1. h \in Hosts /\ DOMAIN zone = Hosts
  BY EntryListed DEF DdnsType
<1>2. ASSUME zone' \in after
      PROVE  /\ \E z : zone' = [zone EXCEPT ![h] = z]
             /\ "met" \notin past => zone'[h] = {<<1, Given(p)>>}
  <2>1. PICK z \in Z : zone' = [zone EXCEPT ![h] = z]
    BY <1>2
  <2>2. zone'[h] = z
    BY <1>1, <2>1
  <2>3. QED
    BY <2>1, <2>2
<1>3. "met" \notin past => zone[h] = {} \/ \E a : zone[h] = {<<1, a>>}
  BY <1>1 DEF RecordsTrue
<1>4. /\ \/ zone' \in after /\ Noted(p, TRUE)
         \/ zone' = zone /\ Noted(p, FALSE)
         \/ zone' \in after \union {zone} /\ (Noted(p, FALSE) \/ Breaks(p))
      /\ misread \subseteq misread' \union {h}
  BY DEF Replied
<1> HIDE DEF after
<1>5. CASE zone' \in after /\ Noted(p, TRUE)
  <2>1. "met" \notin past => {r[2] : r \in zone'[h]} = {Given(p)}
    <3>1. \A a : {r[2] : r \in {<<1, a>>}} = {a}
      OBVIOUS
    <3>2. QED
      BY <1>2, <1>5, <3>1
  <2>2. QED
    BY <1>2, <1>4, <1>5, <2>1, NotedSound
<1>6. CASE zone' \in after \union {zone} /\ Noted(p, FALSE)
  <2>1. /\ zone' = zone \/ \E z : zone' = [zone EXCEPT ![h] = z]
        /\ "met" \notin past => zone'[h] = {} \/ \E a : zone'[h] = {<<1, a>>}
    BY <1>2, <1>3, <1>6
  <2>2. QED
    BY <1>4, <1>6, <2>1, NotedSound
<1>7. CASE zone' \in after \union {zone} /\ Breaks(p)
  <2>1. /\ zone' = zone \/ \E z : zone' = [zone EXCEPT ![h] = z]
        /\ "met" \notin past => zone'[h] = {} \/ \E a : zone'[h] = {<<1, a>>}
    BY <1>2, <1>3, <1>7
  <2>2. QED
    BY <1>7, <2>1, BrokenSound
<1>8. QED
  BY <1>4, <1>5, <1>6, <1>7

\* What is asked of Cloudflare: the record it has, changed, or one where there is none.
LEMMA RecordsOne ==
  ASSUME NEW Z, NEW a, Z = {} \/ \E b : Z = {<<1, b>>},
         NEW found, found = (IF Z = {} THEN {} ELSE {1})
  PROVE  \A z \in Records(Z, found, a) : z = {<<1, a>>}
<1>1. CASE Z = {}
  <2>1. Cardinality(Z) = 0
    BY <1>1, FS_EmptySet
  <2>2. \A z \in Made(Z, a) : z = Z \union {<<1 + 0, a>>}
    BY <2>1 DEF Made, If
  <2>3. QED
    BY <1>1, <2>2 DEF Records
<1>2. CASE Z # {}
  <2>1. PICK b : Z = {<<1, b>>}
    BY <1>2
  <2>2. found = {1}
    BY <1>2
  <2>3. \A z \in Records(Z, found, a) : z = {r \in Z : r[1] \notin found} \union {<<n, a>> : n \in found}
    BY <2>2 DEF Records, If
  <2>4. {r \in Z : r[1] \notin found} = {} /\ {<<n, a>> : n \in found} = {<<1, a>>}
    BY <2>1, <2>2
  <2>5. QED
    BY <2>3, <2>4
<1>3. QED
  BY <1>1, <1>2

LEMMA DdnsKept ==
  ASSUME DdnsType, RecordsTrue, DdnsNext
  PROVE  DdnsType' /\ RecordsTrue'
<1>1. CASE SetAddress
  <2>1. UNCHANGED <<past, ddns, zone, status, cycle, sure, misread>>
    BY <1>1 DEF SetAddress
  <2>2. DdnsType'
    BY <2>1 DEF DdnsType, InCycle
  <2>3. RecordsTrue'
    BY <2>1 DEF RecordsTrue, InCycle, Entry
  <2>4. QED
    BY <2>2, <2>3
<1>2. CASE SaveDdns
  <2>1. PICK f \in DdnsPlans : ddns' = WithPasswords(f)
    BY <1>2 DEF SaveDdns
  <2>2. UNCHANGED <<past, address, zone, status, cycle, sure, misread>>
    BY <1>2 DEF SaveDdns
  <2> DEFINE pass(i) == f.entries[i].password
                        \/ (i \in DOMAIN ddns.entries /\ ddns.entries[i].password)
             entries == [i \in DOMAIN f.entries |-> [f.entries[i] EXCEPT !.password = pass(i)]]
  <2>3. /\ f = [on |-> f.on, entries |-> f.entries] /\ IsFiniteSet(DOMAIN f.entries)
        /\ \A i \in DOMAIN f.entries : f.entries[i] \in Listed
    BY DdnsAssumption DEF Listed
  <2>4. ddns' = [f EXCEPT !.entries = entries]
    BY <2>1 DEF WithPasswords
  <2>5. \A i \in DOMAIN entries : entries[i] \in Listed
    <3>1. ASSUME NEW e \in Listed, NEW b \in BOOLEAN
          PROVE  [e EXCEPT !.password = b] \in Listed
      BY DEF Listed
    <3>2. \A i \in DOMAIN f.entries : pass(i) \in BOOLEAN
      BY DEF DdnsType, Listed
    <3> HIDE DEF pass
    <3>3. QED
      BY <2>3, <3>1, <3>2
  <2>6. DOMAIN entries = DOMAIN f.entries
    OBVIOUS
  <2> HIDE DEF entries
  <2>7. DOMAIN ddns' = {"on", "entries"} /\ ddns'.entries = entries
    BY <2>3, <2>4
  <2>8. DdnsType'
    BY <2>2, <2>3, <2>5, <2>6, <2>7 DEF DdnsType, InCycle
  <2>9. RecordsTrue'
    BY <2>2 DEF RecordsTrue, InCycle, Entry
  <2>10. QED
    BY <2>8, <2>9
<1>3. CASE DdnsRestart
  <2>1. cycle' = [p \in Updater |-> NoCycle] /\ UNCHANGED <<past, ddns, zone, status, sure, misread>>
    BY <1>3 DEF DdnsRestart
  <2>2. \A p \in Updater : ~InCycle(p)'
    BY <2>1 DEF InCycle, NoCycle
  <2>3. DdnsType'
    BY <2>1, <2>2 DEF DdnsType
  <2>4. RecordsTrue'
    BY <2>1, <2>2 DEF RecordsTrue
  <2>5. QED
    BY <2>3, <2>4
<1>4. ASSUME NEW p \in Updater, StartCycle(p)
      PROVE  DdnsType' /\ RecordsTrue'
  <2> DEFINE on == {i \in DOMAIN ddns.entries : ddns.entries[i].on}
             todo == [n \in DOMAIN SetToSeq(on) |-> ddns.entries[SetToSeq(on)[n]]]
             c == [pc |-> "next", todo |-> todo, at |-> address, found |-> {}, done |-> {}]
  <2>1. /\ cycle' = [cycle EXCEPT ![p] = c] /\ sure' = FALSE
        /\ past' = past \union If(\E q \in Updater : InCycle(q), {"met"})
        /\ UNCHANGED <<ddns, address, zone, status, misread>>
    BY <1>4 DEF StartCycle
  <2>2. todo \in Seq(Listed)
    <3>1. IsFiniteSet(on)
      BY FS_Subset DEF DdnsType
    <3>2. SetToSeq(on) \in [1..Cardinality(on) -> on] /\ Cardinality(on) \in Nat
      BY <3>1, SetToSeqProperties
    <3>3. todo \in [1..Cardinality(on) -> Listed]
      BY <3>2 DEF DdnsType
    <3> HIDE DEF todo, on
    <3>4. QED
      BY <3>2, <3>3
  <2> HIDE DEF todo
  <2>3. Underway(c) /\ c.done = {} /\ c.pc = "next"
    BY <2>2 DEF Underway
  <2> HIDE DEF c
  <2>4. DdnsType'
    BY <2>1, <2>3, DdnsTypeBy DEF DdnsType
  <2>5. RecordsTrue'
    <3> SUFFICES ASSUME "met" \notin past'
                 PROVE  RecordsTrue'
      BY DEF RecordsTrue
    <3>1. "met" \notin past /\ \A q \in Updater : ~InCycle(q)
      BY <2>1 DEF If
    <3>2. \A q \in Updater : InCycle(q)' => q = p
      BY <2>1, <3>1, CycleSet
    <3>3. cycle'[p] = c
      BY <2>1, CycleSet
    <3>4. Holds(cycle'[p].done, zone', misread') /\ cycle'[p].pc # "write"
      BY <2>3, <3>3 DEF Holds
    <3>5. \A h \in Hosts : zone'[h] = {} \/ \E a : zone'[h] = {<<1, a>>}
      BY <2>1, <3>1 DEF RecordsTrue
    <3>6. QED
      BY <2>1, <3>2, <3>4, <3>5 DEF RecordsTrue
  <2>6. QED
    BY <2>4, <2>5
<1>5. ASSUME NEW p \in Updater, cycle[p].pc = "next" \/ cycle[p].pc = "write"
      PROVE  InCycle(p)
  BY <1>5 DEF InCycle
<1>6. ASSUME NEW p \in Updater, NoAddress(p)
      PROVE  DdnsType' /\ RecordsTrue'
  <2>1. /\ cycle[p].pc = "next" /\ cycle[p].todo # <<>> /\ Noted(p, FALSE)
        /\ UNCHANGED <<past, ddns, zone, status, sure, misread>>
    BY <1>6 DEF NoAddress
  <2>2. InCycle(p) /\ Entry(p).host \in Hosts
    BY <1>5, <2>1, EntryListed
  <2>3. "met" \notin past =>
          zone'[Entry(p).host] = {} \/ \E a : zone'[Entry(p).host] = {<<1, a>>}
    BY <2>1, <2>2 DEF RecordsTrue
  <2>4. QED
    BY <2>1, <2>2, <2>3, NotedSound
<1>7. ASSUME NEW p \in Updater, Tell(p)
      PROVE  DdnsType' /\ RecordsTrue'
  <2>1. /\ cycle[p].pc = "next" /\ cycle[p].todo # <<>>
        /\ Replied(p, {{<<1, Given(p)>>}}) \/ Misread(p)
        /\ UNCHANGED <<past, ddns, status, sure>>
    BY <1>7 DEF Tell
  <2>2. \A z \in {{<<1, Given(p)>>}} : z = {<<1, Given(p)>>}
    OBVIOUS
  <2>3. CASE Replied(p, {{<<1, Given(p)>>}})
    BY <1>5, <2>1, <2>2, <2>3, RepliedSound
  <2>4. CASE Misread(p)
    <3>1. zone' = zone /\ Noted(p, TRUE) /\ misread' = misread \union {Entry(p).host}
      BY <2>4 DEF Misread
    <3>2. InCycle(p) /\ Entry(p).host \in Hosts
      BY <1>5, <2>1, EntryListed
    <3>3. "met" \notin past =>
            zone'[Entry(p).host] = {} \/ \E a : zone'[Entry(p).host] = {<<1, a>>}
      BY <3>1, <3>2 DEF RecordsTrue
    <3>4. misread \subseteq misread' \union {Entry(p).host} /\ Entry(p).host \in misread'
      BY <3>1
    <3>5. QED
      BY <2>1, <3>1, <3>2, <3>3, <3>4, NotedSound
  <2>5. QED
    BY <2>1, <2>3, <2>4
<1>8. ASSUME NEW p \in Updater, WriteRecord(p)
      PROVE  DdnsType' /\ RecordsTrue'
  <2> DEFINE Z == Records(zone[Entry(p).host], cycle[p].found, Given(p))
  <2>1. /\ cycle[p].pc = "write" /\ Replied(p, Z) /\ UNCHANGED <<past, ddns, status, sure>>
    BY <1>8 DEF WriteRecord
  <2>2. InCycle(p) /\ cycle[p].todo # <<>>
    BY <1>5, <2>1 DEF DdnsType, Underway
  <2>3. Entry(p).host \in Hosts
    BY <2>2, EntryListed
  <2>4. "met" \notin past => \A z \in Z : z = {<<1, Given(p)>>}
    <3>1. "met" \notin past =>
            /\ zone[Entry(p).host] = {} \/ \E b : zone[Entry(p).host] = {<<1, b>>}
            /\ cycle[p].found = IF zone[Entry(p).host] = {} THEN {} ELSE {1}
      BY <2>1, <2>2, <2>3 DEF RecordsTrue
    <3>2. QED
      BY <3>1, RecordsOne
  <2> HIDE DEF Z
  <2>5. QED
    BY <2>1, <2>2, <2>4, RepliedSound
<1>9. ASSUME NEW p \in Updater, Lookup(p)
      PROVE  DdnsType' /\ RecordsTrue'
  <2> DEFINE h == Entry(p).host
             found(one) == {r[1] : r \in one}
  <2>1. /\ cycle[p].pc = "next" /\ cycle[p].todo # <<>> /\ InCycle(p) /\ h \in Hosts
        /\ UNCHANGED <<past, ddns, address, zone, status, sure, misread>>
    BY <1>5, <1>9, EntryListed DEF Lookup
  <2>2. "met" \notin past => zone[h] = {} \/ \E a : zone[h] = {<<1, a>>}
    BY <2>1 DEF RecordsTrue
  <2>3. CASE Noted(p, FALSE)
    BY <2>1, <2>2, <2>3, NotedSound
  <2>4. CASE Breaks(p)
    BY <2>1, <2>2, <2>4, BrokenSound
  <2>5. ASSUME NEW one \in {{r} : r \in zone[h]} \union If(zone[h] = {}, {{}}),
               cycle' = [cycle EXCEPT ![p] =
                           [cycle[p] EXCEPT !.pc = "write", !.found = found(one)]]
        PROVE  DdnsType' /\ RecordsTrue'
    <3> DEFINE c == [cycle[p] EXCEPT !.pc = "write", !.found = found(one)]
    <3>1. Underway(cycle[p])
      BY <2>1 DEF DdnsType
    <3>2. /\ c.pc = "write" /\ c.found = found(one) /\ c.todo = cycle[p].todo
          /\ c.done = cycle[p].done /\ DOMAIN c = DOMAIN cycle[p]
      BY <3>1 DEF Underway
    <3>3. Underway(c)
      BY <2>1, <3>1, <3>2 DEF Underway
    <3>4. "met" \notin past => found(one) = IF zone[h] = {} THEN {} ELSE {1}
      BY <2>2, <2>5 DEF If
    <3> HIDE DEF found
    <3>5. PICK k : k = c
      OBVIOUS
    <3>6. cycle' = [cycle EXCEPT ![p] = k]
      BY <2>5, <3>5
    <3> HIDE DEF c
    <3>7. DdnsType'
      BY <2>1, <3>3, <3>5, <3>6, DdnsTypeBy DEF DdnsType
    <3>8. RecordsTrue'
      <4> SUFFICES ASSUME "met" \notin past
                   PROVE  RecordsTrue'
        BY <2>1 DEF RecordsTrue
      <4>1. \A q \in Updater : InCycle(q)' => q = p
        BY <2>1, <3>6, CycleSet DEF RecordsTrue
      <4>2. cycle'[p] = c
        BY <3>5, <3>6, CycleSet
      <4>3. Entry(p)' = Entry(p)
        BY <3>2, <4>2 DEF Entry
      <4>4. ~sure /\ Holds(cycle[p].done, zone, misread)
        BY <2>1 DEF RecordsTrue
      <4>5. cycle'[p].found = IF zone'[Entry(p)'.host] = {} THEN {} ELSE {1}
        BY <2>1, <3>2, <3>4, <4>2, <4>3
      <4>6. ~sure' /\ Holds(cycle'[p].done, zone', misread')
        BY <2>1, <3>2, <4>2, <4>4
      <4>7. \A g \in Hosts : zone'[g] = {} \/ \E a : zone'[g] = {<<1, a>>}
        BY <2>1 DEF RecordsTrue
      <4>8. QED
        BY <4>1, <4>5, <4>6, <4>7 DEF RecordsTrue
    <3>9. QED
      BY <3>7, <3>8
  <2>6. QED
    BY <1>9, <2>3, <2>4, <2>5 DEF Lookup
<1>10. ASSUME NEW p \in Updater, FinishCycle(p)
       PROVE  DdnsType' /\ RecordsTrue'
  <2>1. /\ cycle[p].pc = "next" /\ InCycle(p) /\ cycle' = [cycle EXCEPT ![p] = NoCycle]
        /\ UNCHANGED <<past, ddns, address, zone, misread>>
        /\ \/ status' = cycle[p].done /\ sure' = TRUE
           \/ status' \in {status, {}} /\ UNCHANGED sure
    BY <1>5, <1>10 DEF FinishCycle
  <2>2. \A s \in status' : s.host \in Hosts
    BY <2>1 DEF DdnsType, Underway
  <2>3. NoCycle.pc = "none"
    BY DEF NoCycle
  <2>4. DdnsType'
    BY <2>1, <2>2, <2>3, DdnsTypeBy DEF DdnsType
  <2>5. RecordsTrue'
    <3> SUFFICES ASSUME "met" \notin past
                 PROVE  RecordsTrue'
      BY <2>1 DEF RecordsTrue
    <3>1. \A q \in Updater : ~InCycle(q)'
      BY <2>1, <2>3, CycleSet DEF RecordsTrue
    <3>2. ~sure /\ Holds(cycle[p].done, zone, misread)
      BY <2>1 DEF RecordsTrue
    <3>3. QED
      BY <2>1, <3>1, <3>2 DEF RecordsTrue
  <2>6. QED
    BY <2>4, <2>5
<1>11. QED
  BY <1>1, <1>2, <1>3, <1>4, <1>6, <1>7, <1>8, <1>9, <1>10 DEF DdnsNext

LEMMA DdnsAlways == Spec => []DdnsSound
<1>1. DdnsSound /\ [Next]_vars => DdnsSound'
  <2> SUFFICES ASSUME DdnsSound, [Next]_vars
               PROVE  DdnsSound'
    OBVIOUS
  <2>1. CASE UNCHANGED vars
    <3>1. UNCHANGED <<part, past, ddnsVars>>
      BY <2>1 DEF vars, shared
    <3>2. UNCHANGED <<part, past, ddns, zone, status, cycle, sure, misread>>
      BY <3>1 DEF ddnsVars
    <3>3. DdnsType => DdnsType'
      BY <3>2 DEF DdnsType, InCycle
    <3>4. RecordsTrue => RecordsTrue'
      BY <3>2 DEF RecordsTrue, InCycle, Entry
    <3>5. QED
      BY <3>2, <3>3, <3>4 DEF DdnsSound
  <2>2. CASE Next /\ part = "ddns"
    <3>1. DdnsNext /\ UNCHANGED part
      BY <2>2, DdnsSteps
    <3>2. QED
      BY <2>2, <3>1, DdnsKept DEF DdnsSound
  <2>3. CASE Next /\ part # "ddns"
    <3>1. UNCHANGED <<part, ddnsVars>>
      BY <2>3, DdnsSteps
    <3>2. QED
      BY <2>3, <3>1 DEF DdnsSound, ddnsVars
  <2>4. QED
    BY <2>1, <2>2, <2>3
<1>2. QED
  BY <1>1, DdnsStarts, PTL DEF Spec

\* For any entries and hosts, and whatever providers answer or lose: with no run under way, a
\* host noted as updated has the address noted, and no other record, unless two runs met or
\* its provider has refused it in words that are taken for consent.
THEOREM StatusAlwaysTrue == Spec => []StatusTrue
<1>1. DdnsSound => StatusTrue
  BY DEF DdnsSound, RecordsTrue, Holds, StatusTrue
<1>2. QED
  BY <1>1, DdnsAlways, PTL

-----------------------------------------------------------------------------
(* The policy engine.                                                      *)

LEMMA PolicySteps ==
  ASSUME Next
  PROVE  /\ UNCHANGED part
         /\ \/ part = "policy" /\ PolicyNext
            \/ part # "policy" /\ UNCHANGED policyVars
BY DEF Next, Policies, InRules, Acme, Logins, Updates, Mails, Within

\* A set of naturals that is bounded has a largest element, and one that is not empty a
\* smallest.
LEMMA Extremes ==
  ASSUME NEW I \in SUBSET Nat, I # {}, NEW b \in Nat, \A n \in I : n <= b
  PROVE  Max(I) \in I /\ Min(I) \in I
<1> DEFINE T == {b - n : n \in I}
           R == OpToRel(<, Nat)
<1>1. T \subseteq Nat /\ T # {}
  <2>1. \A n \in I : b - n \in Nat
    OBVIOUS
  <2>2. PICK n \in I : TRUE
    OBVIOUS
  <2>3. QED
    BY <2>1, <2>2
<1>2. \A x, y \in Nat : y < x => <<y, x>> \in R
  BY DEF OpToRel
<1>3. IsWellFoundedOn(R, Nat)
  BY NatLessThanWellFounded
<1> HIDE DEF R
<1>4. PICK x \in T : \A y \in T : ~(<<y, x>> \in R)
  <2> HIDE DEF T
  <2> QED BY <1>1, <1>3, WFMin
<1>5. PICK m \in I : x = b - m
  BY <1>4
<1>6. \A n \in I : m >= n
  <2> TAKE n \in I
  <2>1. b - n \in T /\ ~(b - n < b - m)
    BY <1>1, <1>2, <1>4, <1>5
  <2>2. QED
    BY <2>1
<1>7. PICK l \in I : \A y \in I : ~(<<y, l>> \in R)
  BY <1>3, WFMin
<1>8. \A n \in I : l =< n
  <2> TAKE n \in I
  <2>1. ~(n < l) /\ n \in Nat /\ l \in Nat
    BY <1>2, <1>7
  <2>2. QED
    BY <2>1
<1>9. QED
  BY <1>6, <1>8 DEF Max, Min

IsSequence(q) == \E S : q \in Seq(S)

LEMMA SequenceShape ==
  ASSUME NEW q, IsSequence(q)
  PROVE  Len(q) \in Nat /\ DOMAIN q = 1..Len(q)
BY LenProperties DEF IsSequence

LEMMA AppendedTo ==
  ASSUME NEW q, IsSequence(q), NEW e
  PROVE  /\ IsSequence(Append(q, e))
         /\ DOMAIN Append(q, e) = 1..(Len(q) + 1)
         /\ \A n \in DOMAIN q : Append(q, e)[n] = q[n]
         /\ Append(q, e)[Len(q) + 1] = e
<1>1. PICK S : q \in Seq(S)
  BY DEF IsSequence
<1> DEFINE T == S \union {e}
<1>2. q \in Seq(T) /\ e \in T
  BY <1>1, SeqMonotonic
<1> HIDE DEF T
<1>3. QED
  BY <1>2, AppendProperties, LenProperties DEF IsSequence

\* Without its element n a sequence has the others in their order.
LEMMA RemovedFrom ==
  ASSUME NEW q, IsSequence(q), NEW n \in DOMAIN q
  PROVE  /\ IsSequence(RemoveAt(q, n))
         /\ \A k \in DOMAIN RemoveAt(q, n) : \E m \in DOMAIN q : RemoveAt(q, n)[k] = q[m]
         /\ \A m \in DOMAIN q \ {n} : \E k \in DOMAIN RemoveAt(q, n) : RemoveAt(q, n)[k] = q[m]
<1>1. PICK S : q \in Seq(S)
  BY DEF IsSequence
<1>2. Len(q) \in Nat /\ DOMAIN q = 1..Len(q) /\ q \in [1..Len(q) -> S]
  BY <1>1, LenProperties
<1> DEFINE a == SubSeq(q, 1, n - 1)
           b == SubSeq(q, n + 1, Len(q))
<1>3. /\ a \in Seq(S) /\ Len(a) = n - 1
      /\ \A i \in 1..(n - 1) : a[i] = q[i]
  <2>1. 1 \in Int /\ n - 1 \in Int /\ \A i \in 1..(n - 1) : q[i] \in S
    BY <1>2
  <2>2. /\ a \in Seq(S) /\ Len(a) = IF 1 <= n - 1 THEN (n - 1) - 1 + 1 ELSE 0
        /\ \A i \in 1..((n - 1) - 1 + 1) : a[i] = q[1 + i - 1]
    BY <2>1, SubSeqProperties
  <2>3. n \in Nat /\ n >= 1
    BY <1>2
  <2>4. QED
    BY <2>2, <2>3
<1>4. /\ b \in Seq(S) /\ Len(b) = Len(q) - n
      /\ \A i \in 1..(Len(q) - n) : b[i] = q[n + i]
  <2>1. n + 1 \in Int /\ Len(q) \in Int /\ \A i \in (n + 1)..Len(q) : q[i] \in S
    BY <1>2
  <2>2. /\ b \in Seq(S)
        /\ Len(b) = IF n + 1 <= Len(q) THEN Len(q) - (n + 1) + 1 ELSE 0
        /\ \A i \in 1..(Len(q) - (n + 1) + 1) : b[i] = q[(n + 1) + i - 1]
    BY <2>1, SubSeqProperties
  <2>3. QED
    BY <1>2, <2>2
<1> HIDE DEF a, b
<1>5. /\ a \o b \in Seq(S) /\ Len(a \o b) = Len(q) - 1
      /\ DOMAIN (a \o b) = 1..(Len(q) - 1)
      /\ \A i \in 1..(Len(q) - 1) : (a \o b)[i] = IF i < n THEN q[i] ELSE q[i + 1]
  <2>1. /\ a \o b \in Seq(S) /\ Len(a \o b) = Len(a) + Len(b)
        /\ \A i \in 1..(Len(a) + Len(b)) :
             (a \o b)[i] = IF i <= Len(a) THEN a[i] ELSE b[i - Len(a)]
    BY <1>3, <1>4, ConcatProperties
  <2>2. DOMAIN (a \o b) = 1..Len(a \o b)
    BY <2>1, LenProperties
  <2>3. Len(a) + Len(b) = Len(q) - 1
    BY <1>2, <1>3, <1>4
  <2>4. ASSUME NEW i \in 1..(Len(q) - 1)
        PROVE  (a \o b)[i] = IF i < n THEN q[i] ELSE q[i + 1]
    <3>1. (a \o b)[i] = IF i <= n - 1 THEN a[i] ELSE b[i - (n - 1)]
      BY <1>3, <2>1, <2>3, <2>4
    <3>2. CASE i < n
      BY <1>2, <1>3, <3>1, <3>2
    <3>3. CASE ~(i < n)
      <4>1. i - (n - 1) \in 1..(Len(q) - n) /\ n + (i - (n - 1)) = i + 1
        BY <1>2, <3>3
      <4>2. b[i - (n - 1)] = q[i + 1]
        BY <1>4, <4>1
      <4>3. QED
        BY <1>2, <3>1, <3>3, <4>2
    <3>4. QED
      BY <3>2, <3>3
  <2>5. QED
    BY <2>1, <2>2, <2>3, <2>4
<1>6. RemoveAt(q, n) = a \o b
  BY DEF RemoveAt, a, b
<1>7. ASSUME NEW m \in DOMAIN q \ {n}
      PROVE  \E k \in 1..(Len(q) - 1) : (a \o b)[k] = q[m]
  <2>1. CASE m < n
    <3>1. m \in 1..(Len(q) - 1)
      BY <1>2, <2>1
    <3>2. QED
      BY <1>5, <2>1, <3>1
  <2>2. CASE n < m
    <3>1. m - 1 \in 1..(Len(q) - 1) /\ ~(m - 1 < n) /\ (m - 1) + 1 = m
      BY <1>2, <2>2
    <3>2. QED
      BY <1>5, <3>1
  <2>3. m < n \/ n < m
    BY <1>2
  <2>4. QED
    BY <2>1, <2>2, <2>3
<1>8. ASSUME NEW k \in 1..(Len(q) - 1)
      PROVE  \E m \in DOMAIN q : (a \o b)[k] = q[m]
  <2>1. k \in DOMAIN q /\ k + 1 \in DOMAIN q
    BY <1>2
  <2>2. QED
    BY <1>5, <2>1
<1>9. QED
  BY <1>5, <1>6, <1>7, <1>8 DEF IsSequence

\* The first and the last element that passes a test, if one does.
LEMMA FirstNamed ==
  ASSUME IsSequence(mem.suggestions), NEW k,
         \E n \in DOMAIN mem.suggestions : mem.suggestions[n].id = k
  PROVE  Named(k) \in DOMAIN mem.suggestions /\ mem.suggestions[Named(k)].id = k
<1> DEFINE I == {n \in 1..Len(mem.suggestions) : mem.suggestions[n].id = k}
<1>1. Len(mem.suggestions) \in Nat /\ DOMAIN mem.suggestions = 1..Len(mem.suggestions)
  BY SequenceShape
<1>2. I \in SUBSET Nat /\ I # {} /\ \A n \in I : n <= Len(mem.suggestions)
  BY <1>1
<1>3. Named(k) = Min(I)
  BY <1>2 DEF Named, SelectInSeq
<1>4. Min(I) \in I
  <2> HIDE DEF I
  <2> QED BY <1>1, <1>2, Extremes
<1>5. QED
  BY <1>1, <1>3, <1>4

LastLogged(k) == SelectLastInSeq(mem.log, LAMBDA x : x.rule.id = k)

LEMMA LastWithRule ==
  ASSUME IsSequence(mem.log), NEW k, \E n \in DOMAIN mem.log : mem.log[n].rule.id = k
  PROVE  /\ LastLogged(k) \in DOMAIN mem.log /\ LastLogged(k) # 0
         /\ mem.log[LastLogged(k)].rule.id = k
<1> DEFINE I == {n \in 1..Len(mem.log) : mem.log[n].rule.id = k}
<1>1. Len(mem.log) \in Nat /\ DOMAIN mem.log = 1..Len(mem.log)
  BY SequenceShape
<1>2. I \in SUBSET Nat /\ I # {} /\ \A n \in I : n <= Len(mem.log)
  BY <1>1
<1>3. LastLogged(k) = Max(I)
  BY <1>2 DEF LastLogged, SelectLastInSeq
<1>4. Max(I) \in I
  <2> HIDE DEF I
  <2> QED BY <1>1, <1>2, Extremes
<1>5. \A n \in I : n \in DOMAIN mem.log /\ n # 0 /\ mem.log[n].rule.id = k
  BY <1>1
<1>6. QED
  <2> HIDE DEF I
  <2> QED BY <1>3, <1>4, <1>5

LastIn(i) == SelectLastInSeq(mem.log, LAMBDA x : Of(x, i))

LEMMA LastOfScope ==
  ASSUME IsSequence(mem.log), NEW i, LastIn(i) # 0
  PROVE  LastIn(i) \in DOMAIN mem.log
<1> DEFINE I == {n \in 1..Len(mem.log) : Of(mem.log[n], i)}
<1>1. Len(mem.log) \in Nat /\ DOMAIN mem.log = 1..Len(mem.log)
  BY SequenceShape
<1>2. I \in SUBSET Nat /\ \A n \in I : n <= Len(mem.log)
  BY <1>1
<1>3. LastIn(i) = IF I # {} THEN Max(I) ELSE 0
  BY DEF LastIn, SelectLastInSeq
<1>4. I # {} => Max(I) \in I
  <2> HIDE DEF I
  <2> QED BY <1>1, <1>2, Extremes
<1>5. QED
  BY <1>1, <1>3, <1>4

-----------------------------------------------------------------------------
Fields == {"suggestions", "log", "intents", "mode", "settings"}

\* The memory, or the files: no suggestion is of a service, nor is a rule in the log.
MemoryKept(m) ==
  /\ DOMAIN m = Fields /\ IsSequence(m.suggestions) /\ IsSequence(m.log)
  /\ \A n \in DOMAIN m.suggestions :
       "id" \in DOMAIN m.suggestions[n] /\ m.suggestions[n].id[1] # "service"
  /\ \A n \in DOMAIN m.log : m.log[n].rule.id[1] # "service"

\* What is under way, by its step.
Doing(p) ==
  /\ job[p].pc = "log" => job[p].entry.rule.id[1] # "service"
  /\ Undoing(p) => p \in Client /\ DOMAIN job[p] = {"pc", "entry"}
                   /\ job[p].entry.rule.id[1] # "service"
  /\ Bootstrapping(p) => p \in Client
  /\ job[p].pc \in {"harden", "load"} => DOMAIN job[p] = {"pc", "for", "with"}
  /\ job[p].pc = "save" => DOMAIN job[p] = {"pc", "for", "with", "rules", "strict", "new"}
  /\ job[p].pc = "apply" =>
       \E n \in DOMAIN mem.suggestions : mem.suggestions[n].id = job[p].of

PolicyType ==
  /\ left \in [Cost -> Nat] /\ MemoryKept(mem) /\ MemoryKept(disk)
  /\ DOMAIN job = Worker /\ \A p \in Worker : Doing(p)

HasEntry(k) == \E n \in DOMAIN mem.log : mem.log[n].rule.id = k
HasTwo(k) ==
  \E m, n \in DOMAIN mem.log : m # n /\ mem.log[m].rule.id = k /\ mem.log[n].rule.id = k
BeingLogged(k) == \E p \in Worker : job[p].pc = "log" /\ job[p].entry.rule.id = k

\* With no exception met: every rule is accounted for; one request undoes at a time, and
\* before it removes an entry no rule is left that has only this one; one request at a time
\* bootstraps, and while it publishes, its services are in, and the rules it may put back
\* are those it has kept.
Accounted ==
  past = {} =>
    /\ \A r \in rules : r.id[1] = "service" \/ HasEntry(r.id) \/ BeingLogged(r.id)
    /\ \A p, q \in Worker : Undoing(p) /\ Undoing(q) => p = q
    /\ \A p \in Worker : Undoing(p) => HasEntry(job[p].entry.rule.id)
    /\ \A p \in Worker : job[p].pc = "unlog" =>
         \A r \in rules : r.id = job[p].entry.rule.id => HasTwo(r.id) \/ BeingLogged(r.id)

Admitted ==
  past = {} =>
    /\ \A p, q \in Worker : Bootstrapping(p) /\ Bootstrapping(q) => p = q
    /\ \A p \in Worker : job[p].pc = "publish" =>
         /\ \A r \in job[p].rules : r.id[1] = "service" \/ r \in job[p].new
         /\ "services" \in job[p].with => Baseline(job[p].for) \subseteq rules

PolicySound ==
  IF part = "policy" THEN PolicyType /\ Accounted /\ Admitted ELSE rules = {}

LEMMA Moved ==
  ASSUME NEW p \in Worker, NEW k, DOMAIN job = Worker, To(p, k)
  PROVE  /\ DOMAIN job' = Worker /\ job'[p] = k
         /\ \A q \in Worker : q # p => job'[q] = job[q]
BY DEF To

LEMMA Spent ==
  ASSUME left \in [Cost -> Nat], UNCHANGED left \/ \E k \in Cost : Spend(k)
  PROVE  left' \in [Cost -> Nat]
<1>1. CASE UNCHANGED left
  BY <1>1
<1>2. ASSUME NEW k \in Cost, Spend(k)
      PROVE  left' \in [Cost -> Nat]
  <2>1. left[k] \in Nat /\ left[k] > 0
    BY <1>2 DEF Spend
  <2>2. left[k] - 1 \in Nat
    BY <2>1
  <2>3. QED
    BY <1>2, <2>2 DEF Spend
<1>3. QED
  BY <1>1, <1>2

\* A step that changes neither the rules nor the log, and begins nothing that changes them.
LEMMA AccountedBy ==
  ASSUME Accounted, UNCHANGED rules, mem'.log = mem.log, past' = {} => past = {},
         \A q \in Worker : job'[q] = job[q] \/ (job[q].pc # "log" /\ ~Undoing(q)')
  PROVE  Accounted'
<1>1. \A q \in Worker : Undoing(q)' => Undoing(q) /\ job'[q] = job[q]
  BY DEF Undoing
<1>2. \A q \in Worker : job'[q].pc = "unlog" => job[q].pc = "unlog" /\ job'[q] = job[q]
  BY DEF Undoing
<1>3. \A q \in Worker : job[q].pc = "log" => job'[q] = job[q]
  OBVIOUS
<1>4. \A k : /\ HasEntry(k) => HasEntry(k)'
             /\ HasTwo(k) => HasTwo(k)'
             /\ BeingLogged(k) => BeingLogged(k)'
  BY <1>3 DEF HasEntry, HasTwo, BeingLogged
<1>5. QED
  BY <1>1, <1>2, <1>4 DEF Accounted

LEMMA Quietly ==
  ASSUME PolicyType, Accounted, Admitted, UNCHANGED rules, mem'.log = mem.log,
         past' = {} => past = {},
         \A q \in Worker :
           \/ job'[q] = job[q]
           \/ /\ job[q].pc # "log" /\ ~Undoing(q)' /\ job'[q].pc # "publish"
              /\ Bootstrapping(q)' => Bootstrapping(q)
  PROVE  Accounted' /\ Admitted'
<1>1. \A q \in Worker : job'[q].pc = "publish" => job'[q] = job[q]
  OBVIOUS
<1>2. \A q \in Worker : Bootstrapping(q)' => Bootstrapping(q)
  BY DEF Bootstrapping
<1>3. Admitted'
  BY <1>1, <1>2 DEF Admitted
<1>4. QED
  BY <1>3, AccountedBy

\* The type after a step of p, and after a change of one field.
LEMMA TypedBy ==
  ASSUME PolicyType, NEW p \in Worker, DOMAIN job' = Worker,
         \A q \in Worker : q # p => job'[q] = job[q],
         left' \in [Cost -> Nat], MemoryKept(mem'), MemoryKept(disk'), Doing(p)',
         \A n \in DOMAIN mem.suggestions : \E m \in DOMAIN mem'.suggestions :
           mem'.suggestions[m].id = mem.suggestions[n].id
  PROVE  PolicyType'
<1>1. \A q \in Worker : q # p => Doing(q)'
  BY DEF PolicyType, Doing, Undoing, Bootstrapping
<1>2. QED
  BY <1>1 DEF PolicyType

LEMMA FieldSet ==
  ASSUME NEW m, MemoryKept(m), NEW f, NEW v, f \in Fields \ {"suggestions", "log"}
  PROVE  /\ MemoryKept([m EXCEPT ![f] = v])
         /\ [m EXCEPT ![f] = v].suggestions = m.suggestions /\ [m EXCEPT ![f] = v].log = m.log
BY DEF MemoryKept, Fields

LEMMA SuggestionsSet ==
  ASSUME NEW m, MemoryKept(m), NEW q, IsSequence(q),
         \A n \in DOMAIN q : "id" \in DOMAIN q[n] /\ q[n].id[1] # "service"
  PROVE  /\ MemoryKept([m EXCEPT !.suggestions = q])
         /\ [m EXCEPT !.suggestions = q].suggestions = q
         /\ [m EXCEPT !.suggestions = q].log = m.log
BY DEF MemoryKept, Fields

LEMMA LogSet ==
  ASSUME NEW m, MemoryKept(m), NEW q, IsSequence(q),
         \A n \in DOMAIN q : q[n].rule.id[1] # "service"
  PROVE  /\ MemoryKept([m EXCEPT !.log = q])
         /\ [m EXCEPT !.log = q].log = q
         /\ [m EXCEPT !.log = q].suggestions = m.suggestions
BY DEF MemoryKept, Fields

\* A mark leaves the suggestions in their places, with their names.
LEMMA MarkedSame ==
  ASSUME MemoryKept(mem), NEW k, NEW mark, mark # "id"
  PROVE  /\ IsSequence(Marked(k, mark)) /\ DOMAIN Marked(k, mark) = DOMAIN mem.suggestions
         /\ \A n \in DOMAIN mem.suggestions :
              /\ "id" \in DOMAIN Marked(k, mark)[n]
              /\ Marked(k, mark)[n].id = mem.suggestions[n].id
<1> DEFINE s == mem.suggestions
           w == [s[Named(k)] EXCEPT ![mark] = TRUE]
<1>1. PICK S : s \in Seq(S)
  BY DEF MemoryKept, IsSequence
<1>2. Len(s) \in Nat /\ DOMAIN s = 1..Len(s) /\ s \in [1..Len(s) -> S]
  BY <1>1, LenProperties
<1>3. Marked(k, mark) = [s EXCEPT ![Named(k)] = w]
  BY DEF Marked
<1>4. \A n \in DOMAIN s : "id" \in DOMAIN s[n]
  BY DEF MemoryKept
<1>5. CASE Named(k) \in DOMAIN s
  <2>1. "id" \in DOMAIN w /\ w.id = s[Named(k)].id
    BY <1>4, <1>5
  <2> DEFINE T == S \union {w}
  <2>2. s \in Seq(T) /\ w \in T
    BY <1>1, SeqMonotonic
  <2> HIDE DEF w, T, s
  <2>3. [s EXCEPT ![Named(k)] = w] \in Seq(T)
    BY <1>2, <1>5, <2>2, ExceptSeq
  <2>4. QED
    BY <1>2, <1>3, <1>4, <1>5, <2>1, <2>3 DEF IsSequence, s
<1>6. CASE Named(k) \notin DOMAIN s
  <2> HIDE DEF w
  <2>1. [s EXCEPT ![Named(k)] = w] = s
    BY <1>2, <1>6
  <2>2. QED
    BY <1>1, <1>3, <1>4, <2>1 DEF IsSequence
<1>7. QED
  BY <1>5, <1>6

-----------------------------------------------------------------------------
PolicyInv == PolicyType /\ Accounted /\ Admitted

\* Only the memory and the files change.
LEMMA StoredOnly ==
  ASSUME PolicyInv, UNCHANGED <<rules, job>>, past' = {} => past = {}, left' \in [Cost -> Nat],
         MemoryKept(mem'), MemoryKept(disk'), mem'.log = mem.log,
         \A n \in DOMAIN mem.suggestions : \E m \in DOMAIN mem'.suggestions :
           mem'.suggestions[m].id = mem.suggestions[n].id
  PROVE  PolicyInv'
<1>1. PolicyType'
  BY DEF PolicyInv, PolicyType, Doing, Undoing, Bootstrapping
<1>2. Accounted' /\ Admitted'
  BY Quietly DEF PolicyInv
<1>3. QED
  BY <1>1, <1>2 DEF PolicyInv

LEMMA SetOther ==
  ASSUME PolicyInv, NEW f \in Fields \ {"suggestions", "log"}, NEW v, Set(f, v)
  PROVE  PolicyInv'
<1>1. MemoryKept(mem) /\ MemoryKept(disk) /\ left \in [Cost -> Nat]
  BY DEF PolicyInv, PolicyType
<1>2. MemoryKept(mem') /\ mem'.suggestions = mem.suggestions /\ mem'.log = mem.log
  BY <1>1, FieldSet DEF Set
<1>3. MemoryKept(disk')
  BY <1>1, FieldSet DEF Set
<1>4. left' \in [Cost -> Nat]
  BY <1>1, Spent DEF Set, Cost
<1>5. UNCHANGED <<rules, job, past>>
  BY DEF Set
<1>6. QED
  BY <1>2, <1>3, <1>4, <1>5, StoredOnly

LEMMA SetSuggestions ==
  ASSUME PolicyInv, NEW q, IsSequence(q), Set("suggestions", q),
         \A n \in DOMAIN q : "id" \in DOMAIN q[n] /\ q[n].id[1] # "service",
         \A n \in DOMAIN mem.suggestions : \E m \in DOMAIN q : q[m].id = mem.suggestions[n].id
  PROVE  PolicyInv'
<1>1. MemoryKept(mem) /\ MemoryKept(disk) /\ left \in [Cost -> Nat]
  BY DEF PolicyInv, PolicyType
<1>2. MemoryKept(mem') /\ mem'.suggestions = q /\ mem'.log = mem.log
  <2>1. /\ MemoryKept([mem EXCEPT !.suggestions = q])
        /\ [mem EXCEPT !.suggestions = q].suggestions = q
        /\ [mem EXCEPT !.suggestions = q].log = mem.log
    BY <1>1, SuggestionsSet
  <2>2. QED
    BY <2>1 DEF Set
<1>3. MemoryKept(disk')
  BY <1>1, SuggestionsSet DEF Set
<1>4. left' \in [Cost -> Nat]
  BY <1>1, Spent DEF Set, Cost
<1>5. UNCHANGED <<rules, job, past>>
  BY DEF Set
<1>6. QED
  BY <1>2, <1>3, <1>4, <1>5, StoredOnly

LEMMA RequestsKeep ==
  ASSUME PolicyInv,
         RejectSuggestion \/ RejectAudit \/ SetMode \/ SetAutomationSettings \/ SetIntents
  PROVE  PolicyInv'
<1>0. MemoryKept(mem)
  BY DEF PolicyInv, PolicyType
<1>1. CASE RejectSuggestion
  <2>1. PICK s \in Range(mem.suggestions) : Set("suggestions", Marked(s.id, "rejected"))
    BY <1>1 DEF RejectSuggestion
  <2> DEFINE q == Marked(s.id, "rejected")
  <2>2. /\ IsSequence(q) /\ DOMAIN q = DOMAIN mem.suggestions
        /\ \A n \in DOMAIN mem.suggestions :
             "id" \in DOMAIN q[n] /\ q[n].id = mem.suggestions[n].id
    BY <1>0, MarkedSame
  <2> HIDE DEF q
  <2>3. \A n \in DOMAIN q : q[n].id[1] # "service"
    BY <1>0, <2>2 DEF MemoryKept
  <2>4. Set("suggestions", q)
    BY <2>1 DEF q
  <2>5. QED
    BY <2>2, <2>3, <2>4, SetSuggestions
<1>2. CASE RejectAudit
  <2>1. PICK i, a : Set("suggestions",
              Append(mem.suggestions, [id |-> <<"audit", a, All>>, action |-> "edit",
                                       applied |-> FALSE, rejected |-> TRUE]))
    BY <1>2 DEF RejectAudit
  <2> DEFINE e == [id |-> <<"audit", a, All>>, action |-> "edit",
                   applied |-> FALSE, rejected |-> TRUE]
             q == Append(mem.suggestions, e)
  <2>2. IsSequence(mem.suggestions) /\ Len(mem.suggestions) \in Nat
        /\ DOMAIN mem.suggestions = 1..Len(mem.suggestions)
    BY <1>0, SequenceShape DEF MemoryKept
  <2>3. "id" \in DOMAIN e /\ e.id[1] # "service"
    OBVIOUS
  <2> HIDE DEF e
  <2>4. /\ IsSequence(q) /\ DOMAIN q = 1..(Len(mem.suggestions) + 1)
        /\ \A n \in DOMAIN mem.suggestions : q[n] = mem.suggestions[n]
        /\ q[Len(mem.suggestions) + 1] = e
    BY <2>2, AppendedTo
  <2>5. Set("suggestions", q)
    BY <2>1 DEF e
  <2> HIDE DEF q
  <2>6. \A n \in DOMAIN q : n \in DOMAIN mem.suggestions \/ n = Len(mem.suggestions) + 1
    BY <2>2, <2>4
  <2>7. \A n \in DOMAIN q : "id" \in DOMAIN q[n] /\ q[n].id[1] # "service"
    BY <1>0, <2>3, <2>4, <2>6 DEF MemoryKept
  <2>8. \A n \in DOMAIN mem.suggestions : n \in DOMAIN q
    BY <2>2, <2>4
  <2>9. QED
    BY <2>4, <2>5, <2>7, <2>8, SetSuggestions
<1>3. CASE SetMode
  BY <1>3, SetOther DEF SetMode, Fields
<1>4. CASE SetAutomationSettings
  BY <1>4, SetOther DEF SetAutomationSettings, Fields
<1>5. CASE SetIntents
  <2>1. PICK v : Set("intents", v)
    BY <1>5 DEF SetIntents
  <2>2. QED
    BY <2>1, SetOther DEF Fields
<1>6. QED
  BY <1>1, <1>2, <1>3, <1>4, <1>5

\* A step of p that changes neither the rules nor the log, and begins no change of them.
LEMMA Stepped ==
  ASSUME PolicyInv, NEW p \in Worker, NEW k, To(p, k), UNCHANGED rules, past' = {} => past = {},
         left' \in [Cost -> Nat], MemoryKept(mem'), MemoryKept(disk'), mem'.log = mem.log,
         \A n \in DOMAIN mem.suggestions : \E m \in DOMAIN mem'.suggestions :
           mem'.suggestions[m].id = mem.suggestions[n].id,
         Doing(p)', job[p].pc # "log", k.pc \notin {"undo", "unlog", "publish"},
         k.pc \in {"harden", "load", "save"} => Bootstrapping(p)
  PROVE  PolicyInv'
<1>1. /\ DOMAIN job' = Worker /\ job'[p] = k
      /\ \A q \in Worker : q # p => job'[q] = job[q]
  BY Moved DEF PolicyInv, PolicyType
<1>2. PolicyType'
  BY <1>1, TypedBy DEF PolicyInv
<1>3. ~Undoing(p)' /\ (Bootstrapping(p)' => Bootstrapping(p))
  BY <1>1 DEF Undoing, Bootstrapping
<1>4. Accounted' /\ Admitted'
  BY <1>1, <1>3, Quietly DEF PolicyInv
<1>5. QED
  BY <1>2, <1>4 DEF PolicyInv

LEMMA ObserveKeeps ==
  ASSUME PolicyInv, Observe
  PROVE  PolicyInv'
<1> DEFINE former == mem.suggestions
<1>1. MemoryKept(mem) /\ MemoryKept(disk) /\ left \in [Cost -> Nat]
  BY DEF PolicyInv, PolicyType
<1>2. IsSequence(former) /\ Len(former) \in Nat /\ DOMAIN former = 1..Len(former)
  BY <1>1, SequenceShape DEF MemoryKept
<1>3. job[Reader].pc = "idle" /\ UNCHANGED <<rules, past>>
  BY DEF Observe
<1>4. left' \in [Cost -> Nat]
  BY <1>1, Spent DEF Observe, Cost
<1>5. CASE UNCHANGED <<mem, disk, job>>
  BY <1>1, <1>3, <1>4, <1>5, StoredOnly
<1>6. ASSUME NEW s, "id" \in DOMAIN s, s.id[1] = "ai",
             mem' = [mem EXCEPT !.suggestions = Append(@, s)],
             disk' = disk \/ disk' = [disk EXCEPT !.suggestions = mem'.suggestions],
             UNCHANGED job \/ To(Reader, [pc |-> "apply", of |-> s.id, auto |-> TRUE])
      PROVE  PolicyInv'
  <2> DEFINE q == Append(former, s)
  <2>1. /\ IsSequence(q) /\ DOMAIN q = 1..(Len(former) + 1)
        /\ \A n \in DOMAIN former : q[n] = former[n]
        /\ q[Len(former) + 1] = s
    BY <1>2, AppendedTo
  <2> HIDE DEF q
  <2>2. \A n \in DOMAIN q : n \in DOMAIN former \/ n = Len(former) + 1
    BY <1>2, <2>1
  <2>3. \A n \in DOMAIN q : "id" \in DOMAIN q[n] /\ q[n].id[1] # "service"
    BY <1>1, <1>6, <2>1, <2>2 DEF MemoryKept
  <2>4. \A n \in DOMAIN former : n \in DOMAIN q
    BY <1>2, <2>1
  <2>5. mem' = [mem EXCEPT !.suggestions = q]
    BY <1>1, <1>6 DEF q
  <2>6. MemoryKept(mem') /\ mem'.suggestions = q /\ mem'.log = mem.log
    BY <1>1, <2>1, <2>3, <2>5, SuggestionsSet
  <2>7. MemoryKept(disk')
    <3>1. disk' = disk \/ disk' = [disk EXCEPT !.suggestions = q]
      BY <1>6, <2>6
    <3>2. MemoryKept([disk EXCEPT !.suggestions = q])
      BY <1>1, <2>1, <2>3, SuggestionsSet
    <3>3. QED
      BY <1>1, <3>1, <3>2
  <2>8. \A n \in DOMAIN former : \E m \in DOMAIN mem'.suggestions :
          mem'.suggestions[m].id = former[n].id
    BY <2>1, <2>4, <2>6
  <2>9. CASE UNCHANGED job
    BY <1>3, <1>4, <2>6, <2>7, <2>8, <2>9, StoredOnly
  <2>10. CASE To(Reader, [pc |-> "apply", of |-> s.id, auto |-> TRUE])
    <3> DEFINE k == [pc |-> "apply", of |-> s.id, auto |-> TRUE]
    <3>1. Reader \in Worker /\ DOMAIN job = Worker
      BY DEF Worker, PolicyInv, PolicyType
    <3>2. job'[Reader] = k
      BY <2>10, <3>1, Moved
    <3>3. Len(former) + 1 \in DOMAIN q
      BY <1>2, <2>1
    <3>4. mem'.suggestions[Len(former) + 1].id = s.id
      BY <2>1, <2>6
    <3>5. Doing(Reader)'
      BY <2>6, <3>2, <3>3, <3>4 DEF Doing, Undoing, Bootstrapping
    <3>6. QED
      BY <1>3, <1>4, <2>6, <2>7, <2>8, <2>10, <3>1, <3>5, Stepped
  <2>11. QED
    BY <1>6, <2>9, <2>10
<1>7. ASSUME NEW e, NEW c, NEW d, NEW s, s = Suggestion(e, c, d)
      PROVE  "id" \in DOMAIN s /\ s.id[1] = "ai"
  BY <1>7 DEF Suggestion
<1>8. QED
  <2>1. PICK e : LET classes == Classes(e, recent')
                     decided == Resolved(e, mem.intents)
                     s == Suggestion(e, classes, decided)
                 IN  \/ UNCHANGED <<mem, disk, job>>
                     \/ /\ mem' = [mem EXCEPT !.suggestions = Append(@, s)]
                        /\ disk' = disk \/ disk' = [disk EXCEPT !.suggestions = mem'.suggestions]
                        /\ \/ UNCHANGED job
                           \/ To(Reader, [pc |-> "apply", of |-> s.id, auto |-> TRUE])
    BY DEF Observe
  <2> DEFINE s == Suggestion(e, Classes(e, recent'), Resolved(e, mem.intents))
  <2>2. "id" \in DOMAIN s /\ s.id[1] = "ai"
    BY <1>7
  <2> HIDE DEF s
  <2>3. CASE UNCHANGED <<mem, disk, job>>
    BY <1>5, <2>3
  <2>4. CASE /\ mem' = [mem EXCEPT !.suggestions = Append(@, s)]
             /\ disk' = disk \/ disk' = [disk EXCEPT !.suggestions = mem'.suggestions]
             /\ UNCHANGED job \/ To(Reader, [pc |-> "apply", of |-> s.id, auto |-> TRUE])
    BY <1>6, <2>2, <2>4
  <2>5. QED
    BY <2>1, <2>3, <2>4 DEF s

LEMMA RequestStarts ==
  ASSUME PolicyInv, NEW p \in Worker, ApplySuggestion(p)
  PROVE  PolicyInv'
<1>1. MemoryKept(mem) /\ MemoryKept(disk) /\ left \in [Cost -> Nat] /\ DOMAIN job = Worker
  BY DEF PolicyInv, PolicyType
<1>2. PICK s \in Range(mem.suggestions) :
        Begin(p) /\ To(p, [pc |-> "apply", of |-> s.id, auto |-> FALSE])
  BY DEF ApplySuggestion
<1>3. UNCHANGED <<mem, disk, rules, past>>
  BY DEF ApplySuggestion
<1>4. PICK n \in DOMAIN mem.suggestions : mem.suggestions[n] = s
  BY DEF Range
<1>5. job'[p].pc = "apply" /\ job'[p].of = s.id
  BY <1>1, <1>2, Moved
<1>6. Doing(p)'
  BY <1>3, <1>4, <1>5 DEF Doing, Undoing, Bootstrapping
<1>7. left' \in [Cost -> Nat] /\ job[p].pc = "idle"
  BY <1>1, <1>2, Spent DEF Begin, Cost
<1>8. QED
  BY <1>1, <1>2, <1>3, <1>6, <1>7, Stepped

LEMMA RestingDoes ==
  ASSUME NEW p \in Worker, job'[p] = Resting
  PROVE  Doing(p)'
BY DEF Doing, Undoing, Bootstrapping, Resting

\* A step of p after which it rests.
LEMMA Rested ==
  ASSUME PolicyInv, NEW p \in Worker, To(p, Resting), UNCHANGED rules, past' = {} => past = {},
         left' \in [Cost -> Nat], MemoryKept(mem'), MemoryKept(disk'), mem'.log = mem.log,
         \A n \in DOMAIN mem.suggestions : \E m \in DOMAIN mem'.suggestions :
           mem'.suggestions[m].id = mem.suggestions[n].id,
         job[p].pc # "log"
  PROVE  PolicyInv'
<1>1. job'[p] = Resting
  BY Moved DEF PolicyInv, PolicyType
<1>2. Doing(p)'
  BY <1>1, RestingDoes
<1>3. Resting.pc = "idle"
  BY DEF Resting
<1>4. QED
  BY <1>2, <1>3, Stepped

LEMMA ApplyMarkKeeps ==
  ASSUME PolicyInv, NEW p \in Worker, ApplyMark(p)
  PROVE  PolicyInv'
<1>1. MemoryKept(mem) /\ MemoryKept(disk) /\ left \in [Cost -> Nat] /\ DOMAIN job = Worker
  BY DEF PolicyInv, PolicyType
<1> DEFINE q == Marked(job[p].of, "applied")
<1>2. /\ IsSequence(q) /\ DOMAIN q = DOMAIN mem.suggestions
      /\ \A n \in DOMAIN mem.suggestions :
           "id" \in DOMAIN q[n] /\ q[n].id = mem.suggestions[n].id
  BY <1>1, MarkedSame
<1>3. mem' = [mem EXCEPT !.suggestions = q]
  BY DEF ApplyMark
<1>4. /\ job[p].pc = "mark" /\ To(p, Resting) /\ UNCHANGED <<rules, past>>
      /\ Written("suggestions") \/ Unwritten
  BY DEF ApplyMark, Persist
<1> HIDE DEF q
<1>5. \A n \in DOMAIN q : "id" \in DOMAIN q[n] /\ q[n].id[1] # "service"
  BY <1>1, <1>2 DEF MemoryKept
<1>6. MemoryKept(mem') /\ mem'.suggestions = q /\ mem'.log = mem.log
  BY <1>1, <1>2, <1>3, <1>5, SuggestionsSet
<1>7. MemoryKept([disk EXCEPT !.suggestions = q])
  BY <1>1, <1>2, <1>5, SuggestionsSet
<1>8. MemoryKept(disk')
  BY <1>1, <1>4, <1>6, <1>7 DEF Written, Unwritten
<1>9. left' \in [Cost -> Nat]
  BY <1>1, <1>4, Spent DEF Written, Unwritten, Cost
<1>10. QED
  BY <1>2, <1>4, <1>6, <1>8, <1>9, Rested

\* The rule is in the rules while it is being logged.
LEMMA ApplyRuleKeeps ==
  ASSUME PolicyInv, NEW p \in Worker, ApplyRule(p)
  PROVE  PolicyInv'
<1>1. MemoryKept(mem) /\ MemoryKept(disk) /\ left \in [Cost -> Nat] /\ DOMAIN job = Worker /\ Doing(p)
  BY DEF PolicyInv, PolicyType
<1> DEFINE s == mem.suggestions[Named(job[p].of)]
           made == RuleOf(s)
           next(r) == [pc |-> "log", entry |-> [rule |-> r, auto |-> job[p].auto]]
<1>2. job[p].pc = "apply" /\ UNCHANGED <<mem, disk>>
  BY DEF ApplyRule
<1>3. Named(job[p].of) \in DOMAIN mem.suggestions
  BY <1>1, <1>2, FirstNamed DEF Doing, MemoryKept
<1>4. s.id[1] # "service"
  BY <1>1, <1>3 DEF MemoryKept
<1>5. made = {} \/ \E r : made = {r} /\ r.id = s.id
  <2> HIDE DEF s
  <2> DEFINE r == [id |-> s.id, iface |-> s.event.iface, action |-> s.action,
                   port |-> s.event.port, from |-> s.event.src, six |-> FALSE]
  <2>1. made = {} \/ made = {r}
    BY DEF RuleOf, If
  <2>2. r.id = s.id
    OBVIOUS
  <2> HIDE DEF r, made
  <2>3. QED
    BY <2>1, <2>2
<1>6. \/ made # {} /\ UNCHANGED <<left, past>> /\ rules' = rules \union made
         /\ To(p, next(CHOOSE r \in made : TRUE))
      \/ UNCHANGED <<rules, past>> /\ (UNCHANGED left \/ Spend("faults")) /\ To(p, Resting)
      \/ past' = past \union {"stuck"} /\ Spend("faults") /\ To(p, Resting)
  BY DEF ApplyRule
<1> HIDE DEF s, made
<1>7. CASE UNCHANGED <<rules, past>> /\ (UNCHANGED left \/ Spend("faults")) /\ To(p, Resting)
  <2>1. left' \in [Cost -> Nat]
    BY <1>1, <1>7, Spent DEF Cost
  <2>2. QED
    BY <1>1, <1>2, <1>7, <2>1, Rested
<1>10. CASE past' = past \union {"stuck"} /\ Spend("faults") /\ To(p, Resting)
  <2>1. left' \in [Cost -> Nat]
    BY <1>1, <1>10, Spent DEF Cost
  <2>2. /\ DOMAIN job' = Worker /\ job'[p] = Resting
        /\ \A q \in Worker : q # p => job'[q] = job[q]
    BY <1>1, <1>10, Moved
  <2>3. Doing(p)'
    BY <2>2, RestingDoes
  <2>4. PolicyType'
    BY <1>1, <1>2, <2>1, <2>2, <2>3, TypedBy DEF PolicyInv
  <2>5. past' # {}
    BY <1>10
  <2>6. QED
    BY <2>4, <2>5 DEF PolicyInv, Accounted, Admitted
<1>8. ASSUME made # {}, UNCHANGED <<left, past>>, rules' = rules \union made,
             To(p, next(CHOOSE r \in made : TRUE))
      PROVE  PolicyInv'
  <2>1. PICK r : made = {r} /\ r.id = s.id
    BY <1>5, <1>8
  <2>2. (CHOOSE x \in made : TRUE) = r
    BY <2>1
  <2>3. To(p, next(r))
    BY <1>8, <2>2
  <2>4. /\ job'[p].pc = "log" /\ job'[p].entry.rule = r /\ DOMAIN job' = Worker
        /\ \A q \in Worker : q # p => job'[q] = job[q]
    BY <1>1, <2>3, Moved
  <2>5. r.id[1] # "service" /\ rules' = rules \union {r}
    BY <1>4, <1>8, <2>1
  <2>6. Doing(p)' /\ ~Undoing(p)' /\ ~Bootstrapping(p)'
    BY <2>4, <2>5 DEF Doing, Undoing, Bootstrapping
  <2>7. PolicyType'
    BY <1>1, <1>2, <1>8, <2>4, <2>6, TypedBy DEF PolicyInv
  <2>8. \A k : /\ HasEntry(k) => HasEntry(k)'
               /\ HasTwo(k) => HasTwo(k)'
               /\ BeingLogged(k) => BeingLogged(k)'
    BY <1>2, <2>4 DEF HasEntry, HasTwo, BeingLogged
  <2>9. BeingLogged(r.id)'
    BY <2>4 DEF BeingLogged
  <2>10. \A q \in Worker : Undoing(q)' => Undoing(q) /\ job'[q] = job[q]
    BY <2>4, <2>6 DEF Undoing
  <2>11. \A q \in Worker : job'[q].pc \in {"unlog", "publish"} => job'[q] = job[q]
    BY <2>4
  <2>12. \A q \in Worker : Bootstrapping(q)' => Bootstrapping(q)
    BY <2>4, <2>6 DEF Bootstrapping
  <2>13. Accounted'
    BY <1>2, <1>8, <2>5, <2>8, <2>9, <2>10, <2>11 DEF PolicyInv, Accounted
  <2>14. Admitted'
    BY <1>2, <1>8, <2>5, <2>11, <2>12 DEF PolicyInv, Admitted
  <2>15. QED
    BY <2>7, <2>13, <2>14 DEF PolicyInv
<1>11. QED
  BY <1>6, <1>7, <1>8, <1>10

\* An entry that is added: the rule has one, and a second if it had one.
LEMMA ApplyLogKeeps ==
  ASSUME PolicyInv, NEW p \in Worker, ApplyLog(p)
  PROVE  PolicyInv'
<1>1. MemoryKept(mem) /\ MemoryKept(disk) /\ left \in [Cost -> Nat] /\ DOMAIN job = Worker /\ Doing(p)
  BY DEF PolicyInv, PolicyType
<1>0. PICK e : e = job[p].entry
  OBVIOUS
<1> DEFINE l == Append(mem.log, e)
<1>2. /\ job[p].pc = "log" /\ UNCHANGED <<rules, past>> /\ mem' = [mem EXCEPT !.log = l]
      /\ \/ /\ disk' = [disk EXCEPT !.log = Append(disk.log, e)] /\ UNCHANGED left
            /\ To(p, [pc |-> "mark", of |-> e.rule.id])
         \/ UNCHANGED disk /\ Spend("faults") /\ To(p, Resting)
  BY <1>0 DEF ApplyLog, Unwritten
<1>3. e.rule.id[1] # "service"
  BY <1>0, <1>1, <1>2 DEF Doing
<1>4. ASSUME NEW q, IsSequence(q), \A n \in DOMAIN q : q[n].rule.id[1] # "service"
      PROVE  /\ IsSequence(Append(q, e))
             /\ \A n \in DOMAIN Append(q, e) : Append(q, e)[n].rule.id[1] # "service"
             /\ \A n \in DOMAIN q : n \in DOMAIN Append(q, e) /\ Append(q, e)[n] = q[n]
             /\ \E n \in DOMAIN Append(q, e) : n \notin DOMAIN q /\ Append(q, e)[n] = e
  <2>1. Len(q) \in Nat /\ DOMAIN q = 1..Len(q)
    BY <1>4, SequenceShape
  <2>2. /\ IsSequence(Append(q, e)) /\ DOMAIN Append(q, e) = 1..(Len(q) + 1)
        /\ \A n \in DOMAIN q : Append(q, e)[n] = q[n]
        /\ Append(q, e)[Len(q) + 1] = e
    BY <1>4, AppendedTo
  <2>3. \A n \in DOMAIN Append(q, e) : n \in DOMAIN q \/ n = Len(q) + 1
    BY <2>1, <2>2
  <2>4. /\ Len(q) + 1 \in DOMAIN Append(q, e) /\ Len(q) + 1 \notin DOMAIN q
        /\ \A n \in DOMAIN q : n \in DOMAIN Append(q, e)
    BY <2>1, <2>2
  <2>5. QED
    BY <1>3, <1>4, <2>2, <2>3, <2>4
<1>5. /\ MemoryKept(mem') /\ mem'.log = l /\ mem'.suggestions = mem.suggestions
      /\ \A n \in DOMAIN mem.log : n \in DOMAIN l /\ l[n] = mem.log[n]
      /\ \E n \in DOMAIN l : n \notin DOMAIN mem.log /\ l[n] = e
  <2>1. /\ IsSequence(l) /\ \A n \in DOMAIN l : l[n].rule.id[1] # "service"
        /\ \A n \in DOMAIN mem.log : n \in DOMAIN l /\ l[n] = mem.log[n]
        /\ \E n \in DOMAIN l : n \notin DOMAIN mem.log /\ l[n] = e
    BY <1>1, <1>4 DEF MemoryKept
  <2> HIDE DEF l
  <2>2. QED
    BY <1>1, <1>2, <2>1, LogSet
<1>6. MemoryKept(disk')
  <2> DEFINE d == Append(disk.log, e)
  <2>1. IsSequence(d) /\ \A n \in DOMAIN d : d[n].rule.id[1] # "service"
    BY <1>1, <1>4 DEF MemoryKept
  <2>2. disk' = disk \/ disk' = [disk EXCEPT !.log = d]
    BY <1>2
  <2> HIDE DEF d
  <2>3. QED
    BY <1>1, <2>1, <2>2, LogSet
<1>7. left' \in [Cost -> Nat]
  BY <1>1, <1>2, Spent DEF Cost
<1>8. PICK k : To(p, k) /\ k.pc \in {"mark", "idle"}
  BY <1>2 DEF Resting
<1> HIDE DEF l
<1>9. /\ DOMAIN job' = Worker /\ job'[p] = k
      /\ \A q \in Worker : q # p => job'[q] = job[q]
  BY <1>1, <1>8, Moved
<1>10. Doing(p)' /\ ~Undoing(p)' /\ ~Bootstrapping(p)'
  BY <1>8, <1>9 DEF Doing, Undoing, Bootstrapping
<1>11. PolicyType'
  BY <1>5, <1>6, <1>7, <1>9, <1>10, TypedBy DEF PolicyInv
<1>12. \A i : /\ HasEntry(i) => HasEntry(i)'
              /\ HasTwo(i) => HasTwo(i)'
              /\ BeingLogged(i) => BeingLogged(i)' \/ i = e.rule.id
  BY <1>0, <1>5, <1>9 DEF HasEntry, HasTwo, BeingLogged
<1>13. HasEntry(e.rule.id)'
  BY <1>5 DEF HasEntry
<1>14. HasEntry(e.rule.id) => HasTwo(e.rule.id)'
  BY <1>5 DEF HasEntry, HasTwo
<1>15. \A q \in Worker : Undoing(q)' => Undoing(q) /\ job'[q] = job[q]
  BY <1>9, <1>10 DEF Undoing
<1>16. \A q \in Worker : job'[q].pc \in {"unlog", "publish"} => job'[q] = job[q]
  BY <1>8, <1>9
<1>17. \A q \in Worker : Bootstrapping(q)' => Bootstrapping(q)
  BY <1>9, <1>10 DEF Bootstrapping
<1>18. Accounted'
  <2> SUFFICES ASSUME past = {}
               PROVE  Accounted'
    BY <1>2 DEF Accounted
  <2>1. \A r \in rules : r.id[1] = "service" \/ HasEntry(r.id)' \/ BeingLogged(r.id)'
    BY <1>12, <1>13 DEF PolicyInv, Accounted
  <2>2. \A q \in Worker : job[q].pc = "unlog" => HasEntry(job[q].entry.rule.id)
    BY DEF PolicyInv, Accounted, Undoing
  <2>3. \A q \in Worker : job[q].pc = "unlog" =>
          \A r \in rules : r.id = job[q].entry.rule.id => HasTwo(r.id)' \/ BeingLogged(r.id)'
    BY <1>12, <1>14, <2>2 DEF PolicyInv, Accounted
  <2>4. QED
    BY <1>2, <1>12, <1>15, <1>16, <2>1, <2>3 DEF PolicyInv, Accounted
<1>19. Admitted'
  BY <1>2, <1>16, <1>17 DEF PolicyInv, Admitted
<1>20. QED
  BY <1>11, <1>18, <1>19 DEF PolicyInv

-----------------------------------------------------------------------------
LEMMA UndoLastKeeps ==
  ASSUME PolicyInv, NEW p \in Worker, UndoLastAction(p)
  PROVE  PolicyInv'
<1>1. MemoryKept(mem) /\ MemoryKept(disk) /\ left \in [Cost -> Nat] /\ DOMAIN job = Worker
  BY DEF PolicyInv, PolicyType
<1>2. PICK i \in Asked : /\ Begin(p) /\ LastIn(i) # 0
               /\ To(p, [pc |-> "undo", entry |-> mem.log[LastIn(i)]])
               /\ past' = past \union If(\E q \in Client : Undoing(q), {"met"})
               /\ UNCHANGED <<mem, disk, recent, rules, strict>>
  BY DEF UndoLastAction, LastIn, SelectLastInSeq
<1>3. PICK n : n = LastIn(i)
  OBVIOUS
<1>4. n \in DOMAIN mem.log
  BY <1>1, <1>2, <1>3, LastOfScope DEF MemoryKept
<1>5. PICK e : e = mem.log[n]
  OBVIOUS
<1>6. e.rule.id[1] # "service" /\ HasEntry(e.rule.id)
  BY <1>1, <1>4, <1>5 DEF MemoryKept, HasEntry
<1>7. /\ DOMAIN job' = Worker /\ job'[p] = [pc |-> "undo", entry |-> e]
      /\ \A q \in Worker : q # p => job'[q] = job[q]
  BY <1>1, <1>2, <1>3, <1>5, Moved
<1>8. /\ p \in Client /\ job[p].pc = "idle" /\ left' \in [Cost -> Nat]
      /\ UNCHANGED <<mem, disk, rules>>
  BY <1>1, <1>2, Spent DEF Begin, Cost
<1>9. Doing(p)' /\ ~Bootstrapping(p)'
  BY <1>6, <1>7, <1>8 DEF Doing, Undoing, Bootstrapping
<1>10. PolicyType'
  BY <1>1, <1>7, <1>8, <1>9, TypedBy DEF PolicyInv
<1>11. \A k : /\ HasEntry(k) => HasEntry(k)'
              /\ HasTwo(k) => HasTwo(k)'
              /\ BeingLogged(k) => BeingLogged(k)'
  BY <1>7, <1>8 DEF HasEntry, HasTwo, BeingLogged
<1>12. past' = {} => past = {} /\ \A q \in Client : ~Undoing(q)
  BY <1>2 DEF If
<1>13. \A q \in Worker : Undoing(q) => q \in Client
  BY DEF PolicyInv, PolicyType, Doing
<1>14. \A q \in Worker : job'[q].pc \in {"unlog", "publish"} => job'[q] = job[q]
  BY <1>7
<1>15. \A q \in Worker : Bootstrapping(q)' => Bootstrapping(q)
  BY <1>7, <1>9 DEF Bootstrapping
<1>16. past' = {} => \A q \in Worker : Undoing(q)' => q = p
  BY <1>7, <1>12, <1>13 DEF Undoing
<1>17. Accounted'
  <2> SUFFICES ASSUME past' = {}
               PROVE  Accounted'
    BY DEF Accounted
  <2>1. HasEntry(job[p].entry.rule.id)'
    BY <1>6, <1>7, <1>8 DEF HasEntry
  <2>2. \A q \in Worker : job'[q].pc # "unlog"
    BY <1>7, <1>16 DEF Undoing
  <2>3. QED
    BY <1>8, <1>11, <1>12, <1>16, <2>1, <2>2 DEF PolicyInv, Accounted
<1>18. Admitted'
  BY <1>8, <1>12, <1>14, <1>15 DEF PolicyInv, Admitted
<1>19. QED
  BY <1>10, <1>17, <1>18 DEF PolicyInv

\* With the rule gone, no rule needs the entry that will be removed.
LEMMA UndoRuleKeeps ==
  ASSUME PolicyInv, NEW p \in Worker, UndoRule(p)
  PROVE  PolicyInv'
<1>1. MemoryKept(mem) /\ MemoryKept(disk) /\ left \in [Cost -> Nat] /\ DOMAIN job = Worker /\ Doing(p)
  BY DEF PolicyInv, PolicyType
<1>2. PICK k : k = job[p].entry.rule.id
  OBVIOUS
<1>3. /\ job[p].pc = "undo" /\ UNCHANGED <<mem, disk, past>>
      /\ \/ /\ rules' = {r \in rules : r.id # k} /\ UNCHANGED left
            /\ To(p, [job[p] EXCEPT !.pc = "unlog"])
         \/ UNCHANGED rules /\ Spend("faults") /\ To(p, Resting)
         \/ rules' = {r \in rules : r.id # k} /\ Spend("faults") /\ To(p, Resting)
  BY <1>2 DEF UndoRule
<1>4. Undoing(p) /\ k[1] # "service" /\ DOMAIN job[p] = {"pc", "entry"} /\ p \in Client
  BY <1>1, <1>2, <1>3 DEF Doing, Undoing
<1>5. CASE UNCHANGED rules /\ Spend("faults") /\ To(p, Resting)
  <2>1. left' \in [Cost -> Nat]
    BY <1>1, <1>5, Spent DEF Cost
  <2>2. QED
    BY <1>1, <1>3, <1>5, <2>1, Rested
<1>6. CASE rules' = {r \in rules : r.id # k} /\ Spend("faults") /\ To(p, Resting)
  <2>1. left' \in [Cost -> Nat]
    BY <1>1, <1>6, Spent DEF Cost
  <2>2. /\ DOMAIN job' = Worker /\ job'[p] = Resting
        /\ \A q \in Worker : q # p => job'[q] = job[q]
    BY <1>1, <1>6, Moved
  <2>3. Doing(p)' /\ job'[p].pc = "idle"
    BY <2>2, RestingDoes DEF Resting
  <2>4. PolicyType'
    BY <1>1, <1>3, <2>1, <2>2, <2>3, TypedBy DEF PolicyInv
  <2>5. \A i : /\ HasEntry(i) => HasEntry(i)'
               /\ HasTwo(i) => HasTwo(i)'
               /\ BeingLogged(i) => BeingLogged(i)'
    BY <1>3, <2>2 DEF HasEntry, HasTwo, BeingLogged
  <2>6. /\ \A q \in Worker : Undoing(q)' => Undoing(q) /\ job'[q] = job[q]
        /\ \A q \in Worker : Bootstrapping(q)' => Bootstrapping(q)
        /\ \A q \in Worker : job'[q].pc \in {"unlog", "publish"} => job'[q] = job[q]
    BY <2>2, <2>3 DEF Undoing, Bootstrapping
  <2>7. \A r \in rules' : r \in rules
    BY <1>6
  <2>8. Accounted'
    BY <1>3, <2>5, <2>6, <2>7 DEF PolicyInv, Accounted
  <2>9. Admitted'
    <3>1. \A i : \A b \in Baseline(i) : b.id[1] = "service"
      BY DEF Baseline
    <3>2. \A i : Baseline(i) \subseteq rules => Baseline(i) \subseteq rules'
      BY <1>4, <1>6, <3>1
    <3>3. QED
      BY <1>3, <2>6, <3>2 DEF PolicyInv, Admitted
  <2>10. QED
    BY <2>4, <2>8, <2>9 DEF PolicyInv
<1>7. CASE /\ rules' = {r \in rules : r.id # k} /\ UNCHANGED left
           /\ To(p, [job[p] EXCEPT !.pc = "unlog"])
  <2>1. PICK j : j = [job[p] EXCEPT !.pc = "unlog"]
    OBVIOUS
  <2>2. j.pc = "unlog" /\ j.entry = job[p].entry /\ DOMAIN j = {"pc", "entry"}
    BY <1>4, <2>1
  <2>3. /\ DOMAIN job' = Worker /\ job'[p] = j
        /\ \A q \in Worker : q # p => job'[q] = job[q]
    BY <1>1, <1>7, <2>1, Moved
  <2>4. Doing(p)' /\ ~Bootstrapping(p)'
    BY <1>2, <1>4, <2>2, <2>3 DEF Doing, Undoing, Bootstrapping
  <2>5. PolicyType'
    BY <1>1, <1>3, <1>7, <2>3, <2>4, TypedBy DEF PolicyInv
  <2>6. \A i : /\ HasEntry(i) => HasEntry(i)'
               /\ HasTwo(i) => HasTwo(i)'
               /\ BeingLogged(i) => BeingLogged(i)'
    BY <1>3, <2>3 DEF HasEntry, HasTwo, BeingLogged
  <2>7. \A q \in Worker : Undoing(q)' => Undoing(q) /\ job'[q].entry = job[q].entry
    BY <1>4, <2>2, <2>3 DEF Undoing
  <2>8. \A q \in Worker : q # p /\ job'[q].pc \in {"unlog", "publish"} => job'[q] = job[q]
    BY <2>3
  <2>9. \A q \in Worker : Bootstrapping(q)' => Bootstrapping(q)
    BY <2>3, <2>4 DEF Bootstrapping
  <2>10. Accounted'
    <3> SUFFICES ASSUME past = {}
                 PROVE  Accounted'
      BY <1>3 DEF Accounted
    <3>1. \A r \in rules' : r \in rules /\ r.id # job'[p].entry.rule.id
      BY <1>2, <1>7, <2>2, <2>3
    <3>2. \A r \in rules' : r.id[1] = "service" \/ HasEntry(r.id)' \/ BeingLogged(r.id)'
      BY <2>6, <3>1 DEF PolicyInv, Accounted
    <3>3. \A q \in Worker : job'[q].pc = "unlog" => q = p
      BY <1>4, <2>7 DEF PolicyInv, Accounted, Undoing
    <3>4. \A q \in Worker : Undoing(q)' => HasEntry(job[q].entry.rule.id)'
      BY <2>6, <2>7 DEF PolicyInv, Accounted
    <3>5. \A q, o \in Worker : Undoing(q)' /\ Undoing(o)' => q = o
      BY <2>7 DEF PolicyInv, Accounted
    <3>6. QED
      BY <3>1, <3>2, <3>3, <3>4, <3>5 DEF Accounted
  <2>11. Admitted'
    <3> SUFFICES ASSUME past = {}
                 PROVE  Admitted'
      BY <1>3 DEF Admitted
    <3>1. \A q \in Worker : job'[q].pc = "publish" => job'[q] = job[q]
      BY <2>2, <2>3
    <3>2. \A i : \A b \in Baseline(i) : b.id[1] = "service"
      BY DEF Baseline
    <3>3. \A i : Baseline(i) \subseteq rules => Baseline(i) \subseteq rules'
      BY <1>4, <1>7, <3>2
    <3>4. QED
      BY <2>9, <3>1, <3>3 DEF PolicyInv, Admitted
  <2>12. QED
    BY <2>5, <2>10, <2>11 DEF PolicyInv
<1>8. QED
  BY <1>3, <1>5, <1>6, <1>7

\* The last entry of the rule is removed; a rule that is left has another.
LEMMA UndoLogKeeps ==
  ASSUME PolicyInv, NEW p \in Worker, UndoLog(p)
  PROVE  PolicyInv'
<1>1. MemoryKept(mem) /\ MemoryKept(disk) /\ left \in [Cost -> Nat] /\ DOMAIN job = Worker /\ Doing(p)
  BY DEF PolicyInv, PolicyType
<1>2. PICK k : k = job[p].entry.rule.id
  OBVIOUS
<1>3. PICK n : n = LastLogged(k)
  OBVIOUS
<1>4. PICK l : l = IF n = 0 THEN mem.log ELSE RemoveAt(mem.log, n)
  OBVIOUS
<1>5. /\ job[p].pc = "unlog" /\ UNCHANGED <<rules, past>> /\ To(p, Resting)
      /\ mem' = [mem EXCEPT !.log = l] /\ (Written("log") \/ Unwritten)
  BY <1>2, <1>3, <1>4 DEF UndoLog, LastLogged, Persist
<1>6. left' \in [Cost -> Nat]
  BY <1>1, <1>5, Spent DEF Written, Unwritten, Cost
<1>7. 0 \notin DOMAIN mem.log /\ IsSequence(mem.log)
  BY <1>1, SequenceShape DEF MemoryKept
<1>8. n \in DOMAIN mem.log \/ n = 0
  <2>1. CASE HasEntry(k)
    BY <1>3, <1>7, <2>1, LastWithRule DEF HasEntry
  <2>2. CASE ~HasEntry(k)
    <3>1. {i \in 1..Len(mem.log) : mem.log[i].rule.id = k} = {}
      BY <1>7, <2>2, SequenceShape DEF HasEntry
    <3>2. QED
      BY <1>3, <3>1 DEF LastLogged, SelectLastInSeq
  <2>3. QED
    BY <2>1, <2>2
<1>9. /\ IsSequence(l)
      /\ \A i \in DOMAIN l : \E m \in DOMAIN mem.log : l[i] = mem.log[m]
      /\ \A m \in DOMAIN mem.log : m # n => \E i \in DOMAIN l : l[i] = mem.log[m]
  BY <1>4, <1>7, <1>8, RemovedFrom
<1>10. \A i \in DOMAIN l : l[i].rule.id[1] # "service"
  BY <1>1, <1>9 DEF MemoryKept
<1>11. MemoryKept(mem') /\ mem'.log = l /\ mem'.suggestions = mem.suggestions
  BY <1>1, <1>5, <1>9, <1>10, LogSet
<1>12. MemoryKept([disk EXCEPT !.log = l])
  BY <1>1, <1>9, <1>10, LogSet
<1>13. MemoryKept(disk')
  BY <1>1, <1>5, <1>11, <1>12 DEF Written, Unwritten
<1>14. /\ DOMAIN job' = Worker /\ job'[p] = Resting
       /\ \A q \in Worker : q # p => job'[q] = job[q]
  BY <1>1, <1>5, Moved
<1>15. Doing(p)' /\ ~Undoing(p)' /\ ~Bootstrapping(p)' /\ job'[p].pc = "idle"
  BY <1>14, RestingDoes DEF Undoing, Bootstrapping, Resting
<1>16. PolicyType'
  BY <1>6, <1>11, <1>13, <1>14, <1>15, TypedBy DEF PolicyInv
<1>17. \A i : BeingLogged(i) => BeingLogged(i)'
  BY <1>5, <1>14 DEF BeingLogged
<1>18. Accounted'
  <2> SUFFICES ASSUME past = {}
               PROVE  Accounted'
    BY <1>5 DEF Accounted
  <2>1. Undoing(p)
    BY <1>5 DEF Undoing
  <2>2. \A q \in Worker : ~Undoing(q)'
    BY <1>14, <1>15, <2>1 DEF PolicyInv, Accounted, Undoing
  <2>3. HasEntry(k)
    BY <1>2, <2>1 DEF PolicyInv, Accounted
  <2>4. mem.log[n].rule.id = k
    BY <1>3, <1>7, <2>3, LastWithRule DEF HasEntry
  <2>5. ASSUME NEW r \in rules, r.id[1] # "service", ~BeingLogged(r.id)
        PROVE  HasEntry(r.id)'
    <3>1. HasEntry(r.id) /\ (r.id = k => HasTwo(r.id))
      BY <1>2, <1>5, <2>5 DEF PolicyInv, Accounted
    <3>2. \E m \in DOMAIN mem.log : m # n /\ mem.log[m].rule.id = r.id
      BY <2>4, <3>1 DEF HasEntry, HasTwo
    <3>3. QED
      BY <1>9, <1>11, <3>2 DEF HasEntry
  <2>6. QED
    BY <1>5, <1>15, <1>17, <2>2, <2>5 DEF Accounted, Undoing
<1>19. Admitted'
  <2>1. \A q \in Worker : Bootstrapping(q)' => Bootstrapping(q) /\ job'[q] = job[q]
    BY <1>14, <1>15 DEF Bootstrapping
  <2>2. QED
    BY <1>5, <2>1 DEF PolicyInv, Admitted, Bootstrapping
<1>20. QED
  BY <1>16, <1>18, <1>19 DEF PolicyInv

-----------------------------------------------------------------------------
LEMMA BootstrapKeeps ==
  ASSUME PolicyInv, NEW p \in Worker, Bootstrap(p)
  PROVE  PolicyInv'
<1>1. MemoryKept(mem) /\ MemoryKept(disk) /\ left \in [Cost -> Nat] /\ DOMAIN job = Worker
  BY DEF PolicyInv, PolicyType
<1>2. PICK i \in Asked, b \in Bootstraps :
        LET begun == To(p, [pc |-> "harden", for |-> i, with |-> b.with])
        IN  \/ ~b.mode /\ UNCHANGED <<mem, disk>> /\ begun
            \/ /\ b.mode /\ mem' = [mem EXCEPT !.mode[i] = {"suggest"}]
               /\ \/ disk' = [disk EXCEPT !.mode = mem'.mode] /\ begun
                  \/ UNCHANGED <<disk, job>> /\ left.faults > 0
  BY DEF Bootstrap
<1>3. /\ Begin(p) /\ past' = past \union If(\E q \in Client : Bootstrapping(q), {"met"})
      /\ UNCHANGED rules
  BY DEF Bootstrap
<1>4. /\ p \in Client /\ job[p].pc = "idle" /\ left' \in [Cost -> Nat]
      /\ past' = {} => past = {} /\ \A q \in Client : ~Bootstrapping(q)
  BY <1>1, <1>3, Spent DEF Begin, Cost, If
<1>5. PICK v : v = [mem.mode EXCEPT ![i] = {"suggest"}]
  OBVIOUS
<1>6. mem' = mem \/ mem' = [mem EXCEPT !.mode = v]
  BY <1>2, <1>5
<1>7. MemoryKept(mem') /\ mem'.suggestions = mem.suggestions /\ mem'.log = mem.log
  <2> DEFINE m == [mem EXCEPT !.mode = v]
  <2>1. MemoryKept(m) /\ m.suggestions = mem.suggestions /\ m.log = mem.log
    BY <1>1, FieldSet DEF Fields
  <2> HIDE DEF m
  <2>2. mem' = mem \/ mem' = m
    BY <1>6 DEF m
  <2>3. QED
    BY <1>1, <2>1, <2>2
<1>8. MemoryKept(disk')
  BY <1>1, <1>2, FieldSet DEF Fields
<1>9. CASE UNCHANGED job
  BY <1>3, <1>4, <1>7, <1>8, <1>9, StoredOnly
<1>10. CASE To(p, [pc |-> "harden", for |-> i, with |-> b.with])
  <2>1. /\ DOMAIN job' = Worker /\ job'[p] = [pc |-> "harden", for |-> i, with |-> b.with]
        /\ \A q \in Worker : q # p => job'[q] = job[q]
    BY <1>1, <1>10, Moved
  <2>2. Doing(p)' /\ ~Undoing(p)'
    BY <1>4, <2>1 DEF Doing, Undoing, Bootstrapping
  <2>3. PolicyType'
    BY <1>4, <1>7, <1>8, <2>1, <2>2, TypedBy DEF PolicyInv
  <2>4. Accounted'
    BY <1>3, <1>4, <1>7, <2>1, <2>2, AccountedBy DEF PolicyInv
  <2>5. \A q \in Worker : Bootstrapping(q) => q \in Client
    BY DEF PolicyInv, PolicyType, Doing
  <2>6. past' = {} => \A q \in Worker : Bootstrapping(q)' => q = p
    BY <1>4, <2>1, <2>5 DEF Bootstrapping
  <2>7. \A q \in Worker : job'[q].pc = "publish" => job'[q] = job[q]
    BY <2>1
  <2>8. Admitted'
    BY <1>3, <1>4, <2>6, <2>7 DEF PolicyInv, Admitted
  <2>9. QED
    BY <2>3, <2>4, <2>8 DEF PolicyInv
<1>11. QED
  BY <1>2, <1>9, <1>10

LEMMA BootstrapLimitsKeeps ==
  ASSUME PolicyInv, NEW p \in Worker, BootstrapLimits(p)
  PROVE  PolicyInv'
<1>1. MemoryKept(mem) /\ MemoryKept(disk) /\ left \in [Cost -> Nat] /\ DOMAIN job = Worker /\ Doing(p)
  BY DEF PolicyInv, PolicyType
<1>2. PICK i, v : /\ v = [mem.settings EXCEPT ![i] = {Hardened(For(mem.settings, i))}]
                  /\ mem' = [mem EXCEPT !.settings = v]
  BY DEF BootstrapLimits
<1>3. /\ job[p].pc = "harden" /\ UNCHANGED <<rules, past>>
      /\ Written("settings") \/ Unwritten
      /\ To(p, Resting) \/ To(p, [job[p] EXCEPT !.pc = "load"])
  BY DEF BootstrapLimits
<1>4. /\ Bootstrapping(p) /\ p \in Client
      /\ DOMAIN job[p] = {"pc", "for", "with"}
  BY <1>1, <1>3 DEF Doing, Bootstrapping
<1>5. MemoryKept(mem') /\ mem'.suggestions = mem.suggestions /\ mem'.log = mem.log
  <2>1. /\ MemoryKept([mem EXCEPT !.settings = v])
        /\ [mem EXCEPT !.settings = v].suggestions = mem.suggestions
        /\ [mem EXCEPT !.settings = v].log = mem.log
    BY <1>1, FieldSet DEF Fields
  <2>2. QED
    BY <1>2, <2>1
<1>6. MemoryKept(disk')
  <2>1. \A w : MemoryKept([disk EXCEPT !.settings = w])
    BY <1>1, FieldSet DEF Fields
  <2>2. QED
    BY <1>1, <1>3, <2>1 DEF Written, Unwritten
<1>7. left' \in [Cost -> Nat]
  BY <1>1, <1>3, Spent DEF Written, Unwritten, Cost
<1>8. CASE To(p, Resting)
  BY <1>3, <1>5, <1>6, <1>7, <1>8, Rested
<1>9. CASE To(p, [job[p] EXCEPT !.pc = "load"])
  <2>1. PICK j : j = [job[p] EXCEPT !.pc = "load"]
    OBVIOUS
  <2>2. j.pc = "load" /\ DOMAIN j = {"pc", "for", "with"} /\ To(p, j)
    BY <1>4, <1>9, <2>1
  <2>3. job'[p] = j
    BY <1>1, <2>2, Moved
  <2>4. Doing(p)'
    BY <1>4, <2>2, <2>3 DEF Doing, Undoing, Bootstrapping
  <2>5. QED
    BY <1>3, <1>4, <1>5, <1>6, <1>7, <2>2, <2>4, Stepped
<1>10. QED
  BY <1>3, <1>8, <1>9

LEMMA BootstrapLoadKeeps ==
  ASSUME PolicyInv, NEW p \in Worker, BootstrapLoad(p)
  PROVE  PolicyInv'
<1>1. MemoryKept(mem) /\ MemoryKept(disk) /\ left \in [Cost -> Nat] /\ DOMAIN job = Worker /\ Doing(p)
  BY DEF PolicyInv, PolicyType
<1>2. PICK j : j = [pc |-> "save", for |-> job[p].for, with |-> job[p].with,
                    rules |-> rules, strict |-> strict, new |-> {}]
  OBVIOUS
<1>3. /\ job[p].pc = "load" /\ UNCHANGED <<left, mem, disk, rules, past>> /\ To(p, j)
  BY <1>2 DEF BootstrapLoad
<1>4. /\ j.pc = "save" /\ DOMAIN j = {"pc", "for", "with", "rules", "strict", "new"}
  BY <1>2
<1>5. Bootstrapping(p) /\ p \in Client
  BY <1>1, <1>3 DEF Doing, Bootstrapping
<1>6. job'[p] = j
  BY <1>1, <1>3, Moved
<1>7. Doing(p)'
  BY <1>4, <1>5, <1>6 DEF Doing, Undoing, Bootstrapping
<1>8. QED
  BY <1>1, <1>3, <1>4, <1>5, <1>7, Stepped

\* What is saved is what was loaded but for the rules of services: no other change of the
\* rules is lost unless there was one since.
LEMMA BootstrapSaveKeeps ==
  ASSUME PolicyInv, NEW p \in Worker, BootstrapSave(p)
  PROVE  PolicyInv'
<1>1. MemoryKept(mem) /\ MemoryKept(disk) /\ left \in [Cost -> Nat] /\ DOMAIN job = Worker /\ Doing(p)
  BY DEF PolicyInv, PolicyType
<1>2. PICK new : new = If("services" \in job[p].with, Baseline(job[p].for))
  OBVIOUS
<1>3. /\ job[p].pc = "save" /\ UNCHANGED <<mem, disk>>
      /\ \/ /\ rules' = {r \in job[p].rules : \A b \in new : b.id # r.id} \union new
            /\ To(p, [job[p] EXCEPT !.pc = "publish", !.new = rules'])
            /\ past' = past \union If(rules # job[p].rules, {"clobbered"})
            /\ UNCHANGED left
         \/ UNCHANGED <<rules, past>> /\ Spend("faults") /\ To(p, Resting)
  BY <1>2 DEF BootstrapSave
<1>4. CASE UNCHANGED <<rules, past>> /\ Spend("faults") /\ To(p, Resting)
  <2>1. left' \in [Cost -> Nat]
    BY <1>1, <1>4, Spent DEF Cost
  <2>2. QED
    BY <1>1, <1>3, <1>4, <2>1, Rested
<1>5. CASE /\ rules' = {r \in job[p].rules : \A b \in new : b.id # r.id} \union new
           /\ To(p, [job[p] EXCEPT !.pc = "publish", !.new = rules'])
           /\ past' = past \union If(rules # job[p].rules, {"clobbered"})
           /\ UNCHANGED left
  <2>1. PICK j : j = [job[p] EXCEPT !.pc = "publish", !.new = rules']
    OBVIOUS
  <2>2. DOMAIN job[p] = {"pc", "for", "with", "rules", "strict", "new"}
    BY <1>1, <1>3 DEF Doing
  <2>3. /\ j.pc = "publish" /\ j.new = rules' /\ j.rules = job[p].rules
        /\ j.with = job[p].with /\ j.for = job[p].for
    BY <2>1, <2>2
  <2>4. /\ DOMAIN job' = Worker /\ job'[p] = j
        /\ \A q \in Worker : q # p => job'[q] = job[q]
    BY <1>1, <1>5, <2>1, Moved
  <2>5. Bootstrapping(p) /\ p \in Client
    BY <1>1, <1>3 DEF Doing, Bootstrapping
  <2>6. Doing(p)' /\ ~Undoing(p)'
    BY <2>3, <2>4, <2>5 DEF Doing, Undoing, Bootstrapping
  <2>7. PolicyType'
    BY <1>1, <1>3, <1>5, <2>4, <2>6, TypedBy DEF PolicyInv
  <2>8. \A b \in new : b.id[1] = "service"
    BY <1>2 DEF If, Baseline
  <2>9. past' = {} => past = {} /\ rules = job[p].rules
    BY <1>5 DEF If
  <2>10. \A r \in rules' : r.id[1] # "service" => r \in job[p].rules
    BY <1>5, <2>8
  <2>11. \A r \in job[p].rules : r.id[1] = "service" \/ r \in rules'
    BY <1>5, <2>8
  <2>12. \A i : /\ HasEntry(i) => HasEntry(i)'
                /\ HasTwo(i) => HasTwo(i)'
                /\ BeingLogged(i) => BeingLogged(i)'
    BY <1>3, <2>4 DEF HasEntry, HasTwo, BeingLogged
  <2>13. \A q \in Worker : Undoing(q)' => Undoing(q) /\ job'[q] = job[q]
    BY <2>4, <2>6 DEF Undoing
  <2>14. \A q \in Worker : job'[q].pc = "unlog" => job'[q] = job[q]
    BY <2>3, <2>4
  <2>15. \A q \in Worker : Bootstrapping(q)' => Bootstrapping(q)
    BY <2>4, <2>5 DEF Bootstrapping
  <2>16. Accounted'
    <3> SUFFICES ASSUME past' = {}
                 PROVE  Accounted'
      BY DEF Accounted
    <3>1. \A r \in rules' : r.id[1] # "service" => r \in rules
      BY <2>9, <2>10
    <3>2. \A q \in Worker : job[q].pc = "unlog" => job[q].entry.rule.id[1] # "service"
      BY DEF PolicyInv, PolicyType, Doing, Undoing
    <3>3. QED
      BY <2>9, <2>12, <2>13, <2>14, <3>1, <3>2 DEF PolicyInv, Accounted
  <2>17. Admitted'
    <3> SUFFICES ASSUME past' = {}
                 PROVE  Admitted'
      BY DEF Admitted
    <3>1. \A q \in Worker : job'[q].pc = "publish" => q = p
      BY <2>4, <2>5, <2>9 DEF PolicyInv, Admitted, Bootstrapping
    <3>2. "services" \in job[p].with => Baseline(job[p].for) \subseteq rules'
      BY <1>2, <1>5 DEF If
    <3>3. \A q, o \in Worker : Bootstrapping(q)' /\ Bootstrapping(o)' => q = o
      BY <2>9, <2>15 DEF PolicyInv, Admitted
    <3>4. /\ \A r \in job'[p].rules : r.id[1] = "service" \/ r \in job'[p].new
          /\ "services" \in job'[p].with => Baseline(job'[p].for) \subseteq rules'
      BY <2>3, <2>4, <2>11, <3>2
    <3>5. \A i : Baseline(i)' = Baseline(i)
      BY DEF Baseline, Where, Lan, Families, If
    <3>6. QED
      BY <3>1, <3>3, <3>4, <3>5 DEF Admitted
  <2>18. QED
    BY <2>7, <2>16, <2>17 DEF PolicyInv
<1>6. QED
  BY <1>3, <1>4, <1>5

\* What is put back is what is in, but for rules of services.
LEMMA BootstrapPublishKeeps ==
  ASSUME PolicyInv, NEW p \in Worker, BootstrapPublish(p)
  PROVE  PolicyInv'
<1>1. MemoryKept(mem) /\ MemoryKept(disk) /\ left \in [Cost -> Nat] /\ DOMAIN job = Worker /\ Doing(p)
  BY DEF PolicyInv, PolicyType
<1>2. /\ job[p].pc = "publish" /\ UNCHANGED <<mem, disk>> /\ To(p, Resting)
      /\ \/ UNCHANGED <<rules, past>> /\ (UNCHANGED left \/ Spend("faults"))
         \/ /\ rules' = job[p].rules /\ Spend("faults")
            /\ past' = past \union If(rules # job[p].new, {"clobbered"})
  BY DEF BootstrapPublish
<1>3. CASE UNCHANGED <<rules, past>> /\ (UNCHANGED left \/ Spend("faults"))
  <2>1. left' \in [Cost -> Nat]
    BY <1>1, <1>3, Spent DEF Cost
  <2> QED BY <1>1, <1>2, <1>3, <2>1, Rested
<1>4. CASE /\ rules' = job[p].rules /\ Spend("faults")
           /\ past' = past \union If(rules # job[p].new, {"clobbered"})
  <2>1. /\ DOMAIN job' = Worker /\ job'[p] = Resting
        /\ \A q \in Worker : q # p => job'[q] = job[q]
    BY <1>1, <1>2, Moved
  <2>2. Doing(p)' /\ ~Undoing(p)' /\ ~Bootstrapping(p)' /\ job'[p].pc = "idle"
    BY <2>1, RestingDoes DEF Undoing, Bootstrapping, Resting
  <2>3. left' \in [Cost -> Nat]
    BY <1>1, <1>4, Spent DEF Cost
  <2>4. PolicyType'
    BY <1>1, <1>2, <2>1, <2>2, <2>3, TypedBy DEF PolicyInv
  <2>5. past' = {} => past = {} /\ rules = job[p].new
    BY <1>4 DEF If
  <2>6. \A i : /\ HasEntry(i) => HasEntry(i)'
               /\ HasTwo(i) => HasTwo(i)'
               /\ BeingLogged(i) => BeingLogged(i)'
    BY <1>2, <2>1 DEF HasEntry, HasTwo, BeingLogged
  <2>7. \A q \in Worker : Undoing(q)' => Undoing(q) /\ job'[q] = job[q]
    BY <2>1, <2>2 DEF Undoing
  <2>8. \A q \in Worker : job'[q].pc = "unlog" => job'[q] = job[q]
    BY <2>1, <2>2
  <2>9. Accounted'
    <3> SUFFICES ASSUME past' = {}
                 PROVE  Accounted'
      BY DEF Accounted
    <3>1. \A r \in rules' : r.id[1] # "service" => r \in rules
      BY <1>2, <1>4, <2>5 DEF PolicyInv, Admitted
    <3>2. \A q \in Worker : job[q].pc = "unlog" => job[q].entry.rule.id[1] # "service"
      BY DEF PolicyInv, PolicyType, Doing, Undoing
    <3>3. QED
      BY <2>5, <2>6, <2>7, <2>8, <3>1, <3>2 DEF PolicyInv, Accounted
  <2>10. Admitted'
    <3> SUFFICES ASSUME past' = {}
                 PROVE  Admitted'
      BY DEF Admitted
    <3>1. Bootstrapping(p)
      BY <1>2 DEF Bootstrapping
    <3>2. \A q \in Worker : ~Bootstrapping(q)'
      BY <2>1, <2>2, <2>5, <3>1 DEF PolicyInv, Admitted, Bootstrapping
    <3>3. QED
      BY <3>2 DEF Admitted, Bootstrapping
  <2>11. QED
    BY <2>4, <2>9, <2>10 DEF PolicyInv
<1>5. QED
  BY <1>2, <1>3, <1>4

LEMMA RestartKeeps ==
  ASSUME PolicyInv, PolicyRestart
  PROVE  PolicyInv'
<1>1. MemoryKept(mem) /\ MemoryKept(disk) /\ left \in [Cost -> Nat]
  BY DEF PolicyInv, PolicyType
<1>2. /\ mem' = disk /\ disk' = disk /\ job' = [p \in Worker |-> Resting] /\ UNCHANGED rules
      /\ Spend("restarts")
  BY DEF PolicyRestart
<1>3. past' = {} => /\ past = {} /\ \A p \in Worker : job[p].pc # "log"
                    /\ Range(mem.log) \subseteq Range(disk.log)
  BY DEF PolicyRestart, If
<1>4. \A p \in Worker : job'[p] = Resting
  BY <1>2
<1>5. \A p \in Worker : Doing(p)' /\ ~Undoing(p)' /\ ~Bootstrapping(p)'
  BY <1>4, RestingDoes DEF Undoing, Bootstrapping, Resting
<1>6. left' \in [Cost -> Nat]
  BY <1>1, <1>2, Spent DEF Cost
<1>7. PolicyType'
  BY <1>1, <1>2, <1>5, <1>6 DEF PolicyType
<1>8. Accounted'
  <2> SUFFICES ASSUME past' = {}
               PROVE  Accounted'
    BY DEF Accounted
  <2>1. \A k : HasEntry(k) => HasEntry(k)'
    BY <1>2, <1>3 DEF HasEntry, Range
  <2>2. \A k : ~BeingLogged(k)
    BY <1>3 DEF BeingLogged
  <2>3. \A r \in rules' : r.id[1] = "service" \/ HasEntry(r.id)'
    BY <1>2, <1>3, <2>1, <2>2 DEF PolicyInv, Accounted
  <2>4. QED
    BY <1>5, <2>3 DEF Accounted, Undoing
<1>9. Admitted'
  BY <1>5 DEF Admitted, Bootstrapping
<1>10. QED
  BY <1>7, <1>8, <1>9 DEF PolicyInv

LEMMA PolicyStarts == Init => PolicySound
<1> SUFFICES ASSUME Init PROVE PolicySound
  OBVIOUS
<1>1. PolicyInit /\ BaseInit
  BY DEF Init
<1>2. PICK f : mem = [suggestions |-> <<>>, log |-> <<>>, intents |-> f.intents,
                      mode |-> Alone(f.mode), settings |-> Alone(f.settings)]
  BY <1>1 DEF PolicyInit
<1>3. disk = mem /\ rules = {} /\ job = [p \in Worker |-> Resting] /\ past = {}
  BY <1>1 DEF PolicyInit, BaseInit
<1>4. left \in [Cost -> Nat]
  BY <1>1, BackgroundAssumption DEF BaseInit
<1>5. IsSequence(<<>>) /\ DOMAIN <<>> = {}
  <2>1. <<>> \in Seq({}) /\ Len(<<>>) = 0
    BY EmptySeq
  <2>2. DOMAIN <<>> = 1..0
    BY <2>1, LenProperties
  <2>3. QED
    BY <2>1, <2>2 DEF IsSequence
<1>6. MemoryKept(mem) /\ MemoryKept(disk)
  BY <1>2, <1>3, <1>5 DEF MemoryKept, Fields
<1>7. \A p \in Worker : job[p].pc = "idle"
  BY <1>3 DEF Resting
<1>8. PolicyType
  BY <1>3, <1>4, <1>6, <1>7 DEF PolicyType, Doing, Undoing, Bootstrapping
<1>9. Accounted /\ Admitted
  BY <1>3, <1>7 DEF Accounted, Admitted, Undoing, Bootstrapping
<1>10. QED
  BY <1>3, <1>8, <1>9 DEF PolicySound

LEMMA PolicyKept ==
  ASSUME PolicyInv, PolicyNext
  PROVE  PolicyInv'
<1>1. ASSUME NEW p \in Worker,
             \/ ApplySuggestion(p) \/ ApplyRule(p) \/ ApplyLog(p) \/ ApplyMark(p)
             \/ UndoLastAction(p) \/ UndoRule(p) \/ UndoLog(p)
             \/ Bootstrap(p) \/ BootstrapLimits(p) \/ BootstrapLoad(p) \/ BootstrapSave(p)
             \/ BootstrapPublish(p)
      PROVE  PolicyInv'
  BY <1>1, RequestStarts, ApplyRuleKeeps, ApplyLogKeeps, ApplyMarkKeeps, UndoLastKeeps,
     UndoRuleKeeps, UndoLogKeeps, BootstrapKeeps, BootstrapLimitsKeeps, BootstrapLoadKeeps,
     BootstrapSaveKeeps, BootstrapPublishKeeps
<1>2. QED
  BY <1>1, ObserveKeeps, RestartKeeps, RequestsKeep DEF PolicyNext

LEMMA PolicyAlways == Spec => []PolicySound
<1>1. PolicySound /\ [Next]_vars => PolicySound'
  <2> SUFFICES ASSUME PolicySound, [Next]_vars
               PROVE  PolicySound'
    OBVIOUS
  <2>1. CASE UNCHANGED vars
    <3>1. UNCHANGED <<part, left, past, mem, disk, recent, rules, strict, job>>
      BY <2>1 DEF vars, shared, policyVars
    <3>3. PolicyType => PolicyType'
      BY <3>1 DEF PolicyType, Doing, Undoing, Bootstrapping
    <3>4. Accounted => Accounted'
      BY <3>1, AccountedBy
    <3>5. Admitted => Admitted'
      BY <3>1 DEF Admitted, Bootstrapping
    <3>6. QED
      BY <3>1, <3>3, <3>4, <3>5 DEF PolicySound
  <2>2. CASE Next /\ part = "policy"
    <3>1. PolicyNext /\ UNCHANGED part
      BY <2>2, PolicySteps
    <3>2. QED
      BY <2>2, <3>1, PolicyKept DEF PolicySound, PolicyInv
  <2>3. CASE Next /\ part # "policy"
    <3>1. UNCHANGED <<part, policyVars>>
      BY <2>3, PolicySteps
    <3>2. QED
      BY <2>3, <3>1 DEF PolicySound, policyVars
  <2>4. QED
    BY <2>1, <2>2, <2>3
<1>2. QED
  BY <1>1, PolicyStarts, PTL DEF Spec

\* Whatever is suggested, applied, rejected and undone side by side: a rule that the engine added
\* has an entry in its log, or is about to get one, with the exceptions that Undoable names.
THEOREM RulesAlwaysUndoable == Spec => []Undoable
<1>1. PolicySound => Undoable
  BY DEF PolicySound, PolicyInv, Accounted, Undoable, HasEntry, BeingLogged
<1>2. QED
  BY <1>1, PolicyAlways, PTL

-----------------------------------------------------------------------------
\* Only its own last step ends a request that publishes, or a restart.
LEMMA Enders ==
  ASSUME PolicyNext
  PROVE  \/ UNCHANGED job \/ PolicyRestart
         \/ \E q \in Worker : \E k : To(q, k) /\ (job[q].pc # "publish" \/ BootstrapPublish(q))
<1>1. ASSUME NEW f, NEW v, Set(f, v)
      PROVE  UNCHANGED job
  BY <1>1 DEF Set
<1>2. CASE RejectSuggestion \/ RejectAudit \/ SetMode \/ SetAutomationSettings \/ SetIntents
  BY <1>1, <1>2 DEF RejectSuggestion, RejectAudit, SetMode, SetAutomationSettings, SetIntents
<1>3. CASE Observe
  <2>1. job[Reader].pc = "idle" /\ Reader \in Worker
    BY <1>3 DEF Observe, Worker
  <2>2. UNCHANGED job \/ \E k : To(Reader, k)
    BY <1>3 DEF Observe
  <2>3. QED
    BY <2>1, <2>2
<1>4. ASSUME NEW p \in Worker, ApplySuggestion(p) \/ UndoLastAction(p) \/ Bootstrap(p)
      PROVE  UNCHANGED job \/ (job[p].pc # "publish" /\ \E k : To(p, k))
  BY <1>4 DEF ApplySuggestion, UndoLastAction, Bootstrap, Begin
<1>5. ASSUME NEW p \in Worker, ApplyRule(p) \/ ApplyLog(p) \/ ApplyMark(p)
      PROVE  job[p].pc # "publish" /\ \E k : To(p, k)
  BY <1>5 DEF ApplyRule, ApplyLog, ApplyMark
<1>6. ASSUME NEW p \in Worker, UndoRule(p) \/ UndoLog(p)
      PROVE  job[p].pc # "publish" /\ \E k : To(p, k)
  BY <1>6 DEF UndoRule, UndoLog
<1>7. ASSUME NEW p \in Worker, BootstrapLimits(p) \/ BootstrapLoad(p) \/ BootstrapSave(p)
      PROVE  job[p].pc # "publish" /\ \E k : To(p, k)
  BY <1>7 DEF BootstrapLimits, BootstrapLoad, BootstrapSave
<1>8. ASSUME NEW p \in Worker, BootstrapPublish(p)
      PROVE  \E k : To(p, k)
  BY <1>8 DEF BootstrapPublish
<1>9. QED
  BY <1>2, <1>3, <1>4, <1>5, <1>6, <1>7, <1>8 DEF PolicyNext

\* The baseline of all interfaces lets every service in where it serves.
LEMMA BaselineServes ==
  ASSUME NEW s \in Appliance.services, NEW i \in Iface, i \in Serves(s),
         s.six => Appliance.six
  PROVE  \E r \in Baseline(All) :
           r.id[1] = "service" /\ r.id[2] = s.name /\ r.iface \in {i, All}
<1>1. \E x \in Where(s, All) : x \in {i, All}
  BY DEF Where, Serves, Lan
<1>2. \E v : v \in Families(s)
  BY DEF Families
<1>3. PICK x \in Where(s, All), v \in Families(s) : x \in {i, All}
  BY <1>1, <1>2
<1> DEFINE r == [id |-> <<"service", s.name, <<x, v>>>>, iface |-> x, action |-> "allow",
                 port |-> s.port, from |-> IF s.private THEN "lan" ELSE "any", six |-> v]
<1>4. r.id[1] = "service" /\ r.id[2] = s.name /\ r.iface = x
  OBVIOUS
<1>5. r \in Baseline(All)
  BY DEF Baseline
<1> HIDE DEF r
<1>6. QED
  BY <1>3, <1>4, <1>5

\* Whatever runs beside it: when a zero-trust bootstrap succeeds, its rules admit every service
\* of the appliance before anything is refused.
THEOREM ServicesAlwaysAdmitted == Spec => ServicesAdmitted
<1> DEFINE Admits ==
      past' = {} =>
        \A p \in Client :
          job[p].pc = "publish" /\ job[p].for = All /\ job'[p] = Resting /\ left' = left
          /\ "services" \in job[p].with =>
            \A s \in Appliance.services, i \in Iface :
              i \in Serves(s) /\ (s.six => Appliance.six) =>
                \E r \in rules' : r.id[1] = "service" /\ r.id[2] = s.name /\ r.iface \in {i, All}
<1>1. PolicySound /\ [Next]_vars => [Admits]_policyVars
  <2> SUFFICES ASSUME PolicySound, [Next]_vars, ~UNCHANGED policyVars, past' = {},
                      NEW p \in Client, job[p].pc = "publish", job[p].for = All,
                      job'[p] = Resting, left' = left, "services" \in job[p].with,
                      NEW s \in Appliance.services, NEW i \in Iface, i \in Serves(s),
                      s.six => Appliance.six
               PROVE  \E r \in rules' :
                        r.id[1] = "service" /\ r.id[2] = s.name /\ r.iface \in {i, All}
    BY DEF Admits
  <2>1. Next /\ part = "policy" /\ PolicyNext
    BY PolicySteps DEF vars
  <2>2. PolicyType /\ Admitted /\ p \in Worker
    BY <2>1 DEF PolicySound, Worker
  <2>3. \A k \in Cost : ~Spend(k)
    BY <2>2 DEF Spend, PolicyType
  <2>4. ~PolicyRestart /\ job' # job
    <3>1. Resting.pc = "idle"
      BY DEF Resting
    <3>2. job' # job
      BY <3>1
    <3>3. QED
      BY <2>3, <3>2 DEF PolicyRestart, Cost
  <2>5. PICK q, k : q \in Worker /\ To(q, k) /\ (job[q].pc # "publish" \/ BootstrapPublish(q))
    BY <2>1, <2>4, Enders
  <2>6. q = p
    BY <2>2, <2>5, Moved DEF PolicyType, Resting
  <2>7. UNCHANGED <<rules, past>>
    BY <2>3, <2>5, <2>6 DEF BootstrapPublish, Cost
  <2>8. Baseline(All) \subseteq rules
    BY <2>2, <2>7 DEF Admitted
  <2>9. QED
    BY <2>7, <2>8, BaselineServes
<1>2. QED
  BY <1>1, PolicyAlways, PTL DEF Spec, ServicesAdmitted
=============================================================================
