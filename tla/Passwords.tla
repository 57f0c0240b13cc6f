----------------------------- MODULE Passwords -----------------------------
(***************************************************************************)
(* auth.Passwords: concurrent calls of Set, Verify and Change for accounts *)
(* whose password data an application stores. Getting and setting the data *)
(* are calls into the application, each atomic; what happens between them  *)
(* is local to the call.                                                   *)
(***************************************************************************)
EXTENDS PasswordCodec

CONSTANTS
  Account, Password,
  Process,         \* goroutines that call
  Config,          \* Passwords.Config
  DefaultConfig,
  Salts(_),        \* the salts of a length
  Key(_, _, _)     \* scrypt.Key(c, password, salt), of c.HashLen bytes

ASSUME ConfigAssumption == Config \in Configs /\ DefaultConfig \in Configs

(* No two passwords have the same key. *)
ASSUME KeyAssumption ==
  \A c \in {Config, DefaultConfig} : \A salt \in Salts(Config.SaltLen) :
    /\ \A p, q \in Password : Key(c, p, salt) = Key(c, q, salt) => p = q
    /\ \A p \in Password : Key(c, p, salt) \in Seq(0 .. 255) /\ Len(Key(c, p, salt)) = c.HashLen

(* rand.Read fills as many bytes as a salt of that length has. *)
ASSUME SaltAssumption ==
  \A salt \in Salts(Config.SaltLen) : salt \in Seq(0 .. 255) /\ Len(salt) = Config.SaltLen

VARIABLES
  data,     \* data[a]: what the application has stored, <<>> for nothing
  op,       \* op[p]: the call process p is in
  result,   \* result[p]: what the last call of p returned
  current,  \* current[a]: the password data[a] was made from
  since     \* since[p]: the passwords its account has had during p's call

vars == <<data, op, result, current, since>>

Kinds   == {"set", "verify", "change"}
Results == {"none", "nil", "invalid password", "invalid account", "error", "panic"}
NoCall  == [at |-> "idle"]
Calls   == [at : {"get", "store"}, kind : Kinds, a : Account, old : Password, new : Password]

TypeOK ==
  /\ \A a \in Account : data[a] \in Seq(0 .. 63)
  /\ op \in [Process -> Calls \cup {NoCall}]
  /\ result \in [Process -> Results]
  /\ current \in [Account -> Password]
  /\ since \in [Process -> SUBSET Password]

Init ==
  /\ data = [a \in Account |-> <<>>]
  /\ op = [p \in Process |-> NoCall]
  /\ result = [p \in Process |-> "none"]
  /\ current \in [Account -> Password]
  /\ since = [p \in Process |-> {}]

-----------------------------------------------------------------------------
(* The mutant hashes with a salt of its own. *)
CheckFreshSalt(d, pw) ==
  IF Key(DefaultConfig, pw, CHOOSE salt \in Salts(DefaultConfig.SaltLen) : TRUE) = d.hash
  THEN "nil" ELSE "invalid password"

(* CheckPassword is a method of the decoded configuration but hashes with  *)
(* DefaultConfig.                                                          *)
CheckPassword(d, pw) ==
  IF Key(DefaultConfig, pw, d.salt) = d.hash THEN "nil" ELSE "invalid password"

(* What Verify answers when it gets text t. *)
VerifyData(t, pw) ==
  IF t = <<>> THEN "invalid account"
  ELSE LET d == Decode(t) IN
       IF d.err = "nil" THEN CheckPassword(d, pw)
       ELSE IF d.err = "panic" THEN "panic" ELSE "error"

Begin(p, at, kind, a, old, new) ==
  /\ op[p] = NoCall
  /\ op' = [op EXCEPT ![p] = [at |-> at, kind |-> kind, a |-> a, old |-> old, new |-> new]]
  /\ since' = [since EXCEPT ![p] = IF data[a] = <<>> THEN {} ELSE {current[a]}]
  /\ UNCHANGED <<data, result, current>>

Set(p, a, pw)          == Begin(p, "store", "set", a, pw, pw)
Verify(p, a, pw)       == Begin(p, "get", "verify", a, pw, pw)
Change(p, a, old, new) == Begin(p, "get", "change", a, old, new)

Return(p, r) ==
  /\ op' = [op EXCEPT ![p] = NoCall]
  /\ result' = [result EXCEPT ![p] = r]

(* The mutant stores the new password whatever Verify says. *)
GoesOnAnyway(p, r) == r # "none" /\ op[p].kind = "change"

GoesOn(p, r) == r = "nil" /\ op[p].kind = "change"

(* Verify, also within Change: only then, and if it succeeds, does the call go on. *)
Get(p) ==
  /\ op[p].at = "get"
  /\ \E r \in {VerifyData(data[op[p].a], op[p].old), "error"} :
       \/ GoesOn(p, r) /\ op' = [op EXCEPT ![p].at = "store"] /\ UNCHANGED <<result, since>>
       \/ ~GoesOn(p, r) /\ Return(p, r) /\ since' = [since EXCEPT ![p] = {}]
  /\ UNCHANGED <<data, current>>

Stored(p, a, pw) ==
  /\ \E salt \in Salts(Config.SaltLen) :
       data' = [data EXCEPT ![a] = Encode(Config, salt, Key(Config, pw, salt))]
  /\ current' = [current EXCEPT ![a] = pw]
  /\ since' = [q \in Process |->
                 IF q = p THEN {}
                 ELSE IF op[q] # NoCall /\ op[q].a = a THEN since[q] \cup {pw} ELSE since[q]]

(* Set, also within Change. The application may report an error after it   *)
(* has stored the data as well as before.                                  *)
Store(p) ==
  /\ op[p].at = "store"
  /\ \/ Stored(p, op[p].a, op[p].new) /\ \E r \in {"nil", "error"} : Return(p, r)
     \/ Return(p, "error") /\ since' = [since EXCEPT ![p] = {}] /\ UNCHANGED <<data, current>>

Next ==
  \E p \in Process :
    \/ \E a \in Account, old, new \in Password :
         Set(p, a, new) \/ Verify(p, a, old) \/ Change(p, a, old, new)
    \/ Get(p) \/ Store(p)

Spec == Init /\ [][Next]_vars

-----------------------------------------------------------------------------
(* What is stored decodes to the configuration it was made with, and to a   *)
(* salt and hash that belong to the password last set (EncodeRaw, DecodeRaw,*)
(* Encode, Decode): across every call, failed or not.                       *)
StoredDecodes ==
  \A a \in Account : data[a] # <<>> =>
    LET d == Decode(data[a]) IN
    d.err = "nil" /\ d.c = Config /\ d.hash = Key(Config, current[a], d.salt)

(* Data that was cut short, in the header, the salt or the hash, is never   *)
(* taken for a password: decoding reports an error, or panics.              *)
CutDataIsRefused ==
  \A a \in Account : \A n \in 1 .. Len(data[a]) - 1 :
    Decode(SubSeq(data[a], 1, n)).err # "nil"

(* Verify and Change accept a password exactly if it is the account's at    *)
(* the time they get its data, unless the application fails.                *)
AcceptsCurrentOnly ==
  [][\A p \in Process :
       op[p].at = "get" /\ op'[p].at # "get" =>
         LET right == data[op[p].a] # <<>> /\ op[p].old = current[op[p].a] IN
         /\ op'[p].at = "store" => right
         /\ op'[p].at = "idle" /\ result'[p] = "nil" => right
         /\ op'[p].at = "idle" /\ result'[p] = "invalid password" => ~right]_vars

(* Change "sets the password [...] only if the currentPassword passes       *)
(* Verify" (passwords.go:65): whoever changes a password gave one that the  *)
(* account had at some time during the call, though perhaps not at its end. *)
ChangeNeedsPassword ==
  [][\A p \in Process :
       op[p].at = "store" /\ op[p].kind = "change" /\ data'[op[p].a] # data[op[p].a]
         /\ op'[p].at = "idle"
       => op[p].old \in since[p]]_vars

(* "The hash returned can together with the input salt be used to verify a  *)
(* password using CheckPassword" (auth.go:38): what Set has stored verifies. *)
StoredVerifies ==
  \A a \in Account : data[a] # <<>> => VerifyData(data[a], current[a]) = "nil"
=============================================================================
