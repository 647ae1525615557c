---------------------------------- MODULE Keys ----------------------------------
(***************************************************************************)
(* The encryption key and what it seals: secret.key beside the database    *)
(* (core/crypto.ts), the connection row with the sealed token              *)
(* (db/connection.ts), and the processes that use both, the server and     *)
(* commands run beside it.  A process runs one operation at a time without *)
(* giving way, so what can come between its steps is another process, a    *)
(* failed write, or its own death.                                         *)
(***************************************************************************)
EXTENDS Integers, FiniteSets

CONSTANTS
  Processes, Server,
  Legacy,       \* whether the database holds a token from before there were keys
  MaxKeys,      \* bound: keys made
  MaxUpsets     \* bound: failed writes, deaths and changes of BUTLER_SECRET

ASSUME KeysAssumption ==
  /\ Server \in Processes /\ IsFiniteSet(Processes) /\ Legacy \in BOOLEAN
  /\ MaxKeys \in Nat /\ MaxUpsets \in Nat

Key == 1 .. MaxKeys
NoFile == 0
Empty == -1     \* opened for writing, nothing written yet
Given == -2     \* BUTLER_SECRET, as it was first
Changed == -3   \* BUTLER_SECRET, changed outside
NoKey == 0
Plain == -4     \* a token stored unsealed

Secrets == Key \cup {Given, Changed}
\* A connection row: the key its token is sealed under, Plain, or no row.
NoRow == 0

VARIABLES
  file,         \* secret.key
  row,          \* the connection row
  env,          \* BUTLER_SECRET: NoKey if it is not set
  cached,       \* the secret each process has in force
  at,           \* the step each process is at
  op,           \* the operation it is carrying out
  own,          \* the key it has generated, if any
  seen,         \* the row it read
  previous,     \* the key a rotation replaces
  made,         \* how many keys there have been (bounded)
  upsets,       \* how many faults there have been (bounded)
  loss,         \* history: what may have parted the row from its key
  filed         \* history: the keys secret.key has held

keyVars == <<file, row, env, cached, at, op, own, seen, previous, made, upsets, loss, filed>>

Steps == {"idle", "read", "create", "fill", "secret", "truncate", "install", "reseal",
          "untruncate", "restore"}
Ops == {"none", "save", "open", "upgrade", "rotate"}

KeyTypeOK ==
  /\ file \in Key \cup {NoFile, Empty} /\ row \in Secrets \cup {Plain, NoRow}
  /\ env \in {NoKey, Given, Changed}
  /\ cached \in [Processes -> Secrets \cup {NoKey}]
  /\ at \in [Processes -> Steps] /\ op \in [Processes -> Ops]
  /\ own \in [Processes -> Key \cup {NoKey}]
  /\ seen \in [Processes -> Secrets \cup {Plain, NoRow}]
  /\ previous \in [Processes -> Secrets \cup {NoKey}]
  /\ made \in 0 .. MaxKeys /\ upsets \in 0 .. MaxUpsets
  /\ loss \subseteq {"died", "failed", "crossed", "changed"} /\ filed \subseteq Key
  \* a rotation under way knows both keys, and no environment forbids it
  /\ \A p \in Processes :
       at[p] \in {"truncate", "install", "reseal", "untruncate", "restore"} =>
         env = NoKey /\ own[p] \in Key /\ previous[p] \in Key \ {own[p]}

--------------------------------------------------------------------------------
\* What a process that starts now would use, if anything: currentSecret.
InForce == IF env # NoKey THEN env ELSE IF file \in Key THEN file ELSE NoKey

\* Some process is between the halves of making or changing the key.
Between(p) == at[p] \in {"fill", "install", "reseal", "untruncate", "restore"}
AllSettled == \A p \in Processes : ~Between(p)

Upset == upsets < MaxUpsets /\ upsets' = upsets + 1

Go(p, step) == at' = [at EXCEPT ![p] = step]
Done(p) == Go(p, "idle") /\ op' = [op EXCEPT ![p] = "none"]

\* What an operation needs before it can use the secret: the rotation and the
\* reading of the connection read the row first.
Begin(p, o) ==
  /\ at[p] = "idle"
  /\ CASE o = "save" -> TRUE
       [] o = "open" -> row \in Secrets
       [] o = "upgrade" -> row = Plain
       [] o = "rotate" -> p = Server
  /\ op' = [op EXCEPT ![p] = o] /\ seen' = [seen EXCEPT ![p] = row]
  /\ IF cached[p] # NoKey THEN Go(p, "secret") /\ UNCHANGED cached
     ELSE IF env # NoKey THEN Go(p, "secret") /\ cached' = [cached EXCEPT ![p] = env]
     ELSE Go(p, "read") /\ UNCHANGED cached
  /\ UNCHANGED <<file, row, env, own, previous, made, upsets, loss, filed>>

\* readKeyFile: an empty file is no key; one is generated.
ReadKeyFile(p) ==
  /\ at[p] = "read"
  /\ IF file \in Key
     THEN /\ cached' = [cached EXCEPT ![p] = file] /\ Go(p, "secret")
          /\ UNCHANGED <<own, made>>
     ELSE /\ made < MaxKeys /\ made' = made + 1
          /\ own' = [own EXCEPT ![p] = made + 1] /\ Go(p, "create")
          /\ UNCHANGED cached
  /\ UNCHANGED <<file, row, env, op, seen, previous, upsets, loss, filed>>

\* A faulty variant for mutation: the file is opened without wx.
WinsAlways == TRUE

\* Whether opening with wx creates the file.
Wins == file = NoFile

\* writeKeyFile with wx: the loser adopts what it reads, or keeps its own key to
\* itself when it reads nothing.
CreateKeyFile(p) ==
  /\ at[p] = "create"
  /\ IF Wins
     THEN file' = Empty /\ Go(p, "fill") /\ UNCHANGED <<cached, loss>>
     ELSE /\ Go(p, "secret")
          /\ cached' = [cached EXCEPT ![p] = IF file \in Key THEN file ELSE own[p]]
          /\ loss' = IF file \in Key THEN loss ELSE loss \cup {"crossed"}
          /\ UNCHANGED file
  /\ UNCHANGED <<row, env, op, own, seen, previous, made, upsets, filed>>

FillKeyFile(p) ==
  /\ at[p] = "fill"
  /\ file' = own[p] /\ filed' = filed \cup {own[p]}
  /\ cached' = [cached EXCEPT ![p] = own[p]] /\ Go(p, "secret")
  /\ UNCHANGED <<row, env, op, own, seen, previous, made, upsets, loss>>

\* saveConnection, updateConnection, upgradeStoredKey: one statement.  A key read
\* before another process changed it is not read again.
Seal(p) ==
  /\ at[p] = "secret" /\ op[p] \in {"save", "upgrade"}
  /\ row' = IF op[p] = "upgrade" /\ row = NoRow THEN NoRow ELSE cached[p]
  /\ loss' = IF cached[p] # InForce \/ ~AllSettled THEN loss \cup {"crossed"}
             ELSE IF cached[Server] \in {NoKey, InForce} THEN {} ELSE loss
  /\ Done(p)
  /\ UNCHANGED <<file, env, cached, own, seen, previous, made, upsets, filed>>

\* getConnectionWithKey: the token, or an error that says the key does not fit.
Open(p) ==
  /\ at[p] = "secret" /\ op[p] = "open" /\ Done(p)
  /\ UNCHANGED <<file, row, env, cached, own, seen, previous, made, upsets, loss, filed>>

Disconnect(p) ==
  /\ at[p] = "idle" /\ row # NoRow
  /\ row' = NoRow
  /\ UNCHANGED <<file, env, cached, at, op, own, seen, previous, made, upsets, loss, filed>>

--------------------------------------------------------------------------------
(***************************************************************************)
(* rotateEncryptionKey.                                                    *)
(***************************************************************************)
MayRotate(p) == (seen[p] \in Secrets => seen[p] = cached[p]) /\ env = NoKey

\* A row that does not open ends it before anything is changed, and so does
\* BUTLER_SECRET.
BeginRotation(p) ==
  /\ at[p] = "secret" /\ op[p] = "rotate"
  /\ IF ~MayRotate(p)
     THEN Done(p) /\ UNCHANGED <<own, previous, made>>
     ELSE /\ made < MaxKeys /\ made' = made + 1
          /\ own' = [own EXCEPT ![p] = made + 1]
          /\ previous' = [previous EXCEPT ![p] = cached[p]]
          /\ Go(p, "truncate") /\ UNCHANGED op
  /\ UNCHANGED <<file, row, env, cached, seen, upsets, loss, filed>>

\* A faulty variant for mutation: the row is sealed under the new key before the
\* file is touched, the order the comment of beginRotation describes.
ResealFirst(p) ==
  /\ at[p] = "truncate"
  /\ file' = Empty /\ Go(p, "install")
  /\ row' = IF row = NoRow THEN NoRow ELSE own[p]
  /\ UNCHANGED <<env, cached, op, own, seen, previous, made, upsets, loss, filed>>

\* commitRotation overwrites the file: it is empty before it holds the new key.
Truncate(p) ==
  /\ at[p] = "truncate"
  /\ file' = Empty /\ Go(p, "install")
  /\ UNCHANGED <<row, env, cached, op, own, seen, previous, made, upsets, loss, filed>>

\* With no row there is nothing to re-encrypt.
Install(p) ==
  /\ at[p] = "install"
  /\ file' = own[p] /\ filed' = filed \cup {own[p]}
  /\ cached' = [cached EXCEPT ![p] = own[p]]
  /\ IF seen[p] = NoRow THEN Done(p) ELSE Go(p, "reseal") /\ UNCHANGED op
  \* a row saved meanwhile is sealed under the key that is gone
  /\ loss' = IF row # seen[p] /\ row # NoRow THEN loss \cup {"crossed"} ELSE loss
  /\ UNCHANGED <<row, env, own, seen, previous, made, upsets>>

\* The update changes the row there is.
Reseal(p) ==
  /\ at[p] = "reseal"
  /\ row' = IF row = NoRow THEN NoRow ELSE own[p]
  /\ Done(p)
  /\ UNCHANGED <<file, env, cached, own, seen, previous, made, upsets, loss, filed>>

ResealFails(p) ==
  /\ at[p] = "reseal" /\ Upset
  /\ Go(p, "untruncate")
  /\ UNCHANGED <<file, row, env, op, cached, own, seen, previous, made, loss, filed>>

Untruncate(p) ==
  /\ at[p] = "untruncate"
  /\ file' = Empty /\ Go(p, "restore")
  /\ UNCHANGED <<row, env, cached, op, own, seen, previous, made, upsets, loss, filed>>

Restore(p) ==
  /\ at[p] = "restore"
  /\ file' = previous[p] /\ filed' = filed \cup {previous[p]}
  /\ cached' = [cached EXCEPT ![p] = previous[p]] /\ Done(p)
  /\ loss' = IF row \in Secrets /\ row # previous[p] THEN loss \cup {"crossed"} ELSE loss
  /\ UNCHANGED <<row, env, own, seen, previous, made, upsets>>

--------------------------------------------------------------------------------
\* A write of the key file fails: the operation throws.  A file that was opened
\* stays as it is.
WriteFails(p) ==
  /\ at[p] \in {"create", "fill", "truncate", "install", "untruncate", "restore"} /\ Upset
  /\ Done(p)
  /\ loss' = IF at[p] \in {"install", "untruncate", "restore"} THEN loss \cup {"failed"} ELSE loss
  /\ UNCHANGED <<file, row, env, cached, own, seen, previous, made, filed>>

Die(p) ==
  /\ Upset /\ Done(p)
  /\ cached' = [cached EXCEPT ![p] = NoKey]
  /\ loss' = IF at[p] \in {"install", "reseal", "untruncate", "restore"} /\ row \in Secrets
             THEN loss \cup {"died"} ELSE loss
  /\ UNCHANGED <<file, row, env, own, seen, previous, made, filed>>

\* A process ends between operations and starts again.
RestartProcess(p) ==
  /\ at[p] = "idle" /\ cached[p] # NoKey
  /\ cached' = [cached EXCEPT ![p] = NoKey]
  /\ UNCHANGED <<file, row, env, at, op, own, seen, previous, made, upsets, loss, filed>>

\* BUTLER_SECRET is set, changed or removed while nothing runs.
ChangeSecret ==
  /\ \A p \in Processes : at[p] = "idle" /\ cached[p] = NoKey
  /\ Upset
  /\ env' \in {NoKey, Given, Changed} \ {env}
  /\ loss' = loss \cup {"changed"}
  /\ UNCHANGED <<file, row, cached, at, op, own, seen, previous, made, filed>>

KeyInit ==
  /\ file = NoFile /\ env \in {NoKey, Given}
  /\ row = IF Legacy THEN Plain ELSE NoRow
  /\ cached = [p \in Processes |-> NoKey]
  /\ at = [p \in Processes |-> "idle"] /\ op = [p \in Processes |-> "none"]
  /\ own = [p \in Processes |-> NoKey] /\ seen = [p \in Processes |-> NoRow]
  /\ previous = [p \in Processes |-> NoKey]
  /\ made = 0 /\ upsets = 0 /\ loss = {} /\ filed = {}

Step(p) ==
  \/ ReadKeyFile(p) \/ CreateKeyFile(p) \/ FillKeyFile(p)
  \/ Seal(p) \/ Open(p)
  \/ BeginRotation(p) \/ Truncate(p) \/ Install(p) \/ Reseal(p)
  \/ Untruncate(p) \/ Restore(p)

KeyNext ==
  \/ \E p \in Processes :
       \/ \E o \in Ops \ {"none"} : Begin(p, o)
       \/ Step(p) \/ Disconnect(p)
       \/ ResealFails(p) \/ WriteFails(p) \/ Die(p) \/ RestartProcess(p)
  \/ ChangeSecret

KeySpec == KeyInit /\ [][KeyNext]_keyVars

--------------------------------------------------------------------------------
(***************************************************************************)
(* Properties.                                                             *)
(***************************************************************************)
\* The token at rest opens for a process that starts now, through saves, first
\* starts, rotations and rotations taken back; what can part the two is a death in
\* the middle of a rotation that has a token to re-encrypt, a rotation whose
\* writing of the key file fails once it is empty or while the old key is put back,
\* two processes that cross, and a change of BUTLER_SECRET; entering the token again
\* under the key in force ends each of these.  And wherever a process dies and
\* whatever fails, the token is sealed under a key secret.key has held, so a backup
\* of that file opens it, as the error of decryptSecret promises (connection.ts
\* rotateEncryptionKey, crypto.ts).
RowOpens ==
  /\ AllSettled /\ row \in Secrets /\ loss = {} => row = InForce
  /\ row \in Key => row \in filed \/ "crossed" \in loss

\* What the comment of beginRotation says (crypto.ts:168-171): a rotation that ends
\* midway leaves the old key file and the token under it intact.  The code installs
\* the new key first (connection.ts:210) and writes the row after it (:212), so a
\* death between them, or while the file is empty, breaks this.
RotationIsSafe ==
  AllSettled /\ row \in Secrets /\ loss \subseteq {"died", "failed"} => row = InForce

\* The server never goes on sealing under a key that is not the one on disk
\* (crypto.ts "cached": it outlives every rotation).
ServerKnowsItsKey == AllSettled /\ loss = {} => cached[Server] \in {NoKey, InForce}
=================================================================================
