------------------------------- MODULE Accounts -------------------------------
(***************************************************************************)
(* Accounts (internal/auth/auth.go): the manager's two indexes over the    *)
(* same account objects, by name and by token, the accounts file they are  *)
(* saved to (internal/persist/file.go), and the start of the process,      *)
(* which reads them back (cmd/proxy-pool/main.go:122).                     *)
(*                                                                         *)
(* An operation changes memory and writes the file under one lock, so      *)
(* nobody sees it half done; but each file write may fail, and the process *)
(* may end between two of them.  A rename makes two.                       *)
(*                                                                         *)
(* Account.Groups is treated like Role and is left out.                    *)
(***************************************************************************)
EXTENDS Naturals, Sequences, FiniteSets, Functions

CONSTANTS
    Objects,     \* heap cells for Account values
    Names,       \* account names
    Tokens,      \* API tokens
    Passwords,   \* plaintext passwords
    Standings,   \* the [role, enabled] that requests ask for
    Configured,  \* the accounts of config.yaml by name, Nil if there is none
    Nil          \* nothing; the empty token

\* A stored password is hashed, or the plain text of an old config.yaml.
Stored  == [hashed : BOOLEAN, of : Passwords]
Account == [name : Names, password : Stored, token : Tokens \cup {Nil},
            role : {"admin", "user"}, enabled : BOOLEAN]

ASSUME AccountsAssumption ==
    /\ Standings \subseteq [role : {"admin", "user"}, enabled : BOOLEAN]
    /\ Nil \notin Objects \cup Account \cup Tokens \cup Names \cup Passwords
    /\ Configured \in [Names -> Account \cup {Nil}]
    /\ \E n \in Names : Configured[n] # Nil
    /\ \A n \in Names : Configured[n] # Nil => Configured[n].name = n

\* Each name can have a cell, and there is one to spare.
ASSUME CellsAssumption ==
    /\ \E f \in [Names -> Objects] : IsInjective(f)
    /\ IsFiniteSet(Objects) /\ IsFiniteSet(Names)
    /\ Cardinality(Objects) > Cardinality(Names)

VARIABLES
    obj,        \* the Account values; Nil: not allocated
    byName,     \* Manager.byName
    byToken,    \* Manager.byToken
    rows,       \* accounts.json, by name
    pending,    \* file writes the operation that holds the lock still has to make
    dirty,      \* history: names whose row a failure left behind memory
    contested   \* history: tokens that two accounts have had at the same time

memory == <<obj, byName, byToken>>
vars   == <<memory, rows, pending, dirty, contested>>

\* The accounts, as a caller sees them by name.
Seen(n) == IF byName[n] = Nil THEN Nil ELSE obj[byName[n]]

\* hashPassword.  A password with a "$" in it is taken for a hash and stored as
\* it is (auth.go:33); requests here bring none.
Hash(p) == [hashed |-> TRUE, of |-> p]

\* verifyPassword, isHashed.  Hash and plain text verify the same password.
Verify(stored, p) == stored.of = p

\* A cell that no index leads to any more is collected.
Swept(heap) ==
    [o \in Objects |-> IF o \in Range(byName') \cup Range(byToken') THEN heap[o] ELSE Nil]

NewCell == CHOOSE o \in Objects : obj[o] = Nil

\* Tokens that two accounts of the heap h have, by the index bn.
Shared(h, bn) ==
    {t \in Tokens : \E m, n \in Names :
        /\ m # n /\ bn[m] # Nil /\ bn[n] # Nil
        /\ h[bn[m]].token = t /\ h[bn[n]].token = t}
NowShared == Shared(obj', byName')

Idle == pending = << >>

\* A write of the file, in an operation that also concerns the name other.
Write(op, n, other) == [op |-> op, name |-> n, other |-> other]

-----------------------------------------------------------------------------
(* Operations *)

\* authorize for an administrator's route: no accounts at all, or a token of
\* an enabled administrator.
AdminMayCall ==
    \/ \A n \in Names : byName[n] = Nil
    \/ \E t \in Tokens : byToken[t] # Nil /\ obj[byToken[t]].enabled /\ obj[byToken[t]].role = "admin"

\* Mutant: the token of the account that is replaced stays in the index.
DropTokenOfKept(n) == byToken

\* delete(m.byToken, t), which is skipped for the empty token.
Without(t) == IF t = Nil THEN byToken ELSE [byToken EXCEPT ![t] = Nil]

\* "remove any previous token mapping for this account"
DropTokenOf(n) == IF byName[n] = Nil THEN byToken ELSE Without(obj[byName[n]].token)

\* AddAccount inserts or replaces; t is from the request or made by NewToken.
AddAccount(n, p, t, s) ==
    /\ Idle
    /\ byToken' = [DropTokenOf(n) EXCEPT ![t] = NewCell]
    /\ byName' = [byName EXCEPT ![n] = NewCell]
    /\ obj' = Swept([obj EXCEPT ![NewCell] = [name |-> n, password |-> Hash(p), token |-> t,
                                              role |-> s.role, enabled |-> s.enabled]])
    /\ pending' = <<Write("save", n, n)>>
    /\ contested' = contested \cup NowShared
    /\ UNCHANGED <<rows, dirty>>

\* handleAddAccount, and handleRegister, which needs no administrator and asks
\* for a new token; the Login that follows it there finds a hash.
HandleAddAccount(n, p, t, s) == AdminMayCall /\ AddAccount(n, p, t, s)
HandleRegister(n, p, t) ==
    /\ \E m \in Names : byName[m] # Nil
    /\ t \notin {Seen(m).token : m \in {k \in Names : byName[k] # Nil}}
    /\ byToken[t] = Nil
    /\ AddAccount(n, p, t, [role |-> "user", enabled |-> TRUE])

\* The fields UpdateAccount sets before it looks at the name; Nil: not in the
\* request.  Enabled is always set.
Updated(a, p, t, s) ==
    [a EXCEPT !.password = IF p = Nil THEN @ ELSE Hash(p),
              !.token = IF t = Nil THEN @ ELSE t,
              !.role = s.role, !.enabled = s.enabled]

\* Mutant: the account is entered under its new name but keeps the old one.
RenamedInIndex(a, m) == a

Renamed(a, m) == [a EXCEPT !.name = m]

\* Mutant: the row of the old name goes before that of the new one is written.
UpdateWritesDeleteFirst(n, m) ==
    IF m = n THEN <<Write("save", n, n)>> ELSE <<Write("delete", n, m), Write("save", m, n)>>

UpdateWrites(n, m) ==
    IF m = n THEN <<Write("save", n, n)>> ELSE <<Write("save", m, n), Write("delete", n, m)>>

\* Mutant: the new token is not entered in the index.
TokenMovedOnly(a, t) == IF t = Nil THEN byToken ELSE Without(a.token)

TokenMoved(a, t) ==
    IF t = Nil THEN byToken ELSE [Without(a.token) EXCEPT ![t] = byName[a.name]]

\* UpdateAccount of n, to be called m.  A name that is taken is an error, but
\* the other fields are changed by then and are not saved.
UpdateAccount(n, m, p, t, s) ==
    /\ Idle /\ byName[n] # Nil
    /\ LET o == byName[n]
           taken == m # n /\ byName[m] # Nil
       IN  /\ obj' = [obj EXCEPT ![o] = Renamed(Updated(@, p, t, s), IF taken THEN n ELSE m)]
           /\ byToken' = TokenMoved(obj[o], t)
           /\ IF taken
              THEN /\ dirty' = dirty \cup {n}
                   /\ UNCHANGED <<byName, pending>>
              ELSE /\ byName' = [byName EXCEPT ![n] = Nil, ![m] = o]
                   /\ pending' = UpdateWrites(n, m)
                   /\ UNCHANGED dirty
    /\ contested' = contested \cup NowShared
    /\ UNCHANGED rows

HandleUpdateAccount(n, m, p, t, s) == AdminMayCall /\ UpdateAccount(n, m, p, t, s)

HandleRemoveAccount(n) ==
    /\ AdminMayCall
    /\ Idle /\ byName[n] # Nil
    /\ byToken' = DropTokenOf(n)
    /\ byName' = [byName EXCEPT ![n] = Nil]
    /\ obj' = Swept(obj)
    /\ pending' = <<Write("delete", n, n)>>
    /\ UNCHANGED <<rows, dirty, contested>>

\* Mutant: the migrated password is not saved.
LoginUnsaved(n, p) ==
    /\ Idle /\ byName[n] # Nil
    /\ LET a == Seen(n)
       IN  /\ a.enabled /\ Verify(a.password, p) /\ ~a.password.hashed
           /\ obj' = [obj EXCEPT ![byName[n]].password = Hash(p)]
    /\ UNCHANGED <<byName, byToken, rows, pending, dirty, contested>>

\* Login changes something only when it meets a password in plain text.
Login(n, p) ==
    /\ Idle /\ byName[n] # Nil
    /\ LET a == Seen(n)
       IN  /\ a.enabled /\ Verify(a.password, p) /\ ~a.password.hashed
           /\ obj' = [obj EXCEPT ![byName[n]].password = Hash(p)]
    /\ pending' = <<Write("save", n, n)>>
    /\ UNCHANGED <<byName, byToken, rows, dirty, contested>>

-----------------------------------------------------------------------------
(* The file *)

\* SaveAccount, DeleteAccount: the whole file is replaced by a rename.
FileWrite ==
    /\ ~Idle
    /\ LET w == Head(pending)
       IN  /\ rows' = [rows EXCEPT ![w.name] = IF w.op = "save" THEN Seen(w.name) ELSE Nil]
           /\ dirty' = dirty \ {w.name}
    /\ pending' = Tail(pending)
    /\ UNCHANGED <<memory, contested>>

\* An error from the file ends the operation.
FileWriteFails ==
    /\ ~Idle
    /\ dirty' = dirty \cup {pending[k].name : k \in DOMAIN pending}
    /\ pending' = << >>
    /\ UNCHANGED <<memory, rows, contested>>

\* The accounts a new process starts with: the file's if there are any.
Loaded(readable) ==
    IF readable /\ (\E n \in Names : rows[n] # Nil) THEN rows ELSE Configured

\* New: when two rows have the same token, the later one gets it.  An empty one
\* is not entered.
Indexed(accts, cells) ==
    {f \in [Tokens -> Objects \cup {Nil}] : \A t \in Tokens :
        LET having == {n \in Names : accts[n] # Nil /\ accts[n].token = t}
        IN  IF having = {} THEN f[t] = Nil ELSE \E n \in having : f[t] = cells[n]}

\* The process ends, at any point, and starts again: New, AttachStore and
\* SyncAll, whose failure is only logged.
Restart(readable, saved) ==
    LET accts == Loaded(readable)
        cells == CHOOSE f \in [Names -> Objects] : IsInjective(f)
    IN  /\ byName' = [n \in Names |-> IF accts[n] = Nil THEN Nil ELSE cells[n]]
        /\ obj' = [o \in Objects |-> IF \E n \in Names : cells[n] = o /\ accts[n] # Nil
                                     THEN accts[CHOOSE n \in Names : cells[n] = o] ELSE Nil]
        /\ byToken' \in Indexed(accts, cells)
        /\ rows' = IF saved THEN accts ELSE rows
        /\ dirty' = {n \in Names : rows'[n] # accts[n]}
        /\ contested' = NowShared
        /\ pending' = << >>

Init ==
    /\ rows = Configured
    /\ pending = << >> /\ dirty = {}
    /\ LET cells == CHOOSE f \in [Names -> Objects] : IsInjective(f)
       IN  /\ byName = [n \in Names |-> IF Configured[n] = Nil THEN Nil ELSE cells[n]]
           /\ obj = [o \in Objects |-> IF \E n \in Names : cells[n] = o /\ Configured[n] # Nil
                                       THEN Configured[CHOOSE n \in Names : cells[n] = o]
                                       ELSE Nil]
           /\ byToken \in Indexed(Configured, cells)
    /\ contested = Shared(obj, byName)

Next ==
    \/ \E n \in Names, p \in Passwords, t \in Tokens, s \in Standings : HandleAddAccount(n, p, t, s)
    \/ \E n \in Names, p \in Passwords, t \in Tokens : HandleRegister(n, p, t)
    \/ \E n, m \in Names, p \in Passwords \cup {Nil}, t \in Tokens \cup {Nil}, s \in Standings :
          HandleUpdateAccount(n, m, p, t, s)
    \/ \E n \in Names : HandleRemoveAccount(n)
    \/ \E n \in Names, p \in Passwords : Login(n, p)
    \/ FileWrite \/ FileWriteFails
    \/ \E readable, saved \in BOOLEAN : Restart(readable, saved)

Spec == Init /\ [][Next]_vars

-----------------------------------------------------------------------------
(* Properties *)

\* Type correctness: every name leads to an account of that name.
TypeOK ==
    /\ obj \in [Objects -> Account \cup {Nil}]
    /\ byName \in [Names -> Objects \cup {Nil}]
    /\ byToken \in [Tokens -> Objects \cup {Nil}]
    /\ rows \in [Names -> Account \cup {Nil}]
    /\ pending \in Seq([op : {"save", "delete"}, name : Names, other : Names])
    /\ dirty \subseteq Names /\ contested \subseteq Tokens
    /\ \A n \in Names : byName[n] # Nil => obj[byName[n]] # Nil /\ obj[byName[n]].name = n
    /\ \A t \in Tokens : byToken[t] # Nil => obj[byToken[t]] # Nil

\* A token lets in the account it now belongs to, one that is still there
\* under its name: never an account that was removed or replaced, nor one
\* whose token was changed (auth.go:234, 279, 320).
TokenIndexSound ==
    \A t \in Tokens : byToken[t] # Nil =>
        /\ obj[byToken[t]].token = t
        /\ byName[obj[byToken[t]].name] = byToken[t]

\* The token that an account is shown to have is one that works, unless it
\* has been another account's at the same time.
TokensWork ==
    \A n \in Names : byName[n] # Nil /\ Seen(n).token \in Tokens \ contested =>
        byToken[Seen(n).token] = byName[n]

\* Between operations the file has what memory has, for every name that no
\* failure is on record for: a failed write, or an update that was refused
\* its new name after it had changed the rest (auth.go:289).
FileMatches ==
    Idle => \A n \in Names \ dirty : rows[n] = Seen(n)

\* The names the operation under way still has to write.
Touched == {pending[k].name : k \in DOMAIN pending}

\* A restart, wherever it falls, changes no account that was not being worked
\* on and has no failure on record; and an account that was being renamed is
\* there as the file had it, under its old name or the new one (file.go:70,
\* auth.go:296).  This is so for a file that can be read and is not empty:
\* otherwise the accounts of config.yaml come back.
RestartKeeps ==
    [][\A saved \in BOOLEAN : Restart(TRUE, saved) =>
          /\ (\E n \in Names : rows[n] # Nil) =>
                \A n \in Names \ (dirty \cup Touched) : Seen(n)' = Seen(n)
          /\ dirty = {} => \A k \in DOMAIN pending : pending[k].name # pending[k].other =>
                \E n \in {pending[k].name, pending[k].other} :
                    rows[n] # Nil /\ Seen(n)' = rows[n]]_vars

=============================================================================
