--------------------------- MODULE AccountsProofs ---------------------------
(***************************************************************************)
(* For any sets of names, tokens, passwords and cells: the two indexes of  *)
(* the account manager agree, a token works unless it was contested, the   *)
(* file has what memory has wherever no failure is on record, and a        *)
(* restart changes nothing else.                                           *)
(***************************************************************************)
EXTENDS Accounts, FiniteSetTheorems, TLAPS

-----------------------------------------------------------------------------
(* The inductive invariant *)

\* The states of memory are written with the heap h and the indexes bn and bt
\* as parameters, so that a fact about them can be used before and after a
\* step.

TypedMemory(h, bn, bt) ==
    /\ h \in [Objects -> Account \cup {Nil}]
    /\ bn \in [Names -> Objects \cup {Nil}]
    /\ bt \in [Tokens -> Objects \cup {Nil}]

\* A name leads to an account of that name, and every account is led to.
NamesLead(h, bn) ==
    /\ \A n \in Names : bn[n] # Nil => h[bn[n]] # Nil /\ h[bn[n]].name = n
    /\ \A o \in Objects : h[o] # Nil => bn[h[o].name] = o

\* A token leads to an account that has it.
TokensLead(h, bt) ==
    \A t \in Tokens : bt[t] # Nil => h[bt[t]] # Nil /\ h[bt[t]].token = t

MemoryOK == TypedMemory(obj, byName, byToken) /\ NamesLead(obj, byName) /\ TokensLead(obj, byToken)

\* An account whose token is not contested has it for itself, and the index
\* knows.
Uncontested ==
    \A o \in Objects : obj[o] # Nil /\ obj[o].token # Nil /\ obj[o].token \notin contested =>
        /\ byToken[obj[o].token] = o
        /\ \A p \in Objects : obj[p] # Nil /\ obj[p].token = obj[o].token => p = o

\* The file: rows have their names, and differ from memory only where a write
\* is pending or a failure is on record.
RowsOK ==
    /\ rows \in [Names -> Account \cup {Nil}]
    /\ \A n \in Names : rows[n] # Nil => rows[n].name = n
    /\ dirty \subseteq Names
    /\ contested \subseteq Tokens
    /\ \A n \in Names \ (dirty \cup Touched) : rows[n] = Seen(n)

\* What is pending: the one write of an operation, or the two of a rename, of
\* which the first keeps the account in the file while the second is made.
One(op, n) ==
    pending = <<Write(op, n, n)>> /\ (op = "save") = (byName[n] # Nil)
Two(m, n) ==
    /\ m # n /\ byName[m] # Nil /\ byName[n] = Nil
    /\ pending = <<Write("save", m, n), Write("delete", n, m)>>
    /\ n \notin dirty => rows[n] # Nil
Second(m, n) ==
    /\ m # n /\ byName[n] = Nil
    /\ pending = <<Write("delete", n, m)>>
    /\ rows[m] # Nil

PendingOK ==
    \/ pending = << >>
    \/ \E op \in {"save", "delete"}, n \in Names : One(op, n)
    \/ \E m, n \in Names : Two(m, n) \/ Second(m, n)

IInv == MemoryOK /\ Uncontested /\ RowsOK /\ PendingOK

-----------------------------------------------------------------------------
(* Heap cells *)

\* There is a cell for a new account (auth.go:228 allocates one).
LEMMA FreeCell ==
  ASSUME MemoryOK
  PROVE  NewCell \in Objects /\ obj[NewCell] = Nil
<1>1. SUFFICES ASSUME \A o \in Objects : obj[o] # Nil PROVE FALSE
  BY DEF NewCell
<1> DEFINE f == [o \in Objects |-> obj[o].name]
<1>2. \A o \in Objects : obj[o] \in Account
  BY <1>1 DEF MemoryOK, TypedMemory
<1>3. f \in [Objects -> Names]
  BY <1>2 DEF Account
<1>4. \E o, p \in Objects : o # p /\ f[o] = f[p]
  <2> HIDE DEF f
  <2> QED BY <1>3, CellsAssumption, FS_PigeonHole
<1>5. QED
  BY <1>1, <1>4 DEF MemoryOK, NamesLead

\* The cells of a start: one for each name.
Cells == CHOOSE f \in [Names -> Objects] : IsInjective(f)

\* They are cells, and no two names have the same.
LEMMA CellsFact ==
  Cells \in [Names -> Objects] /\ \A m, n \in Names : Cells[m] = Cells[n] => m = n
<1>1. Cells \in [Names -> Objects] /\ IsInjective(Cells)
  BY CellsAssumption DEF Cells
<1>2. QED
  BY <1>1 DEF IsInjective

\* What MemoryOK says of cells, names and tokens that are in use.
LEMMA MemoryFacts ==
  ASSUME MemoryOK
  PROVE  /\ \A o \in Objects : obj[o] # Nil =>
               obj[o] \in Account /\ obj[o].name \in Names /\ obj[o].token \in Tokens \cup {Nil}
                     /\ byName[obj[o].name] = o
         /\ \A k \in Names : byName[k] # Nil =>
               byName[k] \in Objects /\ obj[byName[k]] # Nil /\ obj[byName[k]].name = k
         /\ \A u \in Tokens : byToken[u] # Nil =>
               byToken[u] \in Objects /\ obj[byToken[u]] # Nil /\ obj[byToken[u]].token = u
BY DEF MemoryOK, TypedMemory, NamesLead, TokensLead, Account

\* A token that two accounts have is shared.
LEMMA SharedFact ==
  ASSUME NEW h, NEW bn, NEW bt, TypedMemory(h, bn, bt), NamesLead(h, bn),
         NEW o \in Objects, NEW p \in Objects, o # p,
         h[o] # Nil, h[p] # Nil, h[o].token = h[p].token, h[o].token # Nil
  PROVE  h[o].token \in Shared(h, bn)
<1>1. h[o] \in Account /\ h[p] \in Account
  BY DEF TypedMemory
<1>2. /\ h[o].token \in Tokens /\ h[o].name \in Names /\ h[p].name \in Names
  BY <1>1 DEF Account
<1>3. bn[h[o].name] = o /\ bn[h[p].name] = p
  BY DEF NamesLead
<1>4. o # Nil /\ p # Nil
  BY AccountsAssumption
<1>5. QED
  BY <1>2, <1>3, <1>4 DEF Shared

\* The same after a step.
LEMMA SharedNow ==
  ASSUME MemoryOK', NEW o \in Objects, NEW p \in Objects, o # p,
         obj'[o] # Nil, obj'[p] # Nil, obj'[o].token = obj'[p].token, obj'[o].token # Nil
  PROVE  obj'[o].token \in NowShared
<1>1. TypedMemory(obj', byName', byToken') /\ NamesLead(obj', byName')
  BY DEF MemoryOK
<1>2. QED
  BY <1>1, SharedFact DEF NowShared

\* delete(m.byToken, t) takes out that token and no other.
LEMMA WithoutFact ==
  ASSUME byToken \in [Tokens -> Objects \cup {Nil}], NEW t \in Tokens \cup {Nil}
  PROVE  /\ Without(t) \in [Tokens -> Objects \cup {Nil}]
         /\ \A u \in Tokens : Without(t)[u] = IF u = t THEN Nil ELSE byToken[u]
BY AccountsAssumption DEF Without

\* Nothing is contested that no two accounts have.
LEMMA SharedTokens == NowShared \subseteq Tokens /\ Shared(obj, byName) \subseteq Tokens
BY DEF NowShared, Shared

\* Uncontested, when every token that two accounts have is contested.
LEMMA UncontestedAfter ==
  ASSUME MemoryOK', NowShared \subseteq contested',
         \A o \in Objects :
            obj'[o] # Nil /\ obj'[o].token # Nil /\ obj'[o].token \notin contested' =>
            byToken'[obj'[o].token] = o
  PROVE  Uncontested'
BY SharedNow DEF Uncontested

-----------------------------------------------------------------------------
(* A start *)

\* What a start makes of the accounts it loads.
StartNames(accts) == [n \in Names |-> IF accts[n] = Nil THEN Nil ELSE Cells[n]]
StartHeap(accts) ==
    [o \in Objects |-> IF \E n \in Names : Cells[n] = o /\ accts[n] # Nil
                       THEN accts[CHOOSE n \in Names : Cells[n] = o] ELSE Nil]

\* Memory holds these accounts, and a token that one of them has for itself
\* leads to it.
Fits(accts, h, bn, bt) ==
    /\ TypedMemory(h, bn, bt) /\ NamesLead(h, bn) /\ TokensLead(h, bt)
    /\ \A n \in Names : accts[n] = IF bn[n] = Nil THEN Nil ELSE h[bn[n]]
    /\ \A o \in Objects :
         (h[o] # Nil /\ h[o].token # Nil /\ \A p \in Objects : h[p] # Nil /\ h[p].token = h[o].token => p = o)
           => bt[h[o].token] = o

\* main.go:122, New: the indexes of a start fit the accounts that were loaded.
LEMMA StartFits ==
  ASSUME NEW accts, accts \in [Names -> Account \cup {Nil}],
         \A n \in Names : accts[n] # Nil => accts[n].name = n,
         NEW h, NEW bn, NEW bt,
         bn = StartNames(accts), h = StartHeap(accts), bt \in Indexed(accts, Cells)
  PROVE  Fits(accts, h, bn, bt)
<1> USE DEF StartNames, StartHeap
<1>0. Nil \notin Objects /\ Nil \notin Account
  BY AccountsAssumption
<1>1. \A n \in Names : (CHOOSE k \in Names : Cells[k] = Cells[n]) = n
  BY CellsFact
<1>2. \A n \in Names : h[Cells[n]] = accts[n]
  BY <1>1, CellsFact
<1>3. \A o \in Objects : h[o] # Nil => \E n \in Names : Cells[n] = o /\ accts[n] # Nil
  OBVIOUS
<1>4. \A n \in Names : accts[n] # Nil =>
         /\ accts[n] \in Account /\ accts[n].token \in Tokens \cup {Nil}
         /\ bn[n] = Cells[n] /\ bn[n] \in Objects
  BY CellsFact DEF Account
<1>5. \A n \in Names : accts[n] = Nil => bn[n] = Nil
  OBVIOUS
<1>6. bt \in [Tokens -> Objects \cup {Nil}]
  BY DEF Indexed
<1>7. TypedMemory(h, bn, bt)
  <2>1. bn \in [Names -> Objects \cup {Nil}]
    BY CellsFact
  <2>2. \A o \in Objects : h[o] \in Account \cup {Nil}
    BY <1>2, <1>3
  <2>3. QED
    BY <1>6, <2>1, <2>2 DEF TypedMemory
<1>8. NamesLead(h, bn)
  BY <1>0, <1>2, <1>3, <1>4, <1>5 DEF NamesLead
<1>9. ASSUME NEW t \in Tokens
      PROVE  LET having == {n \in Names : accts[n] # Nil /\ accts[n].token = t}
             IN  IF having = {} THEN bt[t] = Nil ELSE \E n \in having : bt[t] = Cells[n]
  BY DEF Indexed
<1>10. TokensLead(h, bt)
  BY <1>2, <1>9 DEF TokensLead
<1>11. ASSUME NEW o \in Objects, h[o] # Nil, h[o].token # Nil,
              \A p \in Objects : h[p] # Nil /\ h[p].token = h[o].token => p = o
       PROVE  bt[h[o].token] = o
  <2>1. PICK n \in Names : Cells[n] = o /\ accts[n] # Nil
    BY <1>3, <1>11
  <2>2. h[o] = accts[n] /\ accts[n].token \in Tokens
    BY <1>2, <1>4, <1>11, <2>1
  <2>3. PICK m \in Names : accts[m] # Nil /\ accts[m].token = accts[n].token
                           /\ bt[accts[n].token] = Cells[m]
    BY <1>9, <2>1, <2>2
  <2>4. Cells[m] \in Objects /\ h[Cells[m]] = accts[m]
    BY <1>2, CellsFact
  <2>5. QED
    BY <1>11, <2>2, <2>3, <2>4
<1>12. \A n \in Names : accts[n] = IF bn[n] = Nil THEN Nil ELSE h[bn[n]]
  BY <1>0, <1>2, <1>4, <1>5
<1>13. \A o \in Objects :
          (h[o] # Nil /\ h[o].token # Nil /\ \A p \in Objects : h[p] # Nil /\ h[p].token = h[o].token => p = o)
            => bt[h[o].token] = o
  BY <1>11
<1>14. QED
  BY <1>7, <1>8, <1>10, <1>12, <1>13 DEF Fits

-----------------------------------------------------------------------------
(* The operations: memory *)

\* AddAccount (auth.go:212) puts a new account in the place of the old one.
LEMMA AddAccountMemory ==
  ASSUME IInv,
         NEW n \in Names, NEW p \in Passwords, NEW t \in Tokens,
         NEW s \in [role : {"admin", "user"}, enabled : BOOLEAN],
         AddAccount(n, p, t, s)
  PROVE  /\ MemoryOK' /\ Uncontested' /\ byName'[n] # Nil
         /\ \A m \in Names \ {n} : Seen(m)' = Seen(m)
<1> DEFINE a == [name |-> n, password |-> Hash(p), token |-> t,
                 role |-> s.role, enabled |-> s.enabled]
<1>0. Nil \notin Objects /\ Nil \notin Account /\ Nil \notin Tokens
  BY AccountsAssumption
<1>1. PICK c \in Objects : c = NewCell /\ obj[c] = Nil
  BY FreeCell DEF IInv
<1>2. a \in Account /\ a # Nil
  <2>1. Hash(p) \in Stored
    BY DEF Hash, Stored
  <2>2. s.role \in {"admin", "user"} /\ s.enabled \in BOOLEAN
    OBVIOUS
  <2>3. a \in Account
    BY ONLY <2>1, <2>2, n \in Names, t \in Tokens DEF Account
  <2>4. QED
    BY <1>0, <2>3
<1>3. /\ obj \in [Objects -> Account \cup {Nil}]
      /\ byName \in [Names -> Objects \cup {Nil}]
      /\ byToken \in [Tokens -> Objects \cup {Nil}]
  BY DEF IInv, MemoryOK, TypedMemory
<1>4. \A o \in Objects : obj[o] # Nil =>
         obj[o] \in Account /\ obj[o].name \in Names /\ obj[o].token \in Tokens \cup {Nil}
               /\ byName[obj[o].name] = o
  BY MemoryFacts DEF IInv
<1>5. \A k \in Names : byName[k] # Nil =>
         byName[k] \in Objects /\ obj[byName[k]] # Nil /\ obj[byName[k]].name = k
  BY MemoryFacts DEF IInv
<1>6. \A u \in Tokens : byToken[u] # Nil =>
         byToken[u] \in Objects /\ obj[byToken[u]] # Nil /\ obj[byToken[u]].token = u
  BY MemoryFacts DEF IInv
<1>7. \A k \in Names : byName'[k] = IF k = n THEN c ELSE byName[k]
  BY <1>1, <1>3 DEF AddAccount
<1>8. \A u \in Tokens : byToken'[u] =
         IF u = t THEN c
         ELSE IF byName[n] # Nil /\ u = obj[byName[n]].token THEN Nil ELSE byToken[u]
  <2>1. /\ DropTokenOf(n) \in [Tokens -> Objects \cup {Nil}]
        /\ \A u \in Tokens : DropTokenOf(n)[u] =
              IF byName[n] # Nil /\ u = obj[byName[n]].token THEN Nil ELSE byToken[u]
    <3>1. CASE byName[n] = Nil
      BY <1>3, <3>1 DEF DropTokenOf
    <3>2. CASE byName[n] # Nil
      <4>1. obj[byName[n]].token \in Tokens \cup {Nil}
        BY <1>4, <1>5, <3>2
      <4>2. QED
        BY <1>3, <3>2, <4>1, WithoutFact DEF DropTokenOf
    <3>3. QED
      BY <3>1, <3>2
  <2>2. byToken' = [DropTokenOf(n) EXCEPT ![t] = c]
    BY <1>1 DEF AddAccount
  <2>3. QED
    BY <2>1, <2>2
<1>9. /\ byName' \in [Names -> Objects \cup {Nil}]
      /\ byToken' \in [Tokens -> Objects \cup {Nil}]
  <2>1. byName' \in [Names -> Objects \cup {Nil}]
    BY <1>1, <1>3 DEF AddAccount
  <2>2. DropTokenOf(n) \in [Tokens -> Objects \cup {Nil}]
    BY <1>3, <1>4, <1>5, WithoutFact DEF DropTokenOf
  <2>3. QED
    BY <1>1, <2>1, <2>2 DEF AddAccount
<1>10. \A o \in Objects : obj'[o] =
         IF (\E k \in Names : byName'[k] = o) \/ (\E u \in Tokens : byToken'[u] = o)
         THEN (IF o = c THEN a ELSE obj[o]) ELSE Nil
  BY <1>1, <1>3, <1>9 DEF AddAccount, Swept, Range
<1>11. obj'[c] = a
  BY <1>7, <1>10
<1>12. ASSUME NEW o \in Objects, o # c, obj[o] # Nil, obj[o].name # n
       PROVE  obj'[o] = obj[o]
  BY <1>4, <1>7, <1>10, <1>12
<1>13. ASSUME NEW o \in Objects, o # c, obj[o] # Nil, obj[o].name = n
       PROVE  obj'[o] = Nil
  <2>1. byName[n] = o /\ o # Nil
    BY <1>0, <1>4, <1>13
  <2>2. \A k \in Names : byName'[k] # o
    BY <1>5, <1>7, <1>13, <2>1
  <2>3. \A u \in Tokens : byToken'[u] # o
    BY <1>6, <1>8, <1>13, <2>1
  <2>4. QED
    BY <1>10, <2>2, <2>3
<1>14. \A o \in Objects : o # c /\ obj[o] = Nil => obj'[o] = Nil
  BY <1>10
<1>15. \A o \in Objects : obj'[o] \in Account \cup {Nil}
  BY <1>2, <1>3, <1>11, <1>12, <1>13, <1>14
<1>16. TypedMemory(obj', byName', byToken')
  <2>1. obj' = [o \in Objects |-> obj'[o]]
    BY DEF AddAccount, Swept
  <2>2. QED
    BY <1>9, <1>15, <2>1 DEF TypedMemory
<1>17. NamesLead(obj', byName')
  <2>1. ASSUME NEW k \in Names, byName'[k] # Nil
        PROVE  obj'[byName'[k]] # Nil /\ obj'[byName'[k]].name = k
    <3>1. CASE k = n
      BY <1>2, <1>7, <1>11, <3>1
    <3>2. CASE k # n
      BY <1>1, <1>5, <1>7, <1>12, <2>1, <3>2
    <3>3. QED
      BY <3>1, <3>2
  <2>2. ASSUME NEW o \in Objects, obj'[o] # Nil
        PROVE  byName'[obj'[o].name] = o
    <3>1. CASE o = c
      BY <1>7, <1>11, <3>1
    <3>2. CASE o # c
      BY <1>4, <1>7, <1>12, <1>13, <1>14, <2>2, <3>2
    <3>3. QED
      BY <3>1, <3>2
  <2>3. QED
    BY <2>1, <2>2 DEF NamesLead
<1>18. ASSUME NEW u \in Tokens, byToken'[u] # Nil
       PROVE  obj'[byToken'[u]] # Nil /\ obj'[byToken'[u]].token = u
  <2>1. CASE u = t
    BY <1>2, <1>8, <1>11, <2>1
  <2>2. CASE u # t
    <3>1. byToken'[u] = byToken[u] /\ ~(byName[n] # Nil /\ u = obj[byName[n]].token)
      BY <1>8, <1>18, <2>2
    <3>2. obj[byToken[u]] # Nil /\ obj[byToken[u]].token = u /\ byToken[u] \in Objects
      BY <1>6, <1>18, <3>1
    <3>3. obj[byToken[u]].name # n
      BY <1>0, <1>4, <3>1, <3>2
    <3>4. QED
      BY <1>1, <1>12, <3>1, <3>2, <3>3
  <2>3. QED
    BY <2>1, <2>2
<1>19. MemoryOK'
  BY <1>16, <1>17, <1>18 DEF MemoryOK, TokensLead
<1>20. Uncontested'
  <2>1. contested' = contested \cup NowShared
    BY DEF AddAccount
  <2>2. ASSUME NEW o \in Objects, obj'[o] # Nil, obj'[o].token # Nil,
              obj'[o].token \notin contested'
        PROVE  byToken'[obj'[o].token] = o
    <3>1. CASE o = c
      BY <1>8, <1>11, <3>1
    <3>2. CASE o # c
      <4>1. obj'[o] = obj[o] /\ obj[o] # Nil /\ obj[o].name # n
        BY <1>12, <1>13, <1>14, <2>2, <3>2
      <4>2. obj[o].token # t
        BY <1>2, <1>11, <1>19, <2>1, <2>2, <3>2, <4>1, SharedNow
      <4>3. /\ byToken[obj[o].token] = o
            /\ \A q \in Objects : obj[q] # Nil /\ obj[q].token = obj[o].token => q = o
        BY <2>1, <2>2, <4>1 DEF IInv, Uncontested
      <4>4. ~(byName[n] # Nil /\ obj[o].token = obj[byName[n]].token)
        BY <1>5, <4>1, <4>3
      <4>5. QED
        BY <1>4, <1>8, <2>2, <4>1, <4>2, <4>3, <4>4
    <3>3. QED
      BY <3>1, <3>2
  <2>3. QED
    BY <1>19, <2>1, <2>2, UncontestedAfter
<1>21. \A m \in Names \ {n} : Seen(m)' = Seen(m)
  BY <1>1, <1>5, <1>7, <1>12 DEF Seen
<1>22. byName'[n] # Nil
  BY <1>0, <1>7
<1>23. QED
  BY <1>19, <1>20, <1>21, <1>22

\* UpdateAccount (auth.go:255) changes one account where it lies and may move
\* it to another token and another name, here k.
LEMMA UpdateAccountMemory ==
  ASSUME IInv,
         NEW n \in Names, NEW m \in Names, NEW p \in Passwords \cup {Nil},
         NEW t \in Tokens \cup {Nil},
         NEW s \in [role : {"admin", "user"}, enabled : BOOLEAN],
         UpdateAccount(n, m, p, t, s)
  PROVE  /\ MemoryOK' /\ Uncontested'
         /\ \A j \in Names \ {n, m} : Seen(j)' = Seen(j)
         /\ IF m # n /\ byName[m] # Nil THEN Seen(m)' = Seen(m)
            ELSE byName'[m] # Nil /\ (m # n => byName'[n] = Nil)
<1> DEFINE k == IF m # n /\ byName[m] # Nil THEN n ELSE m
           a == Renamed(Updated(obj[byName[n]], p, t, s), k)
<1>0. Nil \notin Objects /\ Nil \notin Account /\ Nil \notin Tokens
  BY AccountsAssumption
<1>1. PICK c \in Objects : c = byName[n] /\ obj[c] # Nil /\ obj[c].name = n /\ c # Nil
  BY <1>0, MemoryFacts DEF IInv, UpdateAccount
<1>2. /\ obj \in [Objects -> Account \cup {Nil}]
      /\ byName \in [Names -> Objects \cup {Nil}]
      /\ byToken \in [Tokens -> Objects \cup {Nil}]
  BY DEF IInv, MemoryOK, TypedMemory
<1>3. /\ \A o \in Objects : obj[o] # Nil =>
           obj[o] \in Account /\ obj[o].name \in Names /\ obj[o].token \in Tokens \cup {Nil}
                 /\ byName[obj[o].name] = o
      /\ \A j \in Names : byName[j] # Nil =>
           byName[j] \in Objects /\ obj[byName[j]] # Nil /\ obj[byName[j]].name = j
      /\ \A u \in Tokens : byToken[u] # Nil =>
           byToken[u] \in Objects /\ obj[byToken[u]] # Nil /\ obj[byToken[u]].token = u
  BY MemoryFacts DEF IInv
<1>4. a \in Account /\ a # Nil /\ a.name = k
      /\ a.token = IF t = Nil THEN obj[c].token ELSE t
  <2>1. obj[c] \in [name : Names, password : Stored, token : Tokens \cup {Nil},
                    role : {"admin", "user"}, enabled : BOOLEAN]
    BY <1>1, <1>3 DEF Account
  <2>2. p # Nil => Hash(p) \in Stored
    BY DEF Hash, Stored
  <2>3. k \in Names /\ s.role \in {"admin", "user"} /\ s.enabled \in BOOLEAN
    OBVIOUS
  <2>4. a \in Account /\ a.name = k /\ a.token = IF t = Nil THEN obj[c].token ELSE t
    BY <1>1, <2>1, <2>2, <2>3 DEF Renamed, Updated, Account
  <2>5. QED
    BY <1>0, <2>4
<1>5. obj' = [obj EXCEPT ![c] = a]
  BY <1>1 DEF UpdateAccount
<1> HIDE DEF a
<1>6. \A j \in Names : byName'[j] = IF j = k THEN c ELSE IF j = n THEN Nil ELSE byName[j]
  BY <1>1, <1>2 DEF UpdateAccount
<1>7. k = n \/ byName[k] = Nil
  OBVIOUS
<1>8. k \in Names /\ k \in {m, n}
  OBVIOUS
<1>9. byName' \in [Names -> Objects \cup {Nil}]
  BY <1>1, <1>2 DEF UpdateAccount
<1> HIDE DEF k
<1>9a. byToken' = IF t = Nil THEN byToken ELSE [Without(obj[c].token) EXCEPT ![t] = c]
  BY <1>1 DEF UpdateAccount, TokenMoved
<1>9b. /\ Without(obj[c].token) \in [Tokens -> Objects \cup {Nil}]
      /\ \A u \in Tokens : Without(obj[c].token)[u] = IF u = obj[c].token THEN Nil ELSE byToken[u]
  BY <1>1, <1>2, <1>3, WithoutFact
<1>10. \A u \in Tokens : byToken'[u] =
          IF t = Nil THEN byToken[u]
          ELSE IF u = t THEN c ELSE IF u = obj[c].token THEN Nil ELSE byToken[u]
  BY <1>9a, <1>9b
<1>11. byToken' \in [Tokens -> Objects \cup {Nil}]
  BY <1>1, <1>2, <1>9a, <1>9b
<1>12. obj'[c] = a /\ \A o \in Objects : o # c => obj'[o] = obj[o]
  BY <1>2, <1>5
<1>13. TypedMemory(obj', byName', byToken')
  BY <1>2, <1>4, <1>5, <1>9, <1>11 DEF TypedMemory
<1>14. NamesLead(obj', byName')
  <2>1. ASSUME NEW j \in Names, byName'[j] # Nil
        PROVE  obj'[byName'[j]] # Nil /\ obj'[byName'[j]].name = j
    <3>1. CASE j = k
      BY <1>4, <1>6, <1>12, <3>1
    <3>2. CASE j # k
      BY <1>1, <1>3, <1>6, <1>12, <2>1, <3>2
    <3>3. QED
      BY <3>1, <3>2
  <2>2. ASSUME NEW o \in Objects, obj'[o] # Nil
        PROVE  byName'[obj'[o].name] = o
    <3>1. CASE o = c
      BY <1>4, <1>6, <1>8, <1>12, <3>1
    <3>2. CASE o # c
      BY <1>0, <1>1, <1>3, <1>6, <1>7, <1>12, <2>2, <3>2
    <3>3. QED
      BY <3>1, <3>2
  <2>3. QED
    BY <2>1, <2>2 DEF NamesLead
<1>15. TokensLead(obj', byToken')
  <2>1. ASSUME NEW u \in Tokens, byToken'[u] # Nil
        PROVE  obj'[byToken'[u]] # Nil /\ obj'[byToken'[u]].token = u
    <3>1. CASE byToken'[u] = c
      BY <1>0, <1>3, <1>4, <1>10, <1>12, <2>1, <3>1
    <3>2. CASE byToken'[u] # c
      BY <1>3, <1>10, <1>12, <2>1, <3>2
    <3>3. QED
      BY <3>1, <3>2
  <2>2. QED
    BY <2>1 DEF TokensLead
<1>16. MemoryOK'
  BY <1>13, <1>14, <1>15 DEF MemoryOK
<1>17. Uncontested'
  <2>1. contested' = contested \cup NowShared
    BY DEF UpdateAccount
  <2>2. ASSUME NEW o \in Objects, obj'[o] # Nil, obj'[o].token # Nil,
              obj'[o].token \notin contested'
        PROVE  byToken'[obj'[o].token] = o
    <3>1. CASE o = c
      <4>1. t = Nil => byToken[obj[c].token] = c
        BY <1>1, <1>4, <1>12, <2>1, <2>2, <3>1 DEF IInv, Uncontested
      <4>2. QED
        BY <1>1, <1>3, <1>4, <1>10, <1>12, <2>2, <3>1, <4>1
    <3>2. CASE o # c
      <4>1. obj'[o] = obj[o] /\ obj[o] # Nil /\ obj[o].token \in Tokens \cup {Nil}
        BY <1>3, <1>12, <2>2, <3>2
      <4>2. obj[o].token # a.token
        BY <1>4, <1>12, <1>16, <2>1, <2>2, <3>2, <4>1, SharedNow
      <4>3. byToken[obj[o].token] = o /\ obj[c].token # obj[o].token
        BY <1>1, <2>1, <2>2, <3>2, <4>1 DEF IInv, Uncontested
      <4>4. QED
        BY <1>4, <1>10, <2>2, <4>1, <4>2, <4>3
    <3>3. QED
      BY <3>1, <3>2
  <2>3. QED
    BY <1>16, <2>1, <2>2, UncontestedAfter
<1>18. \A j \in Names \ {n, m} : Seen(j)' = Seen(j)
  BY <1>1, <1>3, <1>6, <1>8, <1>12 DEF Seen
<1>19. IF m # n /\ byName[m] # Nil THEN Seen(m)' = Seen(m)
       ELSE byName'[m] # Nil /\ (m # n => byName'[n] = Nil)
  BY <1>1, <1>3, <1>6, <1>12 DEF Seen, k
<1>20. QED
  BY <1>16, <1>17, <1>18, <1>19

\* RemoveAccount (auth.go:313) leaves no trace of the account in memory.
LEMMA RemoveAccountMemory ==
  ASSUME IInv, NEW n \in Names, HandleRemoveAccount(n)
  PROVE  /\ MemoryOK' /\ Uncontested' /\ byName'[n] = Nil
         /\ \A j \in Names \ {n} : Seen(j)' = Seen(j)
<1>0. Nil \notin Objects /\ Nil \notin Account
  BY AccountsAssumption
<1>1. PICK c \in Objects : c = byName[n] /\ obj[c] # Nil /\ obj[c].name = n /\ c # Nil
  BY <1>0, MemoryFacts DEF IInv, HandleRemoveAccount
<1>2. /\ obj \in [Objects -> Account \cup {Nil}]
      /\ byName \in [Names -> Objects \cup {Nil}]
      /\ byToken \in [Tokens -> Objects \cup {Nil}]
  BY DEF IInv, MemoryOK, TypedMemory
<1>3. /\ \A o \in Objects : obj[o] # Nil =>
           obj[o] \in Account /\ obj[o].name \in Names /\ obj[o].token \in Tokens \cup {Nil}
                 /\ byName[obj[o].name] = o
      /\ \A j \in Names : byName[j] # Nil =>
           byName[j] \in Objects /\ obj[byName[j]] # Nil /\ obj[byName[j]].name = j
      /\ \A u \in Tokens : byToken[u] # Nil =>
           byToken[u] \in Objects /\ obj[byToken[u]] # Nil /\ obj[byToken[u]].token = u
  BY MemoryFacts DEF IInv
<1>4. /\ \A j \in Names : byName'[j] = IF j = n THEN Nil ELSE byName[j]
      /\ byName' \in [Names -> Objects \cup {Nil}]
  BY <1>2 DEF HandleRemoveAccount
<1>5. /\ \A u \in Tokens : byToken'[u] = IF u = obj[c].token THEN Nil ELSE byToken[u]
      /\ byToken' \in [Tokens -> Objects \cup {Nil}]
  <2>1. byToken' = Without(obj[c].token)
    BY <1>1 DEF HandleRemoveAccount, DropTokenOf
  <2>2. QED
    BY <1>1, <1>2, <1>3, <2>1, WithoutFact
<1>6. \A o \in Objects : obj'[o] =
         IF (\E j \in Names : byName'[j] = o) \/ (\E u \in Tokens : byToken'[u] = o)
         THEN obj[o] ELSE Nil
  BY <1>4, <1>5 DEF HandleRemoveAccount, Swept, Range
<1>7. obj'[c] = Nil
  BY <1>1, <1>3, <1>4, <1>5, <1>6
<1>8. ASSUME NEW o \in Objects, o # c PROVE obj'[o] = obj[o]
  BY <1>1, <1>3, <1>4, <1>6, <1>8
<1>9. TypedMemory(obj', byName', byToken')
  <2>1. obj' = [o \in Objects |-> obj'[o]]
    BY DEF HandleRemoveAccount, Swept
  <2>2. \A o \in Objects : obj'[o] \in Account \cup {Nil}
    BY <1>2, <1>7, <1>8
  <2>3. QED
    BY <1>4, <1>5, <2>1, <2>2 DEF TypedMemory
<1>10. NamesLead(obj', byName')
  BY <1>0, <1>1, <1>3, <1>4, <1>7, <1>8 DEF NamesLead
<1>11. TokensLead(obj', byToken')
  BY <1>3, <1>5, <1>7, <1>8 DEF TokensLead
<1>12. Uncontested'
  <2>1. contested' = contested
    BY DEF HandleRemoveAccount
  <2>2. ASSUME NEW o \in Objects, obj'[o] # Nil, obj'[o].token # Nil,
              obj'[o].token \notin contested
        PROVE  /\ byToken'[obj'[o].token] = o
               /\ \A q \in Objects : obj'[q] # Nil /\ obj'[q].token = obj'[o].token => q = o
    <3>1. o # c /\ obj'[o] = obj[o] /\ obj[o].token \in Tokens \cup {Nil}
      BY <1>3, <1>7, <1>8, <2>2
    <3>2. /\ byToken[obj[o].token] = o
          /\ \A q \in Objects : obj[q] # Nil /\ obj[q].token = obj[o].token => q = o
      BY <2>2, <3>1 DEF IInv, Uncontested
    <3>3. QED
      BY <1>1, <1>5, <1>7, <1>8, <2>2, <3>1, <3>2
  <2>3. QED
    BY <2>1, <2>2 DEF Uncontested
<1>13. \A j \in Names \ {n} : Seen(j)' = Seen(j)
  BY <1>1, <1>3, <1>4, <1>8 DEF Seen
<1>14. QED
  BY <1>4, <1>9, <1>10, <1>11, <1>12, <1>13 DEF MemoryOK

\* Login (auth.go:161) changes a password only.
LEMMA LoginMemory ==
  ASSUME IInv, NEW n \in Names, NEW p \in Passwords, Login(n, p)
  PROVE  /\ MemoryOK' /\ Uncontested' /\ byName'[n] # Nil
         /\ \A j \in Names \ {n} : Seen(j)' = Seen(j)
<1>0. Nil \notin Objects /\ Nil \notin Account
  BY AccountsAssumption
<1>1. PICK c \in Objects : c = byName[n] /\ obj[c] # Nil /\ obj[c].name = n
  BY <1>0, MemoryFacts DEF IInv, Login
<1>2. /\ obj \in [Objects -> Account \cup {Nil}]
      /\ byName' = byName /\ byToken' = byToken /\ contested' = contested
  BY DEF IInv, MemoryOK, TypedMemory, Login
<1>3. /\ obj' \in [Objects -> Account \cup {Nil}]
      /\ \A o \in Objects : (obj'[o] = Nil) = (obj[o] = Nil)
      /\ \A o \in Objects : obj[o] # Nil =>
            obj'[o].name = obj[o].name /\ obj'[o].token = obj[o].token
      /\ \A o \in Objects : o # c => obj'[o] = obj[o]
  <2> DEFINE a == [obj[c] EXCEPT !.password = Hash(p)]
  <2>1. obj' = [obj EXCEPT ![c] = a]
    BY <1>1 DEF Login
  <2>2. a \in Account /\ a.name = obj[c].name /\ a.token = obj[c].token
    <3>1. obj[c] \in [name : Names, password : Stored, token : Tokens \cup {Nil},
                      role : {"admin", "user"}, enabled : BOOLEAN]
      BY <1>1, <1>2 DEF Account
    <3>2. Hash(p) \in Stored
      BY DEF Hash, Stored
    <3>3. QED
      BY <3>1, <3>2 DEF Account
  <2> HIDE DEF a
  <2>3. a # Nil
    BY <1>0, <2>2
  <2>4. QED
    BY <1>1, <1>2, <2>1, <2>2, <2>3
<1>4. MemoryOK'
  BY <1>2, <1>3 DEF IInv, MemoryOK, TypedMemory, NamesLead, TokensLead
<1>5. Uncontested'
  BY <1>2, <1>3 DEF IInv, Uncontested
<1>6. \A j \in Names \ {n} : Seen(j)' = Seen(j)
  BY <1>1, <1>2, <1>3, MemoryFacts DEF Seen, IInv
<1>7. byName'[n] # Nil
  BY <1>2 DEF Login
<1>8. QED
  BY <1>4, <1>5, <1>6, <1>7

-----------------------------------------------------------------------------
(* The operations: the file *)

NamesIn(writes) == {writes[k].name : k \in DOMAIN writes}

\* The names in at most two writes.
LEMMA NamesInFew ==
  ASSUME NEW v, NEW w
  PROVE  /\ NamesIn(<< >>) = {}
         /\ NamesIn(<<w>>) = {w.name}
         /\ NamesIn(<<v, w>>) = {v.name, w.name}
BY DEF NamesIn

\* The names still to be written are those in pending.
LEMMA TouchedNames == Touched = NamesIn(pending)
BY DEF Touched, NamesIn

\* An operation that has one write to make.
LEMMA OneWrite ==
  ASSUME IInv, NEW n \in Names, NEW op \in {"save", "delete"},
         Idle, pending' = <<Write(op, n, n)>>, (op = "save") = (byName'[n] # Nil),
         rows' = rows, dirty' = dirty, contested' \subseteq Tokens,
         \A m \in Names \ {n} : Seen(m)' = Seen(m)
  PROVE  RowsOK' /\ PendingOK'
<1>1. Touched = {}
  BY TouchedNames, NamesInFew DEF Idle
<1>2. Touched' = {n}
  BY NamesInFew DEF Touched, NamesIn, Write
<1>3. RowsOK'
  BY <1>1, <1>2 DEF IInv, RowsOK
<1>4. PendingOK'
  BY DEF PendingOK, One, Write
<1>5. QED
  BY <1>3, <1>4

\* UpdateAccount, with one write, two, or none when the name is taken.
LEMMA UpdateFile ==
  ASSUME IInv,
         NEW n \in Names, NEW m \in Names, NEW p \in Passwords \cup {Nil},
         NEW t \in Tokens \cup {Nil},
         NEW s \in [role : {"admin", "user"}, enabled : BOOLEAN],
         UpdateAccount(n, m, p, t, s)
  PROVE  RowsOK' /\ PendingOK'
<1>1. /\ \A j \in Names \ {n, m} : Seen(j)' = Seen(j)
      /\ IF m # n /\ byName[m] # Nil THEN Seen(m)' = Seen(m)
         ELSE byName'[m] # Nil /\ (m # n => byName'[n] = Nil)
  BY UpdateAccountMemory
<1>2. Touched = {} /\ rows' = rows /\ contested' \subseteq Tokens /\ byName[n] # Nil /\ Idle
  BY TouchedNames, NamesInFew, SharedTokens DEF UpdateAccount, Idle, IInv, RowsOK
<1>3. CASE m # n /\ byName[m] # Nil
  <2>1. dirty' = dirty \cup {n} /\ pending' = << >>
    BY <1>2, <1>3 DEF UpdateAccount, Idle
  <2>2. Touched' = {}
    BY <2>1, NamesInFew DEF Touched, NamesIn
  <2>3. RowsOK'
    BY <1>1, <1>2, <1>3, <2>1, <2>2 DEF IInv, RowsOK
  <2>4. QED
    BY <2>1, <2>3 DEF PendingOK
<1>4. CASE m = n
  <2>1. dirty' = dirty /\ pending' = <<Write("save", n, n)>>
    BY <1>4 DEF UpdateAccount, UpdateWrites
  <2>2. byName'[n] # Nil /\ \A j \in Names \ {n} : Seen(j)' = Seen(j)
    BY <1>1, <1>4
  <2>3. QED
    BY <1>2, <2>1, <2>2, OneWrite
<1>5. CASE m # n /\ byName[m] = Nil
  <2>1. dirty' = dirty /\ pending' = <<Write("save", m, n), Write("delete", n, m)>>
    BY <1>5 DEF UpdateAccount, UpdateWrites
  <2>2. Touched' = {m, n}
    <3> DEFINE v == Write("save", m, n)
               w == Write("delete", n, m)
    <3>1. Touched' = NamesIn(pending')
      BY DEF Touched, NamesIn
    <3>2. v.name = m /\ w.name = n
      BY DEF Write
    <3>3. pending' = <<v, w>>
      BY <2>1
    <3> HIDE DEF v, w
    <3>4. NamesIn(<<v, w>>) = {v.name, w.name}
      BY NamesInFew
    <3>5. QED
      BY <3>1, <3>2, <3>3, <3>4
  <2>3. RowsOK'
    BY <1>1, <1>2, <2>1, <2>2 DEF IInv, RowsOK
  <2>4. n \notin dirty => rows[n] # Nil
    <3>1. Seen(n) # Nil
      BY <1>2, MemoryFacts DEF Seen, IInv
    <3>2. QED
      BY <1>2, <3>1 DEF IInv, RowsOK
  <2>5. Two(m, n)'
    BY <1>1, <1>2, <1>5, <2>1, <2>4 DEF Two, Write
  <2>6. QED
    BY <2>3, <2>5 DEF PendingOK
<1>6. QED
  BY <1>3, <1>4, <1>5

\* SaveAccount and DeleteAccount (file.go:101, 126) bring a row up to date.
LEMMA FileWriteOK ==
  ASSUME IInv, FileWrite
  PROVE  RowsOK' /\ PendingOK'
<1>1. /\ obj' = obj /\ byName' = byName /\ contested' = contested
      /\ \A j \in Names : Seen(j)' = Seen(j)
  BY DEF FileWrite, memory, Seen
<1>2. ASSUME NEW w, NEW q, w.name \in Names, Head(pending) = w, Tail(pending) = q,
             Touched = {w.name} \cup NamesIn(q),
             (w.op = "save") = (byName[w.name] # Nil)
      PROVE  /\ RowsOK' /\ pending' = q /\ rows'[w.name] = Seen(w.name)
             /\ \A j \in Names \ {w.name} : rows'[j] = rows[j]
             /\ dirty' = dirty \ {w.name}
  <2>1. /\ rows' = [rows EXCEPT ![w.name] = IF w.op = "save" THEN Seen(w.name) ELSE Nil]
        /\ dirty' = dirty \ {w.name} /\ pending' = q
    BY <1>2 DEF FileWrite
  <2>2. Seen(w.name) \in Account \cup {Nil}
        /\ (Seen(w.name) # Nil => Seen(w.name).name = w.name)
        /\ (byName[w.name] = Nil => Seen(w.name) = Nil)
    BY <1>2, MemoryFacts DEF IInv, Seen
  <2>3. rows' = [rows EXCEPT ![w.name] = Seen(w.name)]
    BY <1>2, <2>1, <2>2
  <2>4. Touched' = NamesIn(q)
    BY <2>1 DEF Touched, NamesIn
  <2>5. rows \in [Names -> Account \cup {Nil}]
    BY DEF IInv, RowsOK
  <2>6. RowsOK'
    BY <1>1, <1>2, <2>1, <2>2, <2>3, <2>4, <2>5 DEF IInv, RowsOK
  <2>7. QED
    BY <1>2, <2>1, <2>3, <2>5, <2>6
<1>3. pending # << >>
  BY DEF FileWrite, Idle
<1>4. CASE \E op \in {"save", "delete"}, n \in Names : One(op, n)
  <2>1. PICK op \in {"save", "delete"}, n \in Names : One(op, n)
    BY <1>4
  <2> DEFINE w == Write(op, n, n)
  <2>2. pending = <<w>> /\ w.name = n /\ (w.op = "save") = (byName[n] # Nil)
    BY <2>1 DEF One, Write
  <2> HIDE DEF w
  <2>3. Head(pending) = w /\ Tail(pending) = << >>
    BY <2>2
  <2>4. Touched = {w.name} \cup NamesIn(<< >>)
    BY <2>2, TouchedNames, NamesInFew
  <2>5. RowsOK' /\ pending' = << >>
    BY <1>2, <2>2, <2>3, <2>4
  <2>6. QED
    BY <2>5 DEF PendingOK
<1>5. CASE \E m, n \in Names : Two(m, n)
  <2>1. PICK m \in Names, n \in Names : Two(m, n)
    BY <1>5
  <2> DEFINE v == Write("save", m, n)
             w == Write("delete", n, m)
  <2>2. pending = <<v, w>> /\ v.name = m /\ w.name = n /\ v.op = "save"
    BY <2>1 DEF Two, Write
  <2>3. byName[m] # Nil /\ m # n /\ byName[n] = Nil
    BY <2>1 DEF Two
  <2> HIDE DEF v, w
  <2>4. Head(pending) = v /\ Tail(pending) = <<w>>
    BY <2>2
  <2>5. Touched = {v.name} \cup NamesIn(<<w>>)
    BY <2>2, TouchedNames, NamesInFew
  <2>6. RowsOK' /\ pending' = <<w>> /\ rows'[m] = Seen(m)
    BY <1>2, <2>2, <2>3, <2>4, <2>5
  <2>7. Seen(m) # Nil
    BY <2>3, MemoryFacts DEF Seen, IInv
  <2>8. Second(m, n)'
    BY <1>1, <2>3, <2>6, <2>7 DEF Second, Write, w
  <2>9. QED
    BY <2>6, <2>8 DEF PendingOK
<1>6. CASE \E m, n \in Names : Second(m, n)
  <2>1. PICK m \in Names, n \in Names : Second(m, n)
    BY <1>6
  <2> DEFINE w == Write("delete", n, m)
  <2>2. pending = <<w>> /\ w.name = n /\ (w.op = "save") = (byName[n] # Nil)
    BY <2>1 DEF Second, Write
  <2> HIDE DEF w
  <2>3. Head(pending) = w /\ Tail(pending) = << >>
    BY <2>2
  <2>4. Touched = {w.name} \cup NamesIn(<< >>)
    BY <2>2, TouchedNames, NamesInFew
  <2>5. RowsOK' /\ pending' = << >>
    BY <1>2, <2>2, <2>3, <2>4
  <2>6. QED
    BY <2>5 DEF PendingOK
<1>7. QED
  BY <1>3, <1>4, <1>5, <1>6 DEF IInv, PendingOK

\* A failed write is put on record with the writes that are not made.
LEMMA FileWriteFailsOK ==
  ASSUME IInv, FileWriteFails
  PROVE  RowsOK' /\ PendingOK'
<1>1. /\ pending' = << >> /\ dirty' = dirty \cup Touched /\ rows' = rows
      /\ contested' = contested /\ \A j \in Names : Seen(j)' = Seen(j)
  BY DEF FileWriteFails, Touched, memory, Seen
<1>2. Touched \subseteq Names
  <2>1. CASE \E op \in {"save", "delete"}, n \in Names : One(op, n)
    BY <2>1, TouchedNames, NamesInFew DEF One, Write
  <2>2. CASE \E m, n \in Names : Two(m, n) \/ Second(m, n)
    <3>1. PICK m \in Names, n \in Names : Two(m, n) \/ Second(m, n)
      BY <2>2
    <3> DEFINE v == Write("save", m, n)
               w == Write("delete", n, m)
    <3>2. v.name = m /\ w.name = n
      BY DEF Write
    <3>3. pending = <<v, w>> \/ pending = <<w>>
      BY <3>1 DEF Two, Second
    <3> HIDE DEF v, w
    <3>4. NamesIn(<<v, w>>) = {v.name, w.name} /\ NamesIn(<<w>>) = {w.name}
      BY NamesInFew
    <3>5. QED
      BY <3>2, <3>3, <3>4, TouchedNames
  <2>3. CASE pending = << >>
    BY <2>3, TouchedNames, NamesInFew
  <2>4. QED
    BY <2>1, <2>2, <2>3 DEF IInv, PendingOK
<1>3. RowsOK'
  BY <1>1, <1>2 DEF IInv, RowsOK
<1>4. QED
  BY <1>1, <1>3 DEF PendingOK

-----------------------------------------------------------------------------
(* Starts and the whole *)

\* What a start does to memory, whatever it loaded.
LEMMA RestartOK ==
  ASSUME IInv, NEW readable \in BOOLEAN, NEW saved \in BOOLEAN, Restart(readable, saved)
  PROVE  /\ IInv' /\ \A n \in Names : Seen(n)' = Loaded(readable)[n]
<1> DEFINE accts == Loaded(readable)
<1>1. accts \in [Names -> Account \cup {Nil}] /\ \A n \in Names : accts[n] # Nil => accts[n].name = n
  BY AccountsAssumption DEF Loaded, IInv, RowsOK
<1>2. byName' = StartNames(accts) /\ obj' = StartHeap(accts) /\ byToken' \in Indexed(accts, Cells)
  BY DEF Restart, Cells, StartNames, StartHeap
<1>3. /\ rows' = IF saved THEN accts ELSE rows
      /\ dirty' = {n \in Names : rows'[n] # accts[n]}
      /\ contested' = NowShared /\ pending' = << >>
  BY DEF Restart
<1> HIDE DEF accts
<1>4. Fits(accts, obj', byName', byToken')
  BY <1>1, <1>2, StartFits
<1>5. MemoryOK'
  BY <1>4 DEF MemoryOK, Fits
<1>6. Uncontested'
  BY <1>3, <1>4, <1>5, SharedNow, UncontestedAfter DEF Fits
<1>7. \A n \in Names : Seen(n)' = accts[n]
  BY <1>4 DEF Seen, Fits
<1>8. Touched' = {}
  BY <1>3, NamesInFew DEF Touched, NamesIn
<1>9. RowsOK'
  BY <1>1, <1>3, <1>7, <1>8, SharedTokens DEF IInv, RowsOK
<1>10. QED
  BY <1>3, <1>5, <1>6, <1>7, <1>9 DEF IInv, PendingOK, accts

\* The first start loads what config.yaml has.
LEMMA InitOK == Init => IInv
<1> SUFFICES ASSUME Init PROVE IInv
  OBVIOUS
<1> DEFINE accts == Configured
<1>1. /\ accts \in [Names -> Account \cup {Nil}]
      /\ \A n \in Names : accts[n] # Nil => accts[n].name = n
  BY AccountsAssumption
<1>2. byName = StartNames(accts) /\ obj = StartHeap(accts) /\ byToken \in Indexed(accts, Cells)
  BY DEF Init, Cells, StartNames, StartHeap
<1>2a. rows = accts /\ pending = << >> /\ dirty = {} /\ contested = Shared(obj, byName)
  BY DEF Init
<1> HIDE DEF accts
<1>3. Fits(accts, obj, byName, byToken)
  BY <1>1, <1>2, StartFits
<1>4. MemoryOK
  BY <1>3 DEF MemoryOK, Fits
<1>5. ASSUME NEW o \in Objects, obj[o] # Nil, obj[o].token # Nil, obj[o].token \notin contested,
             NEW p \in Objects, obj[p] # Nil, obj[p].token = obj[o].token
      PROVE  p = o
  BY <1>2a, <1>4, <1>5, SharedFact DEF MemoryOK
<1>6. Uncontested
  BY <1>3, <1>5 DEF Uncontested, Fits
<1>7. Touched = {}
  BY <1>2a, TouchedNames, NamesInFew
<1>8. RowsOK
  BY <1>1, <1>2a, <1>3, <1>7, SharedTokens DEF RowsOK, Seen, Fits
<1>9. QED
  BY <1>2a, <1>4, <1>6, <1>8 DEF IInv, PendingOK

\* A step in which nothing changes.
LEMMA StutterOK ==
  ASSUME IInv, UNCHANGED vars
  PROVE  IInv'
<1>1. /\ obj' = obj /\ byName' = byName /\ byToken' = byToken /\ rows' = rows
      /\ pending' = pending /\ dirty' = dirty /\ contested' = contested
  BY DEF vars, memory
<1>2. MemoryOK' /\ Uncontested'
  BY <1>1 DEF IInv, MemoryOK, Uncontested
<1>3. Touched' = Touched /\ \A n \in Names : Seen(n)' = Seen(n)
  BY <1>1 DEF Touched, Seen
<1>4. RowsOK'
  BY <1>1, <1>3 DEF IInv, RowsOK
<1>5. PendingOK'
  BY <1>1 DEF IInv, PendingOK, One, Two, Second
<1>6. QED
  BY <1>2, <1>4, <1>5 DEF IInv

\* Every step keeps the invariant.
LEMMA NextOK == IInv /\ [Next]_vars => IInv'
<1> SUFFICES ASSUME IInv, [Next]_vars PROVE IInv'
  OBVIOUS
<1>0. Standings \subseteq [role : {"admin", "user"}, enabled : BOOLEAN]
  BY AccountsAssumption
<1>1. ASSUME NEW n \in Names, NEW p \in Passwords, NEW t \in Tokens,
             NEW s \in [role : {"admin", "user"}, enabled : BOOLEAN], AddAccount(n, p, t, s)
      PROVE  IInv'
  <2>1. MemoryOK' /\ Uncontested' /\ byName'[n] # Nil /\ \A m \in Names \ {n} : Seen(m)' = Seen(m)
    BY <1>1, AddAccountMemory
  <2>2. Idle /\ pending' = <<Write("save", n, n)>> /\ rows' = rows /\ dirty' = dirty
        /\ contested' \subseteq Tokens
    BY <1>1, SharedTokens DEF AddAccount, IInv, RowsOK
  <2>3. RowsOK' /\ PendingOK'
    BY <2>1, <2>2, OneWrite
  <2>4. QED
    BY <2>1, <2>3 DEF IInv
<1>2. ASSUME NEW n \in Names, NEW p \in Passwords, NEW t \in Tokens, NEW s \in Standings,
             HandleAddAccount(n, p, t, s)
      PROVE  IInv'
  BY <1>0, <1>1, <1>2 DEF HandleAddAccount
<1>3. ASSUME NEW n \in Names, NEW p \in Passwords, NEW t \in Tokens, HandleRegister(n, p, t)
      PROVE  IInv'
  <2>1. [role |-> "user", enabled |-> TRUE] \in [role : {"admin", "user"}, enabled : BOOLEAN]
    OBVIOUS
  <2>2. AddAccount(n, p, t, [role |-> "user", enabled |-> TRUE])
    BY <1>3 DEF HandleRegister
  <2>3. QED
    BY <1>1, <2>1, <2>2
<1>4. ASSUME NEW n \in Names, NEW m \in Names, NEW p \in Passwords \cup {Nil},
             NEW t \in Tokens \cup {Nil}, NEW s \in Standings,
             HandleUpdateAccount(n, m, p, t, s)
      PROVE  IInv'
  BY <1>0, <1>4, UpdateAccountMemory, UpdateFile DEF HandleUpdateAccount, IInv
<1>5. ASSUME NEW n \in Names, HandleRemoveAccount(n)
      PROVE  IInv'
  <2>1. MemoryOK' /\ Uncontested' /\ byName'[n] = Nil /\ \A m \in Names \ {n} : Seen(m)' = Seen(m)
    BY <1>5, RemoveAccountMemory
  <2>2. Idle /\ pending' = <<Write("delete", n, n)>> /\ rows' = rows /\ dirty' = dirty
        /\ contested' \subseteq Tokens
    BY <1>5 DEF HandleRemoveAccount, IInv, RowsOK
  <2>3. RowsOK' /\ PendingOK'
    BY <2>1, <2>2, OneWrite
  <2>4. QED
    BY <2>1, <2>3 DEF IInv
<1>6. ASSUME NEW n \in Names, NEW p \in Passwords, Login(n, p)
      PROVE  IInv'
  <2>1. MemoryOK' /\ Uncontested' /\ byName'[n] # Nil /\ \A m \in Names \ {n} : Seen(m)' = Seen(m)
    BY <1>6, LoginMemory
  <2>2. Idle /\ pending' = <<Write("save", n, n)>> /\ rows' = rows /\ dirty' = dirty
        /\ contested' \subseteq Tokens
    BY <1>6 DEF Login, IInv, RowsOK
  <2>3. RowsOK' /\ PendingOK'
    BY <2>1, <2>2, OneWrite
  <2>4. QED
    BY <2>1, <2>3 DEF IInv
<1>7. ASSUME FileWrite \/ FileWriteFails
      PROVE  IInv'
  <2>1. RowsOK' /\ PendingOK'
    BY <1>7, FileWriteOK, FileWriteFailsOK
  <2>2. MemoryOK' /\ Uncontested'
    BY <1>7 DEF FileWrite, FileWriteFails, memory, IInv, MemoryOK, Uncontested
  <2>3. QED
    BY <2>1, <2>2 DEF IInv
<1>8. ASSUME NEW readable \in BOOLEAN, NEW saved \in BOOLEAN, Restart(readable, saved)
      PROVE  IInv'
  BY <1>8, RestartOK
<1>9. CASE UNCHANGED vars
  BY <1>9, StutterOK
<1>10. QED
  BY <1>2, <1>3, <1>4, <1>5, <1>6, <1>7, <1>8, <1>9 DEF Next

\* Every reachable state has it.
LEMMA Inductive == Spec => []IInv
BY InitOK, NextOK, PTL DEF Spec

-----------------------------------------------------------------------------
(* The theorems *)

\* Type correctness: what auth.go keeps is of its type, and every name leads
\* to an account of that name.
THEOREM AccountsTypeCorrect == Spec => []TypeOK
<1>1. ASSUME IInv PROVE TypeOK
  <2>1. pending \in Seq([op : {"save", "delete"}, name : Names, other : Names])
    <3> DEFINE W == [op : {"save", "delete"}, name : Names, other : Names]
    <3>1. \A op \in {"save", "delete"}, m, n \in Names : Write(op, m, n) \in W
      BY DEF Write
    <3> HIDE DEF W
    <3>2. \A v, w \in W : << >> \in Seq(W) /\ <<v>> \in Seq(W) /\ <<v, w>> \in Seq(W)
      OBVIOUS
    <3>3. << >> \in Seq(W)
      OBVIOUS
    <3>4. CASE pending = << >>
      BY <3>3, <3>4 DEF W
    <3>5. CASE \E op \in {"save", "delete"}, n \in Names : One(op, n)
      BY <3>1, <3>2, <3>5 DEF One, W
    <3>6. ASSUME NEW m \in Names, NEW n \in Names, Two(m, n) \/ Second(m, n)
          PROVE  pending \in Seq(W)
      <4>1. Write("save", m, n) \in W /\ Write("delete", n, m) \in W
        BY <3>1
      <4>2. QED
        BY <3>2, <3>6, <4>1 DEF Two, Second
    <3>7. QED
      BY <1>1, <3>4, <3>5, <3>6 DEF IInv, PendingOK, W
  <2>2. QED
    BY <1>1, <2>1 DEF IInv, MemoryOK, TypedMemory, NamesLead, TokensLead, RowsOK, TypeOK
<1>2. QED
  BY <1>1, Inductive, PTL

\* A token lets in the account it now belongs to, which is still there under
\* its name: whatever was added, replaced, renamed or removed (auth.go:234,
\* 279, 320), and whatever a restart loaded.
THEOREM TokensAreSound == Spec => []TokenIndexSound
<1>1. IInv => TokenIndexSound
  BY MemoryFacts DEF IInv, TokenIndexSound
<1>2. QED
  BY <1>1, Inductive, PTL

\* The token an account is shown to have works, unless two accounts have had
\* it at the same time (auth.go:278 checks no other account's token).
THEOREM TokensDoWork == Spec => []TokensWork
<1>1. IInv => TokensWork
  BY MemoryFacts, AccountsAssumption DEF IInv, Uncontested, TokensWork, Seen
<1>2. QED
  BY <1>1, Inductive, PTL

\* Between operations the accounts file has what memory has, for every name
\* that no failure is on record for (auth.go:240, 299, 325).
THEOREM FileDoesMatch == Spec => []FileMatches
<1>1. ASSUME IInv PROVE FileMatches
  <2>1. Idle => Touched = {}
    BY DEF Idle, Touched
  <2>2. QED
    BY <1>1, <2>1 DEF IInv, RowsOK, FileMatches
<1>2. QED
  BY <1>1, Inductive, PTL

\* A restart that can read the file changes no account that was not being
\* worked on, and keeps one that was being renamed, under one of its names
\* (file.go:70, auth.go:296).
THEOREM RestartsKeep == Spec => RestartKeeps
<1> DEFINE Kept(saved) ==
             Restart(TRUE, saved) =>
               /\ (\E n \in Names : rows[n] # Nil) =>
                     \A n \in Names \ (dirty \cup Touched) : Seen(n)' = Seen(n)
               /\ dirty = {} => \A k \in DOMAIN pending : pending[k].name # pending[k].other =>
                     \E n \in {pending[k].name, pending[k].other} :
                         rows[n] # Nil /\ Seen(n)' = rows[n]
<1>1. ASSUME IInv, NEW saved \in BOOLEAN, Restart(TRUE, saved)
      PROVE  Kept(saved)
  <2>1. \A n \in Names : Seen(n)' = Loaded(TRUE)[n]
    BY <1>1, RestartOK
  <2>2. (\E n \in Names : rows[n] # Nil) => \A n \in Names : Seen(n)' = rows[n]
    BY <2>1 DEF Loaded
  <2>3. \A n \in Names \ (dirty \cup Touched) : rows[n] = Seen(n)
    BY <1>1 DEF IInv, RowsOK
  <2>4. ASSUME dirty = {}, NEW k \in DOMAIN pending, pending[k].name # pending[k].other
        PROVE  \E n \in Names : n \in {pending[k].name, pending[k].other} /\ rows[n] # Nil
    BY <1>1, <2>4 DEF IInv, PendingOK, One, Two, Second, Write
  <2>5. QED
    BY <2>2, <2>3, <2>4
<1>2. IInv /\ [Next]_vars => [\A saved \in BOOLEAN : Kept(saved)]_vars
  BY <1>1
<1>3. QED
  BY <1>2, Inductive, PTL DEF RestartKeeps, Spec

=============================================================================
