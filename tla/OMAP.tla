-------------------------------- MODULE OMAP --------------------------------
(***************************************************************************)
(* The oblivious map of the schemes: an AVL tree in a Path ORAM, of which  *)
(* the client keeps the root's key and position and the ORAM's cache.      *)
(* Every operation is a session of the ORAM that ends with finilize; the   *)
(* leaves that RandomPath draws in it are chosen nondeterministically.     *)
(*                                                                         *)
(* The repository has four copies of the classes OMAP, AVLTree and ORAM,   *)
(* which differ in their counters and in how blocks die or run out.  This  *)
(* module has the state, the steps and the properties they share;          *)
(* MitraOMAP, QOSOMAP, StaticOMAP and HorusOMAP are the copies, and        *)
(* OMAPCopies lets a behaviour be one of any of them.                      *)
(*                                                                         *)
(* The caller's protocol: setupInsert comes first, if at all.  Keys arrive *)
(* in the order Order, of which the setup phase takes a beginning.         *)
(*                                                                         *)
(* Bounds of the model, all by copy c: Order[c] names the keys, Values[c]  *)
(* the counters key b may have, Random[c] the leaves drawn for its block,  *)
(* Batches[c] the batches of look-ups, and MaxSetup[c] bounds the setup    *)
(* phase.                                                                  *)
(***************************************************************************)
EXTENDS AVLTree

CONSTANTS Copies,   \* the copies to check
          Order,    \* Order[c]: the keys, in the order in which they arrive
          Values,   \* Values[c][b]: the tuples of counters b may have
          Random,   \* Random[c][b]: the leaves RandomPath may draw for b
          MaxSetup, \* MaxSetup[c]: bound on the number of keys of the setup phase
          Batches,  \* Batches[c]: the sets of keys batchSearch is called with
          Absent    \* what find returns for a missing key

ASSUME OMAPAssumption ==
    /\ Copies \subseteq {"mitra", "qos", "static", "horus"}
    /\ \A c \in Copies :
          /\ Range(Order[c]) \subseteq Bid /\ IsInjective(Order[c])
          /\ \A b \in Range(Order[c]) :
                /\ Random[c][b] \subseteq Leaf /\ Random[c][b] # {}
                /\ Values[c][b] \subseteq Seq(Nat) \ {Absent}
          /\ MaxSetup[c] \in 0 .. Len(Order[c])
          /\ Batches[c] \subseteq SUBSET Range(Order[c])

VARIABLES copy,        \* the copy that runs
          tree,        \* tree[n]: the blocks of bucket n
          cache,       \* the client's cache, which keeps what found no room
          rootKey,     \* 0 while the tree is empty
          rootPos,
          dummyValue,  \* static: blocks with a Stamp up to this one are dead
          emptyNodes,  \* horus: the store's count of free blocks
          setup,       \* TRUE until the first operation
          ended,       \* how the program has ended, or "no"
          given,       \* key -> counters as written (the caller's view)
          answer       \* key -> counters the last operation returned

stored == <<tree, cache, rootKey, rootPos, emptyNodes>>

vars == <<copy, stored, dummyValue, setup, ended, given, answer>>

Put(m, k, v) == [j \in DOMAIN m \cup {k} |-> IF j = k THEN v ELSE m[j]]

\* A new map without blocks, with the given number of free ones.
New(free) ==
    /\ tree = [n \in Node |-> {}]
    /\ cache = {}
    /\ rootKey = 0 /\ rootPos = -1
    /\ emptyNodes = free
    /\ setup = TRUE /\ ended = "no"
    /\ given = [b \in {} |-> <<>>] /\ answer = [b \in {} |-> <<>>]

\* The leaves RandomPath may draw for the blocks of S.
Draws(S) == {f \in [S -> Leaf] : \A b \in S : f[b] \in Random[copy][b]}

\* Any operation but setDummy and setupInsert.
Operates ==
    /\ ended = "no"
    /\ setup' = FALSE
    /\ UNCHANGED <<copy, dummyValue>>

(***************************************************************************)
(* finilize for the session s and the root, with n fake reads: new leaves  *)
(* for what was touched, and the paths written back.  rootPos stays when   *)
(* the root is not in the cache, because there is none or it is dead.      *)
(***************************************************************************)
Finalized(s, root, n) ==
    /\ s.ended = "no"
    /\ \E fakes \in {F \in SUBSET Leaf : Cardinality(F) <= n /\ (F = {} <=> n = 0)} :
          LET p == Padded(s, fakes)
          IN  \E new \in Draws(Moving(p)) :
                  LET moved == Repositioned(p, new)
                      w     == Written(p, moved)
                  IN  /\ tree' = w.tree /\ cache' = w.cache
                      /\ rootKey' = root
                      /\ rootPos' = IF root \in Keys(moved) THEN BlockOf(moved, root).pos
                                                            ELSE rootPos
    /\ emptyNodes' = s.free
    /\ UNCHANGED ended

\* The null pointer or the exception that ends the program.
Fails(s) ==
    /\ s.ended # "no"
    /\ ended' = s.ended
    /\ UNCHANGED <<stored, given, answer>>

\* The leaf newNode draws at the end of the walk w; an old node has its own.
NewLeaf(w, key) == IF Found(w, key) THEN {0} ELSE Random[copy][key]

\* What the operation returns for the key and what the caller has written.
Answers(key, res) == answer' = [k \in {key} |-> res]

Writes(key, v) == given' = Put(given, key, v)

\* The text of the key, and the counters in it as the callers parse it.
TextOf(s, key) == BlockOf(s.cache, key).value

Result(w, key) == IF Found(w, key) THEN Counters(TextOf(w.s, key)) ELSE Absent

(***************************************************************************)
(* batchSearch and printTree with the session s that looked for the keys.  *)
(* The result has those that are there, in the order of the tree.          *)
(***************************************************************************)
Results(s, keys) ==
    answer' = [k \in keys |-> Result(Sought(Walk(s, rootKey, rootPos, k)), k)]

(***************************************************************************)
(* batchInsert on an empty tree, in the session s.  On another one it      *)
(* would overwrite buckets that it has not read.                           *)
(***************************************************************************)
InsertsAll(s, v) ==
    \E leaf \in Draws(DOMAIN v) :
        LET c == InsertedAll([s EXCEPT !.batchWrite = TRUE], [b \in DOMAIN v |-> Text(v[b])], leaf)
        IN  \/ Fails(c.s)
            \/ /\ Finalized(c.s, c.top, FakeReads(c.s, FALSE))
               /\ given' = v
               /\ UNCHANGED answer

\* The keys, and of those in S the ones that are there and the next one to come.
Key == Range(Order[copy])

Known(S) == {Order[copy][i] : i \in {i \in DOMAIN Order[copy] :
                /\ Order[copy][i] \in S
                /\ \A j \in 1 .. i - 1 : Order[copy][j] \in S => Order[copy][j] \in DOMAIN given}}

\* The caller's texts of a setup phase with the keys S.
Setups(S) ==
    {v \in [S -> UNION {Values[copy][b] : b \in S}] : \A b \in S : v[b] \in Values[copy][b]}

\* The first operation stores the given nodes, packed as p, and no other.
SetUp(t, p, v) ==
    /\ setup' = FALSE
    /\ tree' = p.tree /\ cache' = p.cache
    /\ rootKey' = t.root /\ rootPos' = t.at
    /\ given' = v
    /\ UNCHANGED <<copy, emptyNodes, dummyValue, ended, answer>>
-----------------------------------------------------------------------------
Blocks == UNION {tree[n] : n \in Node} \cup cache

(***************************************************************************)
(* A block, dead or alive, lies in one place, in the cache or in one       *)
(* bucket, and that one on the path to its leaf; no bucket holds more than *)
(* Z.  A path that is fetched and not written back leaves a second, ageing *)
(* copy behind.                                                            *)
(***************************************************************************)
OnePlace ==
    \A n \in Node :
        /\ Cardinality(tree[n]) <= Z
        /\ \A x \in tree[n] :
              /\ n \in Path[x.pos]
              /\ x.key \notin Keys(cache)
              /\ \A m \in Node, y \in Blocks :
                    y.key = x.key => y = x /\ (x \in tree[m] => m = n)

\* The blocks that count: setDummy kills those of finished merges.
Live == {x \in Blocks : Stamp[x.key] > dummyValue}

(***************************************************************************)
(* Every recorded position is the child's position, and rootPos the        *)
(* root's: finilize moves the blocks of a session to new leaves, and the   *)
(* only record of a leaf is in the parent, which must be updated after the *)
(* child and in the same session.  A counter that gains a digit overwrites *)
(* the position of its own node before finilize draws another.             *)
(***************************************************************************)
PositionsAgree ==
    /\ ended # "lost"
    /\ \A x \in Live : x.key = rootKey => x.pos = rootPos
    /\ \A x, y \in Live : \A d \in Side : x.id[d] = y.key => x.at[d] = y.pos

\* The keys of the subtree with root b, by the identifiers alone.
Subtree ==
    LET T[h \in 0 .. Cardinality(Bid)] ==
            [b \in Bid \cup {0} |->
                IF h = 0 \/ b \notin Keys(Live) THEN {}
                ELSE {b} \cup UNION {T[h - 1][x.id[d]] :
                                        x \in {x \in Live : x.key = b}, d \in Side}]
    IN  T[Cardinality(Bid)]

(***************************************************************************)
(* The blocks form an AVL tree: the keys of the left subtree are smaller   *)
(* and those of the right one larger, the heights of the two differ by at  *)
(* most one, and the recorded height is right, on which the order of       *)
(* finilize's loop and the rotations rely.  No live block has a dead or    *)
(* missing child.                                                          *)
(***************************************************************************)
SearchTree ==
    \A x \in Live :
        LET h(b) == IF b = 0 THEN 0 ELSE BlockOf(Live, b).height
            l    == h(x.id["left"])
            r    == h(x.id["right"])
        IN  /\ {x.id["left"], x.id["right"]} \subseteq Keys(Live) \cup {0}
            /\ \A b \in Subtree[x.id["left"]] : b < x.key
            /\ \A b \in Subtree[x.id["right"]] : b > x.key
            /\ x.height = 1 + Max({l, r})
            /\ l - r \in -1 .. 1

(***************************************************************************)
(* Nothing is lost and nothing comes back: below the root are exactly the  *)
(* keys that were written and not killed, each with the text of its last   *)
(* counters, also when they were changed in place and gained a digit.      *)
(***************************************************************************)
NothingLost ==
    /\ Subtree[rootKey] = DOMAIN given
    /\ \A b \in DOMAIN given : \E x \in Live : x.key = b /\ c_str(x.value) = Text(given[b])

(***************************************************************************)
(* The store's count of free blocks (horus) is exact or too high, by the   *)
(* blocks of the setup phase, which are not counted: "There is no more     *)
(* space in ORAM" is thrown only when there are as many keys as blocks.    *)
(***************************************************************************)
FullOnlyAtCapacity ==
    emptyNodes # Uncounted =>
        /\ emptyNodes \in 0 .. blockCount
        /\ blockCount - emptyNodes <= Cardinality(DOMAIN given)
        /\ ended = "full" => emptyNodes = 0

Map == INSTANCE BoxMap WITH contents <- given, Value <- Seq(Nat)

\* What an increment of a missing key returns.
Blank == IF copy = "mitra" THEN <<0, 0>> ELSE Absent

(***************************************************************************)
(* The oblivious map is a map: find and the increments return what was     *)
(* written last, wherever rotations, new leaves and write-backs have moved *)
(* the node since, and nothing but setDummy takes keys away.               *)
(***************************************************************************)
RefinesMap ==
    /\ Map!AInit
    /\ [][Map!ANext \/ Map!AUpdate(Blank) \/ (copy = "static" /\ Map!AExpire)]_<<given, answer>>
=============================================================================
