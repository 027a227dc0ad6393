--------------------------- MODULE CallByReference --------------------------
(***************************************************************************)
(* What src/README promises of procedures and variables, with no stack and *)
(* no addresses: globals live for ever, a call makes fresh locals, an      *)
(* argument is a number or a reference to an element of a variable that    *)
(* the caller can name, and a procedure changes nothing but what it can    *)
(* name.  An element is <<n, v, i>>: element i of the variable v of the    *)
(* n-th procedure being called, n = 0 for a global.                        *)
(***************************************************************************)
EXTENDS Integers, Sequences

VARIABLES
  variables, \* of each its scope, 0 or a procedure, and its length, 0 for an argument
  store,     \* {<<element, value>>}, one pair for each element that lives;
             \* an argument is one element, its number
  frames     \* the procedures being called, and what their arguments refer to

vars == <<variables, store, frames>>

NoElement == <<0, 0, 0>>             \* what an argument that is a number refers to

Room(v)        == 0 .. (IF variables[v].length = 0 THEN 0 ELSE variables[v].length - 1)
Owned(p)       == {v \in DOMAIN variables : variables[v].scope = p}
Elements(n, p) == UNION {{<<n, v, i>> : i \in Room(v)} : v \in Owned(p)}
Args(p)        == {v \in Owned(p) : variables[v].length = 0}
Referring(f)   == {a \in DOMAIN f.refs : f.refs[a] # NoElement}

(* From an element to the end of its variable. *)
Rest(e) == {<<e[1], e[2], i>> : i \in e[3] .. (variables[e[2]].length - 1)}

(* What the procedure of frame n, f, can name: all it can write.  It can   *)
(* pass on by reference the same, but for arguments that are numbers.      *)
Writable(n, f) ==
  Elements(0, 0) \cup Elements(n, f.proc)
    \cup UNION {Rest(f.refs[a]) : a \in Referring(f)}
Passable(n, f) == Writable(n, f) \ {<<n, a, 0>> : a \in Args(f.proc)}

Named(pairs) == {p[1] : p \in pairs}

Live(fs) == Elements(0, 0) \cup UNION {Elements(n, fs[n].proc) : n \in DOMAIN fs}

-----------------------------------------------------------------------------
Init == Named(store) = Elements(0, 0) /\ frames = <<>>

Reset == frames = <<>> /\ UNCHANGED frames /\ Named(store') = Elements(0, 0)

Start ==
  /\ frames = <<>> /\ Len(frames') = 1
  /\ DOMAIN frames'[1].refs = {}
  /\ store \subseteq store' /\ Named(store') = Live(frames')

Call ==
  /\ frames # <<>> /\ Len(frames') = Len(frames) + 1
  /\ SubSeq(frames', 1, Len(frames)) = frames
  /\ LET f == frames'[Len(frames')]
     IN /\ DOMAIN f.refs = Args(f.proc)
        /\ \A a \in Referring(f) :
             f.refs[a] \in Passable(Len(frames), frames[Len(frames)])
  /\ store \subseteq store' /\ Named(store') = Live(frames')

Return ==
  /\ Len(frames) > 1
  /\ frames' = SubSeq(frames, 1, Len(frames) - 1)
  /\ store' \subseteq store /\ Named(store') = Live(frames')

(* At most one element changes, one the running procedure can name. *)
Write ==
  /\ frames # <<>> /\ UNCHANGED frames
  /\ Named(store') = Named(store)
  /\ LET changed == Named(store' \ store)
     IN changed = {} \/ \E e \in Writable(Len(frames), frames[Len(frames)]) : changed = {e}

Stop ==
  /\ frames # <<>> /\ frames' = <<>>
  /\ store' \subseteq store /\ Named(store') = Elements(0, 0)

Next == UNCHANGED variables /\ (Reset \/ Start \/ Write \/ Call \/ Return \/ Stop)

Spec == Init /\ [][Next]_vars
=============================================================================
