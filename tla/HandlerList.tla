----------------------------- MODULE HandlerList -----------------------------
(***************************************************************************)
(* The lists of interrupt handlers of src/core/interrupt.c, linked by the  *)
(* functions of src/include/elfboot/list.h: the program registers and      *)
(* removes handlers, with interrupts on, while an interrupt walks a list.  *)
(*                                                                         *)
(* Every store to a link is a step of the program, and an interrupt, which *)
(* nothing interrupts, comes between any two of them.  A vector stands for *)
(* the head of its list, &interrupt_handlers[vector].                      *)
(***************************************************************************)
EXTENDS Integers, Sequences, FiniteSets

CONSTANTS
  Vectors,      (* the vectors below num_interrupts                         *)
  Handlers,     (* the handlers, each with a callback                       *)
  NULL

ASSUME HandlerListAssumption ==
  /\ Vectors \cap Handlers = {}
  /\ NULL \notin Vectors \cup Handlers
  /\ IsFiniteSet(Vectors \cup Handlers)

Nodes == Vectors \cup Handlers

VARIABLES
  next, prev,   (* the links of every list_head                             *)
  todo,         (* the stores the call in progress has left, in order       *)
  ordered,      (* whether the build keeps the stores in the order written: *)
                (* the links are not volatile                               *)
  handler,      (* the handler of that call                                 *)
  before, after,(* the arguments prev and next of __list_add, __list_del    *)
  called,       (* history: the handlers the last interrupt called          *)
  registered    (* history: the handlers of each vector, the last first     *)

vars == <<next, prev, todo, ordered, handler, before, after, called, registered>>

(* init_interrupts                                                         *)
Init ==
  /\ next = [m \in Nodes |-> IF m \in Vectors THEN m ELSE NULL]
  /\ prev = [m \in Nodes |-> IF m \in Vectors THEN m ELSE NULL]
  /\ todo = <<>> /\ ordered \in BOOLEAN
  /\ handler = NULL /\ before = NULL /\ after = NULL
  /\ called = <<>>
  /\ registered = [v \in Vectors |-> <<>>]

In(s, h) == \E m \in 1 .. Len(s) : s[m] = h
On(v, h) == In(registered[v], h)

Drop(s, m)    == SubSeq(s, 1, m - 1) \o SubSeq(s, m + 1, Len(s))
Without(s, h) == IF In(s, h) THEN Drop(s, CHOOSE m \in 1 .. Len(s) : s[m] = h) ELSE s

(* Mutant: the new handler is linked in before it has its links.           *)
AddStoresFirst == <<"prev->next = new", "next->prev = new", "new->next = next",
                    "new->prev = prev">>

AddStores == <<"next->prev = new", "new->next = next", "new->prev = prev",
               "prev->next = new">>

DelStores == <<"prev->next = next", "next->prev = prev", "entry->next = NULL",
               "entry->prev = NULL">>

(* register_interrupt_handler of a handler on no list, and list_add.       *)
Register(v, h) ==
  /\ todo = <<>>
  /\ \A w \in Vectors : ~ On(w, h)
  /\ todo' = AddStores
  /\ handler' = h
  /\ before' = v
  /\ after' = next[v]
  /\ UNCHANGED <<next, prev, ordered, called, registered>>

(* unregister_interrupt_handler of one on a list, and list_del.            *)
Unregister(v, h) ==
  /\ todo = <<>>
  /\ On(v, h)
  /\ todo' = DelStores
  /\ handler' = h
  /\ before' = prev[h]
  /\ after' = next[h]
  /\ UNCHANGED <<next, prev, ordered, called, registered>>

SetLink(link, m, to) == [link EXCEPT ![m] = to]

Link(store) ==
  CASE store = "next->prev = new" ->
         prev' = SetLink(prev, after, handler) /\ next' = next
    [] store = "new->next = next" ->
         next' = SetLink(next, handler, after) /\ prev' = prev
    [] store = "new->prev = prev" ->
         prev' = SetLink(prev, handler, before) /\ next' = next
    [] store = "prev->next = new" ->
         next' = SetLink(next, before, handler) /\ prev' = prev
    [] store = "prev->next = next" ->
         next' = SetLink(next, before, after) /\ prev' = prev
    [] store = "next->prev = prev" ->
         prev' = SetLink(prev, after, before) /\ next' = next
    [] store = "entry->next = NULL" ->
         next' = SetLink(next, handler, NULL) /\ prev' = prev
    [] store = "entry->prev = NULL" ->
         prev' = SetLink(prev, handler, NULL) /\ next' = next

(* The store that makes a handler one the interrupt finds, or finds no     *)
(* more, is the one to the link before it.                                 *)
Registered(store) ==
  [v \in Vectors |->
     IF store = "prev->next = new" /\ before = v
     THEN <<handler>> \o registered[v]
     ELSE IF store = "prev->next = next"
     THEN Without(registered[v], handler)
     ELSE registered[v]]

Store ==
  /\ \E m \in 1 .. Len(todo) :
       /\ ordered => m = 1
       /\ Link(todo[m])
       /\ registered' = Registered(todo[m])
       /\ todo' = Drop(todo, m)
  /\ UNCHANGED <<ordered, handler, before, after, called>>

(* What list_for_each_entry of interrupt_callback visits: it ends at the   *)
(* head, or goes wrong at a null link or in a circle without the head.     *)
Visit(v) ==
  LET at[m \in 0 .. Cardinality(Handlers) + 1] ==
        IF m = 0 THEN next[v]
        ELSE IF at[m - 1] \in Handlers THEN next[at[m - 1]] ELSE at[m - 1]
  IN  at

Walk(v) ==
  LET at  == Visit(v)
      len == Cardinality({m \in DOMAIN at : at[m] \in Handlers})
  IN  [m \in 1 .. len |-> at[m - 1]]

Ends(v) == Visit(v)[Cardinality(Handlers) + 1] = v

(* handle_generic_interrupt; a list without handlers is left alone.  The   *)
(* model says nothing of an interrupt whose walk goes wrong.               *)
Interrupt(v) ==
  /\ next[v] # v
  /\ Ends(v)
  /\ called' = Walk(v)
  /\ UNCHANGED <<next, prev, todo, ordered, handler, before, after, registered>>

Next ==
  \/ Store
  \/ \E v \in Vectors : Interrupt(v)
  \/ \E v \in Vectors, h \in Handlers : Register(v, h) \/ Unregister(v, h)

Spec == Init /\ [][Next]_vars

-----------------------------------------------------------------------------
(* Properties *)

(* Links lead to nodes or nowhere, and an interrupt calls handlers only,   *)
(* never the head of the list (list_for_each_entry, interrupt.c:65).       *)
TypeOK ==
  /\ next \in [Nodes -> Nodes \cup {NULL}]
  /\ prev \in [Nodes -> Nodes \cup {NULL}]
  /\ Len(todo) \in 0 .. 4
  /\ ordered \in BOOLEAN
  /\ handler \in Handlers \cup {NULL}
  /\ before \in Nodes \cup {NULL} /\ after \in Nodes \cup {NULL}
  /\ called \in Seq(Handlers)
  /\ registered \in [Vectors -> Seq(Handlers)]

(* Whenever an interrupt comes, also in the middle of a registration or a  *)
(* removal, the walk ends and calls each handler of its vector once, the   *)
(* last registered first, if the stores of __list_add (list.h:72) and      *)
(* __list_del keep their order.                                            *)
InterruptCallsAll ==
  ordered => \A v \in Vectors : Ends(v) /\ Walk(v) = registered[v]

(* Between calls the links back are those forward, whatever order the      *)
(* stores took: list_del finds the neighbours of a handler by them.        *)
LinksAgree ==
  todo = <<>> =>
    \A m \in Nodes :
      IF next[m] = NULL THEN prev[m] = NULL
      ELSE prev[next[m]] = m /\ next[prev[m]] = m

(* An interrupt at any store of a registration or a removal finds just the *)
(* handlers of its vector, and the links agree between the calls.          *)
HandlersFound == TypeOK /\ InterruptCallsAll /\ LinksAgree
==============================================================================
