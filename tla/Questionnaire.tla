--------------------------- MODULE Questionnaire ---------------------------
(***************************************************************************)
(* What the configuration of a controller is to the user: one question     *)
(* after the other, in a fixed order, none left out or asked again; an     *)
(* answer fills in what its question asks for and leaves all other answers *)
(* alone; a new form is blank, and one that was left stays as it is.       *)
(***************************************************************************)
EXTENDS Naturals, Sequences

CONSTANTS
  Order,    \* the questions, in the order they are asked in
  Entries,  \* the entries of the form
  Values,   \* what an entry may hold
  Blank,    \* what it holds before its question is answered
  Fields    \* the entries each question asks for

VARIABLES
  running,
  asked,    \* the question that waits for its answer, or waited last
  form

Init ==
  /\ running = FALSE
  /\ \E k \in DOMAIN Order : asked = Order[k]
  /\ form \in [Entries -> Values]

Start ==
  /\ ~running /\ running'
  /\ asked' = Order[1]
  /\ form' = [entry \in Entries |-> Blank]

\* The user may also skip the question, or answer it in another form.
Answer ==
  /\ running
  /\ form' \in [Entries -> Values]
  /\ \A entry \in Entries \ Fields[asked] : form'[entry] = form[entry]
  /\ \E k \in 1 .. Len(Order) :
       /\ asked = Order[k]
       /\ IF k < Len(Order) THEN running' /\ asked' = Order[k + 1]
          ELSE ~running' /\ asked' = asked

Leave == running /\ ~running' /\ UNCHANGED <<asked, form>>

Next == Start \/ Answer \/ Leave

Spec == Init /\ [][Next]_<<running, asked, form>>
=============================================================================
