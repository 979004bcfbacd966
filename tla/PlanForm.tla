------------------------------ MODULE PlanForm ------------------------------
(***************************************************************************)
(* The inputs of the planning form up to the request for a plan: the two   *)
(* country searches with the airport codes behind them, the dates, the     *)
(* budgets, and the checkbox that overrides the budgets with the stored    *)
(* preferences.  A browser submits the form only when the inputs that are  *)
(* enabled satisfy their constraints; the form has no other validation,    *)
(* and neither gemini-service nor auth-service compares two fields.        *)
(***************************************************************************)
EXTENDS Naturals

CONSTANTS
  Countries,   \* the names in the reference list
  Hub,         \* the airport code of each country, or "" when it has none
  MaxDay,      \* bound: days; 0 is an empty date
  MaxAmount,   \* bound: budgets
  MaxLoads     \* bound: requests for the preferences under way

ASSUME FormAssumption == MaxDay \in Nat \ {0} /\ MaxAmount \in Nat /\ MaxLoads \in Nat

VARIABLES form, stored, planned

formVars == <<form, stored, planned>>

Ends    == {"source", "destination"}
Terms   == Countries \cup {"", "elsewhere"}
Amounts == 0..MaxAmount

\* The stored preferences, whose budgets the edit form does not compare either.
Preferences == [min : Amounts, max : Amounts]

FormTypeOK ==
  /\ form \in [country : [Ends -> [term : Terms, code : {""} \cup {Hub[c] : c \in Countries}]],
               start : 0..MaxDay, end : 0..(MaxDay + 1), min : Amounts, max : Amounts,
               typing : BOOLEAN, checked : BOOLEAN, loads : 0..MaxLoads]
  /\ stored \subseteq Preferences /\ planned \in BOOLEAN

\* Today for both dates; a reader has preferences or none.
FormInit ==
  /\ form = [country |-> [e \in Ends |-> [term |-> "", code |-> ""]],
             start |-> 1, end |-> 1, min |-> 0, max |-> 0,
             typing |-> FALSE, checked |-> FALSE, loads |-> 0]
  /\ stored \in {{}} \cup {{p} : p \in Preferences}
  /\ planned = FALSE

-----------------------------------------------------------------------------
\* The focus is in one input at a time; typing is that of the maximum.
Input(changed) ==
  /\ ~planned
  /\ form' = changed
  /\ UNCHANGED <<stored, planned>>

\* handleSearch: a typed name has no airport.
Searched(e, term) == [term |-> term, code |-> ""]

TypeCountry(e, term) ==
  ~form.typing /\ Input([form EXCEPT !.country[e] = Searched(e, term)])

SelectCountry(e, c) ==
  ~form.typing /\ Input([form EXCEPT !.country[e] = [term |-> c, code |-> Hub[c]]])

\* The day after, computed in local time and formatted in UTC: where the
\* clocks go forward in between, it is the day itself.
NextDays(d) == {d, d + 1}

\* An end that is empty, or not after the start, moves with the start; an
\* empty start compares with nothing.
SetStart(d) ==
  /\ ~form.typing
  /\ IF d # 0 /\ form.end <= d
     THEN \E next \in NextDays(d) : Input([form EXCEPT !.start = d, !.end = next])
     ELSE Input([form EXCEPT !.start = d])

SetEnd(d) == ~form.typing /\ Input([form EXCEPT !.end = d])

\* The budgets, which are disabled while the box is checked.
SetMin(b) ==
  /\ ~form.typing /\ ~form.checked
  /\ Input([form EXCEPT !.min = b, !.max = IF b >= form.max THEN b ELSE @])

SetMax(b) ==
  /\ ~form.checked
  /\ Input([form EXCEPT !.max = b, !.typing = TRUE])

\* Mutant: nothing is validated when the focus leaves the maximum.
RaisedNot(max) == max

\* onBlur: a maximum below the minimum is raised, with a warning.
Raised(max) == IF max < form.min THEN form.min ELSE max

LeaveMax ==
  /\ form.typing
  /\ Input([form EXCEPT !.max = Raised(form.max), !.typing = FALSE])

-----------------------------------------------------------------------------
Check ==
  /\ ~form.typing /\ ~form.checked
  /\ form.loads < MaxLoads
  /\ Input([form EXCEPT !.checked = TRUE, !.loads = @ + 1])

\* Clearing the box stops no request, whose answer still overrides.
Uncheck ==
  /\ form.checked
  /\ Input([form EXCEPT !.checked = FALSE])

PreferencesArrive ==
  /\ form.loads > 0
  /\ \/ \E p \in stored :
          Input([form EXCEPT !.loads = @ - 1, !.min = p.min, !.max = p.max])
     \/ Input([form EXCEPT !.loads = @ - 1, !.checked = FALSE])

\* What the browser checks: required, and min={startDate}, min={minBudget}.
Valid ==
  /\ \A e \in Ends : form.country[e].term # ""
  /\ form.start # 0 /\ form.end # 0 /\ form.end >= form.start
  /\ form.checked \/ form.max >= form.min

Submit ==
  /\ ~planned
  /\ Valid
  /\ planned' = TRUE
  /\ UNCHANGED <<form, stored>>

FormStep ==
  \/ \E e \in Ends : \/ \E term \in Terms : TypeCountry(e, term)
                     \/ \E c \in Countries : SelectCountry(e, c)
  \/ \E d \in 0..MaxDay : SetStart(d) \/ SetEnd(d)
  \/ \E b \in Amounts : SetMin(b) \/ SetMax(b)
  \/ LeaveMax \/ Check \/ Uncheck \/ PreferencesArrive \/ Submit

FormSpec == FormInit /\ [][FormStep]_formVars

-----------------------------------------------------------------------------
\* The plan that is asked for makes sense, whatever was typed, selected,
\* checked and cleared before: flights are searched from and to the airports of
\* the countries that are named, the trip does not end before it starts, and
\* the budget is a range, unless it is the one in the stored preferences.
PlanIsCoherent ==
  planned =>
    /\ \A e \in Ends : LET place == form.country[e]
                       IN  place.code # "" => place.term \in Countries /\ Hub[place.term] = place.code
    /\ form.start <= form.end
    /\ form.min <= form.max \/ [min |-> form.min, max |-> form.max] \in stored

=============================================================================
