------------------------------ MODULE TokenPicker ------------------------------
(***************************************************************************)
(* The token picker of the web app (components/TokenSearch.tsx): the       *)
(* default list it loads when it is opened, and the search that runs 300   *)
(* ms after the last keystroke.  Answers come in any order, or not at all; *)
(* a load whose picker was closed is cancelled, a search is not.           *)
(***************************************************************************)
EXTENDS FiniteSets

CONSTANTS
    Queries,
    Blank,      \* the empty query
    Loads,      \* bound: loads of the default list under way
    Searches    \* bound: searches under way

VARIABLES
    isOpen, query, isSearching,
    defaultsLoaded,   \* defaultsLoadedRef
    defaultTokens,    \* whether the default list is there to be shown
    load,             \* load[l]: a request for the default list
    timer,            \* the debounce timer is set
    search,           \* search[s]: the query search s asks about, or Blank
    results           \* the query whose results are shown, or Blank

vars == <<isOpen, query, isSearching, defaultsLoaded, defaultTokens, load, timer,
          search, results>>
defaultsVars == <<defaultsLoaded, defaultTokens, load>>
searchVars   == <<query, isSearching, timer, search, results>>

\* The first render has run its effects.
Init ==
    /\ isOpen = FALSE /\ query = Blank /\ isSearching = TRUE /\ timer = TRUE
    /\ defaultsLoaded = FALSE /\ defaultTokens = FALSE
    /\ load = [l \in Loads |-> "none"]
    /\ search = [s \in Searches |-> Blank]
    /\ results = Blank

\* Mutant of cancelled: nothing is cancelled when the picker closes.
cancelledNever(l) == FALSE
cancelled(l)      == load[l] = "pending"

\* setIsOpen and the effect on isOpen: the cleanup of the last one, then a load.
SetOpen(open) ==
    IF open = isOpen THEN UNCHANGED <<isOpen, defaultsVars>>
    ELSE /\ isOpen' = open
         /\ LET swept == [l \in Loads |-> IF cancelled(l) THEN "cancelled" ELSE load[l]]
            IN  IF ~ open \/ defaultsLoaded THEN load' = swept
                ELSE \E l \in Loads : /\ swept[l] = "none"
                                      /\ load' = [swept EXCEPT ![l] = "pending"]
         /\ UNCHANGED <<defaultsLoaded, defaultTokens>>

\* The effect on query: a new timer in place of the old one.
SetQuery(q) ==
    IF q = query THEN UNCHANGED <<query, isSearching, timer>>
    ELSE query' = q /\ isSearching' = TRUE /\ timer' = TRUE

\* The button, a click outside, the focus of the input.
Toggle ==
    /\ SetOpen(~ isOpen)
    /\ UNCHANGED searchVars
Type(q) ==
    /\ q # query /\ SetQuery(q) /\ SetOpen(TRUE)
    /\ UNCHANGED <<search, results>>
handleSelect ==
    /\ isOpen
    /\ SetQuery(Blank) /\ SetOpen(FALSE) /\ results' = Blank
    /\ UNCHANGED search

\* The default list arrives, or fails; a cancelled load is not listened to.
LoadAnswered(l) ==
    /\ load[l] # "none"
    /\ load' = [load EXCEPT ![l] = "none"]
    /\ \/ load[l] = "pending" /\ defaultsLoaded' = TRUE /\ defaultTokens' = TRUE
       \/ load[l] = "pending" /\ defaultTokens' = FALSE /\ UNCHANGED defaultsLoaded
       \/ load[l] = "cancelled" /\ UNCHANGED <<defaultsLoaded, defaultTokens>>
    /\ UNCHANGED <<isOpen, searchVars>>

\* Mutant of searchTokens: the blank query leaves the spinner on.
searchTokensBlank ==
    /\ timer /\ timer' = FALSE
    /\ IF query = Blank
       THEN results' = Blank /\ UNCHANGED <<isSearching, search>>
       ELSE /\ isSearching' = TRUE
            /\ \E s \in Searches : search[s] = Blank /\ search' = [search EXCEPT ![s] = query]
            /\ UNCHANGED results
    /\ UNCHANGED <<isOpen, query, defaultsVars>>

\* The timer fires.
searchTokens ==
    /\ timer /\ timer' = FALSE
    /\ IF query = Blank
       THEN results' = Blank /\ isSearching' = FALSE /\ UNCHANGED search
       ELSE /\ isSearching' = TRUE
            /\ \E s \in Searches : search[s] = Blank /\ search' = [search EXCEPT ![s] = query]
            /\ UNCHANGED results
    /\ UNCHANGED <<isOpen, query, defaultsVars>>

\* Tokens or an error: whatever is typed by now, this is shown.
SearchAnswered(s) ==
    /\ search[s] # Blank
    /\ search' = [search EXCEPT ![s] = Blank]
    /\ results' \in {search[s], Blank}
    /\ isSearching' = FALSE
    /\ UNCHANGED <<isOpen, query, timer, defaultsVars>>

Next ==
    \/ Toggle \/ handleSelect \/ searchTokens
    \/ \E q \in Queries \cup {Blank} : Type(q)
    \/ \E l \in Loads : LoadAnswered(l)
    \/ \E s \in Searches : SearchAnswered(s)

Spec == Init /\ [][Next]_vars

-----------------------------------------------------------------------------
\* "Mark 'loaded' only after a retained successful response": once loaded, the
\* default list stays, whatever an earlier load does; and the spinner turns
\* only while a timer or a search will stop it.
PickerConsistent ==
    /\ defaultsLoaded => defaultTokens
    /\ isSearching => timer \/ \E s \in Searches : search[s] # Blank
=============================================================================
