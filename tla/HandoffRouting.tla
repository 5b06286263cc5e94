--------------------------- MODULE HandoffRouting -----------------------------
(***************************************************************************)
(* Who is told of a handoff: one message that asks for a human, from the   *)
(* transition to handoff_pending to the activation of the session.  The    *)
(* action notify_agent runs twice (the transition's and on_enter's) and    *)
(* looks for a branch in its own way (core/fsm/actions.py); then handle    *)
(* routes the handoff to a branch it looks for in another                  *)
(* (core/services/inbound_handler.py).  Both read the branches through an  *)
(* adapter made for this request (adapters/branches/sheets_adapter.py).    *)
(*                                                                         *)
(* A name of a branch is compared without case and blanks: it is a value   *)
(* here, and no two keys of the sheet differ in those alone.  The aliases  *)
(* of a centro and of a city have one order in both searches and are one   *)
(* name here.  The sheet is external, as is WhatsApp.                      *)
(***************************************************************************)
EXTENDS Naturals, FiniteSets, Functions

CONSTANTS
    Sheets,        \* what the sheet may hold: sequences of rows
    LeadFields,    \* what session.context and the lead's attributes may say
    NoName,        \* a blank cell, a name that is not there
    Fallback,      \* the key "fallback"
    RoutingFaults  \* which calls may raise: "sheet", "wa", "db"

ASSUME RoutingConstants ==
    /\ \A rows \in Sheets : DOMAIN rows \subseteq Nat
    /\ RoutingFaults \subseteq {"sheet", "wa", "db"}

VARIABLES
    sheet,    \* the rows of the sheet
    fields,   \* the lead's names of its branch, by container
    cached,   \* _cached_branches
    cacheOn,  \* _cache_expires_at lies ahead
    phase,    \* how far handle is
    seek,     \* what it looks the branch up with
    chosen,   \* the branch it found: its key, and the phones left to tell
    told,     \* the texts sent: phase, branch and phone
    misread   \* history: a lookup went without the sheet

routingVars == <<sheet, fields, cached, cacheOn, phase, seek, chosen, told, misread>>

-----------------------------------------------------------------------------
Lookups == {"notify", "enter", "route"}
Phases == Lookups \cup {"update_session", "save", "ack", "summary", "activate", "done", "failed"}

NotChosen == [key |-> NoName, phones |-> << >>]

First(is) == CHOOSE i \in is : \A j \in is : i <= j

\* _load_from_sheet: a branch for each key of the active rows, in the order
\* of the rows where the keys first appear and named after them, with each
\* phone once.  A branch and a phone have the number of their first row.
LoadFromSheet(rows) ==
    LET listed == {i \in DOMAIN rows : rows[i].active /\ rows[i].key # NoName}
        named(i) == {j \in listed : rows[j].key = rows[i].key}
        phoned(i, j) == {k \in named(i) : rows[k].phone = rows[j].phone}
        phones(i) == {j \in named(i) : rows[j].phone # NoName /\ j = First(phoned(i, j))}
    IN [i \in {f \in listed : f = First(named(f))} |->
           [key |-> rows[i].key, centro |-> rows[i].centro, places |-> rows[i].places,
            phones |-> [j \in phones(i) |-> rows[j].phone]]]

RoutingInit ==
    /\ sheet \in Sheets
    /\ fields \in LeadFields
    /\ cached = << >>
    /\ cacheOn = FALSE
    /\ phase = "notify"
    /\ seek = "key"
    /\ chosen = NotChosen
    /\ told = {}
    /\ misread = FALSE

-----------------------------------------------------------------------------
(* The lookup.                                                             *)

\* Mutant: a failed read empties the cache.
ListBranchesForgets(readable) ==
    /\ IF cacheOn THEN readable ELSE readable \/ "sheet" \in RoutingFaults
    /\ cached' = IF cacheOn THEN cached ELSE IF readable THEN LoadFromSheet(sheet) ELSE << >>
    /\ cacheOn' = (cacheOn \/ readable)
    /\ misread' = (misread \/ ~readable)

\* list_branches: the cache while it is on, else the sheet; when that raises
\* the cache as it is, and the next call tries again.
ListBranches(readable) ==
    /\ IF cacheOn THEN readable ELSE readable \/ "sheet" \in RoutingFaults
    /\ cached' = IF ~cacheOn /\ readable THEN LoadFromSheet(sheet) ELSE cached
    /\ cacheOn' = (cacheOn \/ readable)
    /\ misread' = (misread \/ ~readable)

\* Mutant: the router is not given the session.
NamesWithoutSession(search, by) ==
    LET c == fields["context"]
        a == fields["attributes"]
    IN IF search = "route"
       THEN IF by = "key" THEN <<a["sucursal_key"], a["branch_key"]>> ELSE <<a[by]>>
       ELSE IF by = "key" THEN <<c["branch_key"], c["sucursal_key"], a["branch_key"], a["sucursal_key"]>>
                          ELSE <<c[by], a[by]>>

\* Where a search looks for a key, a centro or a city: notify_agent in the
\* context of the session first, the router in the lead's attributes, and
\* each takes the two aliases of a key in its own order.
\* (last_inbound_message, the last container of both, never has any.)
NamesFor(search, by) ==
    LET c == fields["context"]
        a == fields["attributes"]
    IN IF search = "route"
       THEN IF by = "key" THEN <<a["sucursal_key"], a["branch_key"], c["sucursal_key"], c["branch_key"]>>
                          ELSE <<a[by], c[by]>>
       ELSE IF by = "key" THEN <<c["branch_key"], c["sucursal_key"], a["branch_key"], a["sucursal_key"]>>
                          ELSE <<c[by], a[by]>>

\* _extract_nested_string, _extract_handoff_field: the first that is not blank.
Sought(search, by) ==
    LET names == NamesFor(search, by)
        given == {n \in DOMAIN names : names[n] # NoName}
    IN IF given = {} THEN NoName ELSE names[First(given)]

\* get_branch_by_key, get_branch_by_centro, _find_branch_by_city.
Matches(branches, by, name) ==
    {i \in DOMAIN branches :
        CASE by = "key" -> branches[i].key = name
          [] by = "centro" -> branches[i].centro = name
          [] by = "city" -> name \in {branches[i].centro} \cup branches[i].places}

\* The branch of a lead no name places: notify_agent takes the first,
\* the router prefers the one called fallback.
Otherwise(branches) ==
    LET named == {i \in DOMAIN branches : branches[i].key = Fallback}
    IN IF phase = "route" /\ named # {} THEN named ELSE DOMAIN branches

\* Only the router knows of cities (_resolve_branch_phones).
SeekNext ==
    CASE seek = "key" -> "centro"
      [] seek = "centro" -> IF phase = "route" THEN "city" ELSE "any"
      [] seek = "city" -> "any"

Searching == phase \in Lookups /\ seek \in {"key", "centro", "city", "any"}

AfterPhase ==
    CASE phase = "notify" -> "update_session" [] phase = "enter" -> "save" [] phase = "route" -> "activate"

NextPhase(p) == phase' = p /\ seek' = "key" /\ chosen' = NotChosen

\* A name the lead does not have is not looked up.
SkipLookup ==
    /\ Searching /\ seek # "any" /\ Sought(phase, seek) = NoName
    /\ seek' = SeekNext
    /\ UNCHANGED <<sheet, fields, cached, cacheOn, phase, chosen, told, misread>>

\* One lookup: the first match, or the next kind of name; a lead nothing
\* places gets a branch all the same, if there is one.
Lookup(readable) ==
    /\ Searching
    /\ seek # "any" => Sought(phase, seek) # NoName
    /\ ListBranches(readable)
    /\ LET hits == IF seek = "any" THEN Otherwise(cached')
                   ELSE Matches(cached', seek, Sought(phase, seek))
       IN \/ /\ hits # {}
             /\ LET b == cached'[First(hits)]
                IN chosen' = [key |-> b.key, phones |-> b.phones]
             /\ seek' = "found"
             /\ phase' = IF phase = "route" THEN "summary" ELSE phase
          \/ /\ hits = {} /\ seek # "any"
             /\ seek' = SeekNext
             /\ UNCHANGED <<phase, chosen>>
          \/ hits = {} /\ seek = "any" /\ NextPhase(AfterPhase)
    /\ UNCHANGED <<sheet, fields, told>>

-----------------------------------------------------------------------------
(* What is done with it.                                                   *)

\* The texts to the phones of the branch, one after the other.
Telling == phase \in Lookups /\ seek = "found"

Untold == DOMAIN chosen.phones

PassPhone == chosen' = [chosen EXCEPT !.phones = Restrict(@, Untold \ {First(Untold)})]

TellPhone ==
    /\ Telling /\ Untold # {}
    /\ told' = told \cup {<<phase, chosen.key, chosen.phones[First(Untold)]>>}
    /\ PassPhone
    /\ UNCHANGED <<sheet, fields, cached, cacheOn, phase, seek, misread>>

\* WhatsApp raises: notify_agent ends, and handle with it; the router goes on
\* with the next phone.
TellRaises ==
    /\ Telling /\ Untold # {} /\ "wa" \in RoutingFaults
    /\ IF phase = "route"
       THEN PassPhone /\ UNCHANGED <<phase, seek>>
       ELSE NextPhase("failed")
    /\ UNCHANGED <<sheet, fields, cached, cacheOn, told, misread>>

AllTold ==
    /\ Telling /\ Untold = {}
    /\ NextPhase(AfterPhase)
    /\ UNCHANGED <<sheet, fields, cached, cacheOn, told, misread>>

\* The steps between the lookups: update_state of on_enter, the update of the
\* session, the text to the customer (whose failure is logged), the summary
\* of the conversation and the activation.
HandoffStep ==
    /\ phase \in {"update_session", "save", "ack", "summary", "activate"}
    /\ CASE phase = "update_session" -> NextPhase("enter")
         [] phase = "save" -> NextPhase("ack")
         [] phase = "ack" -> NextPhase("route")
         [] phase = "summary" -> phase' = "route" /\ UNCHANGED <<seek, chosen>>
         [] phase = "activate" -> NextPhase("done")
    /\ UNCHANGED <<sheet, fields, cached, cacheOn, told, misread>>

\* Each of them but the text is a transaction, which may raise.
HandoffRaises ==
    /\ phase \in {"update_session", "save", "summary", "activate"} /\ "db" \in RoutingFaults
    /\ NextPhase("failed")
    /\ UNCHANGED <<sheet, fields, cached, cacheOn, told, misread>>

\* cache_ttl_seconds go by.
BranchCacheExpires ==
    /\ cacheOn /\ phase \notin {"done", "failed"}
    /\ cacheOn' = FALSE
    /\ UNCHANGED <<sheet, fields, cached, phase, seek, chosen, told, misread>>

RoutingNext ==
    \/ SkipLookup \/ (\E readable \in BOOLEAN : Lookup(readable))
    \/ TellPhone \/ TellRaises \/ AllTold \/ HandoffStep \/ HandoffRaises
    \/ BranchCacheExpires

RoutingSpec == RoutingInit /\ [][RoutingNext]_routingVars

-----------------------------------------------------------------------------
(* Properties.                                                             *)

RoutingTypeOK ==
    /\ sheet \in Sheets /\ fields \in LeadFields
    /\ cached \in {<< >>, LoadFromSheet(sheet)}
    /\ cacheOn \in BOOLEAN /\ misread \in BOOLEAN
    /\ phase \in Phases /\ seek \in {"key", "centro", "city", "any", "found"}
    /\ told \subseteq Lookups \X {cached[i].key : i \in DOMAIN cached}
                      \X UNION {Range(cached[i].phones) : i \in DOMAIN cached}

\* All the names of a kind the session and the lead have, in any container.
Given(by) ==
    {fields[container][name] : container \in {"context", "attributes"},
                               name \in IF by = "key" THEN {"branch_key", "sucursal_key"} ELSE {by}}
        \ {NoName}

\* The branches some of them are names of.
Hits(by) == UNION {Matches(LoadFromSheet(sheet), by, name) : name \in Given(by)}

\* They do not contradict one another.
AgreeOn(by) ==
    \A name \in Given(by) : Matches(LoadFromSheet(sheet), by, name) = Hits(by)

\* The lead's keys are those of one branch, or else they are of none and its
\* centros are those of one.
Placed ==
    /\ AgreeOn("key")
    /\ Hits("key") = {} => AgreeOn("centro") /\ Hits("centro") # {}

\* No name places the lead for the router either.
Unplaced ==
    /\ \A by \in {"key", "centro", "city"} : Hits(by) = {}
    /\ \A i \in DOMAIN LoadFromSheet(sheet) : LoadFromSheet(sheet)[i].key # Fallback

\* The two searches agree: a handoff is told to the people of one branch, or
\* else the customer is promised to two.  They part for a lead whose keys or
\* centros contradict one another, between the session and the lead or
\* between the aliases, for each search takes another one first; for a lead
\* that only its city or the fallback branch places, for notify_agent knows
\* neither; and where a lookup could not read the sheet.
OneBranchIsTold ==
    (Placed \/ Unplaced) /\ ~misread => \A s, t \in told : s[2] = t[2]
=============================================================================
