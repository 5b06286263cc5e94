------------------------------ MODULE AgentTools ------------------------------
(***************************************************************************)
(* The answers of the bot that use tools, for one customer: the two ways   *)
(* ConversationAgent.respond takes to SkillRegistry (a request for photos, *)
(* and the rounds in which the model calls tools), the inventory adapter   *)
(* each answer has of its own, and _photo_cursor_by_phone, which all the   *)
(* answers of a process share (core/services/conversation_agent.py,        *)
(* core/services/skills.py, adapters/inventory/sheets_adapter.py).         *)
(*                                                                         *)
(* The model, WhatsApp and the sheet are external: the model may call any  *)
(* tool it is offered.  A round has one call here; more of them in a round *)
(* run one after the other just like those of several rounds.              *)
(***************************************************************************)
EXTENDS Naturals, FiniteSets

CONSTANTS
    Answers,     \* calls of respond
    AgentProcs,  \* processes of the service
    Units,       \* units of the inventory sheet
    PhotoCount,  \* how many photo URLs each unit has
    NoUnit,      \* no cursor, no unit
    MaxImages,   \* max_images_per_message
    MaxRounds,   \* max_rounds of the tool loop
    MaxRegen,    \* MAX_REGEN_ATTEMPTS
    AgentFaults  \* which calls may raise: "sheet", "wa", "llm"; "crash"

ASSUME AgentConstants ==
    /\ PhotoCount \in [Units -> Nat]
    /\ NoUnit \notin Units /\ AgentProcs # {}
    /\ MaxImages \in Nat \ {0} /\ MaxRounds \in Nat \ {0} /\ MaxRegen \in Nat
    /\ AgentFaults \subseteq {"sheet", "wa", "llm", "crash"}

VARIABLES
    cursor,    \* _photo_cursor_by_phone of each process, for the customer
    stock,     \* _cached_products of each answer's adapter
    fresh,     \* the answers whose cache has not expired
    answer,    \* the local variables of each answer
    delivered, \* how often each photo was delivered, twice standing for more
    again      \* history: units with a reason to be sent from the start

agentVars == <<cursor, stock, fresh, answer, delivered, again>>

-----------------------------------------------------------------------------
Tools == {"query_inventory", "send_inventory_photos"}

\* FSM_TOOL_POLICY: what the states offer the model.
ToolPolicy == {{}, {"query_inventory"}, Tools}

NoCursor == [unit |-> NoUnit, next |-> 0]
Cursor == [unit : Units \cup {NoUnit}, next : Nat]

AnswerSteps == {"new", "prompt", "llm", "photos", "send", "reply", "fallback", "done"}
Answer == [step : AnswerSteps, proc : AgentProcs, photo_only : BOOLEAN, tools : ToolPolicy,
           round : 0..MaxRounds, attempt : 0..MaxRegen, unit : Units \cup {NoUnit}, ix : Nat, end : Nat]

NewAnswer == [step |-> "new", proc |-> CHOOSE p \in AgentProcs : TRUE, photo_only |-> FALSE,
              tools |-> {}, round |-> 0, attempt |-> 0, unit |-> NoUnit, ix |-> 0, end |-> 0]

\* The photos of a unit: the URLs in its row, each of them once.
Photos(u) == 1..PhotoCount[u]

Least(m, n) == IF m < n THEN m ELSE n

AgentInit ==
    /\ cursor = [p \in AgentProcs |-> NoCursor]
    /\ stock = [a \in Answers |-> {}]
    /\ fresh = {}
    /\ answer = [a \in Answers |-> NewAnswer]
    /\ delivered = [u \in Units |-> [i \in Photos(u) |-> 0]]
    /\ again = {}

Go(a, step) == answer' = [answer EXCEPT ![a] = IF step = "done" THEN [NewAnswer EXCEPT !.step = "done"]
                                              ELSE [@ EXCEPT !.step = step]]

\* get_products: the cache while it is fresh; else the sheet, or nothing when
\* it cannot be read, and either is cached.
GetProducts(a, products) ==
    /\ IF a \in fresh THEN products = stock[a]
       ELSE products = Units \/ ("sheet" \in AgentFaults /\ products = {})
    /\ stock' = [stock EXCEPT ![a] = products]
    /\ fresh' = fresh \cup {a}

-----------------------------------------------------------------------------
(* respond.                                                                *)

\* A message about photos alone goes to the skill directly; for the others
\* the session's state says which tools the model has.
Respond(a, p, photo_only, tools) ==
    /\ answer[a].step = "new"
    /\ photo_only => tools = {}
    /\ answer' = [answer EXCEPT ![a] = [answer[a] EXCEPT
                    !.step = IF photo_only THEN "photos" ELSE "prompt",
                    !.proc = p, !.photo_only = photo_only, !.tools = tools]]
    /\ UNCHANGED <<cursor, stock, fresh, delivered, again>>

\* In catalog_navigation, the only state with both tools, the prompt lists
\* what the inventory has.
BuildPrompt(a) ==
    /\ answer[a].step = "prompt"
    /\ IF answer[a].tools = Tools
       THEN \E products \in SUBSET Units : GetProducts(a, products)
       ELSE UNCHANGED <<stock, fresh>>
    /\ Go(a, "llm")
    /\ UNCHANGED <<cursor, delivered, again>>

\* A round ends; after the last one the loop returns what it has.
EndRound(a) ==
    LET n == answer[a].round + 1
    IN answer' = [answer EXCEPT ![a] = [answer[a] EXCEPT
                    !.round = n, !.unit = NoUnit, !.ix = 0, !.end = 0,
                    !.step = IF n = MaxRounds THEN "reply" ELSE "llm"]]

\* The primary model answers, or the fallback does, or both raise.
Complete(a) ==
    /\ answer[a].step = "llm"
    /\ \/ Go(a, "reply") /\ UNCHANGED <<stock, fresh>>
       \/ "llm" \in AgentFaults /\ Go(a, "fallback") /\ UNCHANGED <<stock, fresh>>
       \/ /\ "query_inventory" \in answer[a].tools
          /\ \E products \in SUBSET Units : GetProducts(a, products)
          /\ EndRound(a)
       \/ /\ "send_inventory_photos" \in answer[a].tools
          /\ Go(a, "photos") /\ UNCHANGED <<stock, fresh>>
       \* A call without the arguments the tool requires.
       \/ answer[a].tools # {} /\ EndRound(a) /\ UNCHANGED <<stock, fresh>>
    /\ UNCHANGED <<cursor, delivered, again>>

\* A text too much like the last ones is made anew, tools included.
Reply(a) ==
    /\ answer[a].step = "reply"
    /\ \/ Go(a, "done")
       \/ "wa" \in AgentFaults /\ Go(a, "fallback")
       \/ /\ ~answer[a].photo_only /\ answer[a].attempt < MaxRegen
          /\ answer' = [answer EXCEPT ![a] = [answer[a] EXCEPT !.attempt = answer[a].attempt + 1,
                                                               !.round = 0, !.step = "llm"]]
    /\ UNCHANGED <<cursor, stock, fresh, delivered, again>>

\* The text for a failure; its own failure is only logged.
SendFallback(a) ==
    /\ answer[a].step = "fallback"
    /\ Go(a, "done")
    /\ UNCHANGED <<cursor, stock, fresh, delivered, again>>

-----------------------------------------------------------------------------
(* send_inventory_photos.                                                  *)

\* The tool returns or raises: execute_tool makes a result of either, the
\* direct way has the answer's except clause.
EndTool(a, raised) ==
    IF answer[a].photo_only THEN Go(a, IF raised THEN "fallback" ELSE "reply") ELSE EndRound(a)

Sending(u) == {a \in Answers : answer[a].step = "send" /\ answer[a].unit = u}

\* _send_image_batch from the photo after the first n.
StartBatch(a, u, n) ==
    /\ answer' = [answer EXCEPT ![a] = [answer[a] EXCEPT !.step = "send", !.unit = u, !.ix = n + 1,
                                         !.end = Least(PhotoCount[u], n + MaxImages)]]
    /\ again' = IF Sending(u) # {} \/ (n = 0 /\ \E i \in Photos(u) : delivered[u][i] > 0)
                THEN again \cup {u} ELSE again

\* A follow-up query goes on from the cursor, if there is one.
FollowUp(a) ==
    LET c == cursor[answer[a].proc]
    IN /\ answer[a].step = "photos"
       /\ c.unit # NoUnit
       /\ IF c.next >= PhotoCount[c.unit] THEN EndTool(a, FALSE) /\ UNCHANGED again
          ELSE StartBatch(a, c.unit, c.next)
       /\ UNCHANGED <<cursor, stock, fresh, delivered>>

\* Any other query, and a follow-up without a cursor: the first match that
\* has photos, from its first photo; or none.
SendPhotosOf(a) ==
    /\ answer[a].step = "photos"
    /\ \E products \in SUBSET Units :
        /\ GetProducts(a, products)
        /\ \/ EndTool(a, FALSE) /\ UNCHANGED again
           \/ \E u \in products : PhotoCount[u] > 0 /\ StartBatch(a, u, 0)
    /\ UNCHANGED <<cursor, delivered>>

Deliver(a) ==
    LET u == answer[a].unit  i == answer[a].ix
    IN delivered' = [delivered EXCEPT ![u] = [delivered[u] EXCEPT ![i] = Least(delivered[u][i] + 1, 2)]]

NextImage(a) == answer' = [answer EXCEPT ![a] = [answer[a] EXCEPT !.ix = answer[a].ix + 1]]

\* Mutant: the cursor is moved before the photos are sent.
SendImageCursorFirst(a) ==
    /\ answer[a].step = "send"
    /\ Deliver(a)
    /\ IF answer[a].ix = answer[a].end THEN EndTool(a, FALSE)
       ELSE NextImage(a)
    /\ cursor' = [cursor EXCEPT ![answer[a].proc] = [unit |-> answer[a].unit, next |-> answer[a].end]]
    /\ UNCHANGED <<stock, fresh, again>>

\* Mutant: the cursor stands on the last photo sent.
SendImageCursorShort(a) ==
    /\ answer[a].step = "send"
    /\ Deliver(a)
    /\ IF answer[a].ix = answer[a].end
       THEN /\ cursor' = [cursor EXCEPT ![answer[a].proc] =
                            [unit |-> answer[a].unit, next |-> answer[a].end - 1]]
            /\ EndTool(a, FALSE)
       ELSE NextImage(a) /\ UNCHANGED cursor
    /\ UNCHANGED <<stock, fresh, again>>

\* One image; after the last one of the batch the cursor is written.
SendImage(a) ==
    /\ answer[a].step = "send"
    /\ Deliver(a)
    /\ IF answer[a].ix = answer[a].end
       THEN /\ cursor' = [cursor EXCEPT ![answer[a].proc] =
                            [unit |-> answer[a].unit, next |-> answer[a].end]]
            /\ EndTool(a, FALSE)
       ELSE NextImage(a) /\ UNCHANGED cursor
    /\ UNCHANGED <<stock, fresh, again>>

\* WhatsApp raises, perhaps after it delivered: the cursor is not written.
SendImageRaises(a) ==
    /\ answer[a].step = "send" /\ "wa" \in AgentFaults
    /\ Deliver(a) \/ UNCHANGED delivered
    /\ again' = again \cup {answer[a].unit}
    /\ EndTool(a, TRUE)
    /\ UNCHANGED <<cursor, stock, fresh>>

-----------------------------------------------------------------------------
\* The adapter's TTL is over.
CacheExpires(a) ==
    /\ a \in fresh
    /\ fresh' = fresh \ {a}
    /\ UNCHANGED <<cursor, stock, answer, delivered, again>>

\* A process stops: its cursors are lost, its answers are not finished.
StopProcess(p) ==
    /\ "crash" \in AgentFaults
    /\ cursor' = [cursor EXCEPT ![p] = NoCursor]
    /\ answer' = [a \in Answers |-> IF answer[a].step # "new" /\ answer[a].proc = p
                                    THEN [NewAnswer EXCEPT !.step = "done"] ELSE answer[a]]
    /\ again' = again \cup {answer[a].unit : a \in {b \in Answers : answer[b].step = "send" /\ answer[b].proc = p}}
    /\ UNCHANGED <<stock, fresh, delivered>>

AgentNext ==
    \/ \E a \in Answers :
        \/ \E p \in AgentProcs, photo_only \in BOOLEAN, tools \in ToolPolicy : Respond(a, p, photo_only, tools)
        \/ BuildPrompt(a) \/ Complete(a) \/ Reply(a) \/ SendFallback(a)
        \/ FollowUp(a) \/ SendPhotosOf(a) \/ SendImage(a) \/ SendImageRaises(a)
        \/ CacheExpires(a)
    \/ \E p \in AgentProcs : StopProcess(p)

AgentSpec == AgentInit /\ [][AgentNext]_agentVars

-----------------------------------------------------------------------------
(* Properties.                                                             *)

AgentTypeOK ==
    /\ cursor \in [AgentProcs -> Cursor]
    /\ stock \in [Answers -> SUBSET Units]
    /\ fresh \subseteq Answers
    /\ answer \in [Answers -> Answer]
    /\ delivered = [u \in Units |-> delivered[u]]
    /\ \A u \in Units : delivered[u] \in [Photos(u) -> 0..2]
    /\ again \subseteq Units

\* A cursor never runs ahead of the photos: what it counts as sent the
\* customer has, whatever answers overlap, fail or stop between the read of
\* the cursor and its write, so "Ya te comparti todas las fotos" is true.
NoPhotoIsSkipped ==
    \A p \in AgentProcs : cursor[p].unit # NoUnit =>
        \A i \in Photos(cursor[p].unit) : i <= cursor[p].next => delivered[cursor[p].unit][i] > 0

\* A photo comes once, however often the tool loop and the regeneration of a
\* text run the skill again, unless two answers sent photos of the unit at
\* once, a send or a process failed, or the unit was asked for by name again.
EachPhotoOnce ==
    \A u \in Units \ again : \A i \in Photos(u) : delivered[u][i] <= 1
=============================================================================
