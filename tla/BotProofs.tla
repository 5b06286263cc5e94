------------------------------- MODULE BotProofs -------------------------------
(***************************************************************************)
(* What the bot sends of itself, proved.                                   *)
(*                                                                         *)
(* AgentTools: NoPhotoIsSkipped and EachPhotoOnce for any answers,         *)
(* processes, units and bounds.  The cursor is right when it is written    *)
(* because the photos of a batch before the one that is being sent have    *)
(* been delivered (BatchesAreSent), and a photo that was delivered stays   *)
(* so.  It comes once because a unit nobody had a reason to send again is  *)
(* in the hands of one batch, or else of one cursor (SentOnce).            *)
(*                                                                         *)
(* HandoffRouting: OneBranchIsTold for any sheet and any names of a lead.  *)
(* Both searches are on the way to the branch the names say, and those     *)
(* looked up before the present one did not hit (BoundForOne); where the   *)
(* names agree, the order a search takes them in is of no matter.          *)
(***************************************************************************)
EXTENDS AgentTools, HandoffRouting, WellFoundedInduction, TLAPS

USE DEF Photos

\* An answer that sends a unit's photos is within its batch, and those before
\* the next one are with the customer, by this batch or an earlier one.
BatchesAreSent ==
    \A a \in Answers : answer[a].step = "send" =>
        /\ answer[a].unit \in Units
        /\ answer[a].ix \in 1..answer[a].end
        /\ answer[a].end <= PhotoCount[answer[a].unit]
        /\ \A i \in 1..PhotoCount[answer[a].unit] :
              i < answer[a].ix => delivered[answer[a].unit][i] > 0

\* An answer that may still call a tool has a round left for it.
RoundsAreLeft ==
    \A a \in Answers : answer[a].step \in {"new", "prompt", "llm", "photos", "send"} =>
        answer[a].round < MaxRounds

AgentInv == AgentTypeOK /\ BatchesAreSent /\ RoundsAreLeft /\ NoPhotoIsSkipped

-----------------------------------------------------------------------------
(* The types.                                                              *)

LEMMA NewAnswerType ==
  NewAnswer \in Answer /\ [NewAnswer EXCEPT !.step = "done"] \in Answer
<1>1. (CHOOSE p \in AgentProcs : TRUE) \in AgentProcs
  BY AgentConstants
<1>2. {} \in ToolPolicy
  BY DEF ToolPolicy
<1>3. NewAnswer \in Answer
  BY <1>1, <1>2, AgentConstants DEF NewAnswer, Answer, AnswerSteps
<1> QED BY <1>3 DEF Answer, AnswerSteps

\* Where Go leaves the answers.
LEMMA GoType ==
  ASSUME AgentTypeOK, NEW a \in Answers, NEW s \in AnswerSteps, Go(a, s)
  PROVE  /\ answer' \in [Answers -> Answer]
         /\ \A b \in Answers : b # a => answer'[b] = answer[b]
         /\ answer'[a].step = s
         /\ s # "done" => answer'[a].round = answer[a].round
<1>1. CASE s = "done"
  <2>1. answer' = [answer EXCEPT ![a] = [NewAnswer EXCEPT !.step = "done"]]
    BY <1>1 DEF Go
  <2>2. [NewAnswer EXCEPT !.step = "done"].step = "done"
    BY DEF NewAnswer
  <2> QED BY <1>1, <2>1, <2>2, NewAnswerType DEF AgentTypeOK
<1>2. CASE s # "done"
  <2>1. answer' = [answer EXCEPT ![a] = [answer[a] EXCEPT !.step = s]]
    BY <1>2 DEF Go
  <2>2. answer[a] \in Answer
    BY DEF AgentTypeOK
  <2>3. /\ [answer[a] EXCEPT !.step = s] \in Answer
        /\ [answer[a] EXCEPT !.step = s].step = s
        /\ [answer[a] EXCEPT !.step = s].round = answer[a].round
    BY <2>2 DEF Answer
  <2> QED BY <2>1, <2>3 DEF AgentTypeOK
<1> QED BY <1>1, <1>2

\* A round of the tool loop leaves no batch behind.
LEMMA EndRoundType ==
  ASSUME AgentTypeOK, NEW a \in Answers, EndRound(a), answer[a].round < MaxRounds
  PROVE  /\ answer' \in [Answers -> Answer]
         /\ \A b \in Answers : b # a => answer'[b] = answer[b]
         /\ answer'[a].step \in {"reply", "llm"}
         /\ answer'[a].step = "llm" => answer'[a].round < MaxRounds
<1> DEFINE n == answer[a].round + 1
           s == IF n = MaxRounds THEN "reply" ELSE "llm"
           r == [answer[a] EXCEPT !.round = n, !.unit = NoUnit, !.ix = 0, !.end = 0, !.step = s]
<1>1. answer[a] \in Answer
  BY DEF AgentTypeOK
<1>2. /\ n \in 0..MaxRounds /\ s \in {"reply", "llm"} /\ s \in AnswerSteps
      /\ s = "llm" => n < MaxRounds
  BY <1>1, AgentConstants DEF Answer, AnswerSteps
<1>3. r \in Answer /\ r.step = s /\ r.round = n
  <2> HIDE DEF n, s
  <2> QED BY <1>1, <1>2 DEF Answer
<1>4. answer' = [answer EXCEPT ![a] = r]
  BY DEF EndRound
<1> HIDE DEF r
<1> QED BY <1>2, <1>3, <1>4 DEF AgentTypeOK

-----------------------------------------------------------------------------
(* What a step may do to the invariant.                                    *)

\* The answer b is as it was, or it is not sending and may go on.
Rests(b) ==
    \/ answer'[b] = answer[b]
    \/ /\ answer'[b].step # "send"
       /\ answer'[b].step \in {"new", "prompt", "llm", "photos"} => answer'[b].round < MaxRounds

\* What was delivered stays so.
PhotosStay ==
    \A u \in Units : \A i \in 1..PhotoCount[u] : delivered[u][i] > 0 => delivered'[u][i] > 0

\* A step that starts no batch and moves no cursor forward.
LEMMA QuietStep ==
  ASSUME AgentInv, AgentTypeOK', PhotosStay, \A b \in Answers : Rests(b),
         \A p \in AgentProcs : cursor'[p] = cursor[p] \/ cursor'[p].unit = NoUnit
  PROVE  AgentInv'
<1>1. BatchesAreSent'
  <2> SUFFICES ASSUME NEW a \in Answers, answer'[a].step = "send"
               PROVE  /\ answer'[a].unit \in Units
                      /\ answer'[a].ix \in 1..answer'[a].end
                      /\ answer'[a].end <= PhotoCount[answer'[a].unit]
                      /\ \A i \in 1..PhotoCount[answer'[a].unit] :
                            i < answer'[a].ix => delivered'[answer'[a].unit][i] > 0
    BY DEF BatchesAreSent
  <2>1. answer'[a] = answer[a]
    BY DEF Rests
  <2> QED BY <2>1 DEF AgentInv, BatchesAreSent, PhotosStay
<1>2. RoundsAreLeft'
  BY DEF AgentInv, RoundsAreLeft, Rests
<1>3. NoPhotoIsSkipped'
  <2> SUFFICES ASSUME NEW p \in AgentProcs, cursor'[p].unit # NoUnit,
                      NEW i \in 1..PhotoCount[cursor'[p].unit], i <= cursor'[p].next
               PROVE  delivered'[cursor'[p].unit][i] > 0
    BY DEF NoPhotoIsSkipped
  <2>1. cursor'[p] = cursor[p] /\ cursor[p].unit \in Units
    BY DEF AgentInv, AgentTypeOK, Cursor
  <2> QED BY <2>1 DEF AgentInv, NoPhotoIsSkipped, PhotosStay
<1> QED BY <1>1, <1>2, <1>3 DEF AgentInv

\* The tool ends, in either of the two ways it was called.
LEMMA EndToolRests ==
  ASSUME AgentInv, NEW a \in Answers, NEW raised \in BOOLEAN, EndTool(a, raised),
         answer[a].step \in {"photos", "send"}
  PROVE  answer' \in [Answers -> Answer] /\ \A b \in Answers : Rests(b)
<1>1. CASE answer[a].photo_only
  <2>1. PICK s \in {"fallback", "reply"} : Go(a, s)
    BY <1>1 DEF EndTool
  <2>2. s \in AnswerSteps
    BY DEF AnswerSteps
  <2> QED BY <2>1, <2>2, GoType DEF AgentInv, Rests
<1>2. CASE ~answer[a].photo_only
  <2>1. EndRound(a) /\ answer[a].round < MaxRounds
    BY <1>2 DEF EndTool, AgentInv, RoundsAreLeft
  <2> QED BY <2>1, EndRoundType DEF AgentInv, Rests
<1> QED BY <1>1, <1>2

\* A batch starts after photos the customer has.
LEMMA StartBatchKeepsInv ==
  ASSUME AgentInv, NEW a \in Answers, answer[a].step = "photos", NEW u \in Units, NEW n \in Nat,
         n < PhotoCount[u], \A i \in 1..PhotoCount[u] : i <= n => delivered[u][i] > 0,
         StartBatch(a, u, n), cursor' = cursor, delivered' = delivered,
         stock' \in [Answers -> SUBSET Units], fresh' \subseteq Answers
  PROVE  AgentInv'
<1> DEFINE e == Least(PhotoCount[u], n + MaxImages)
           r == [answer[a] EXCEPT !.step = "send", !.unit = u, !.ix = n + 1, !.end = e]
<1>1. e \in Nat /\ n + 1 <= e /\ e <= PhotoCount[u] /\ PhotoCount[u] \in Nat
  BY AgentConstants DEF Least
<1>2. answer[a] \in Answer
  BY DEF AgentInv, AgentTypeOK
<1>3. r \in Answer /\ r.step = "send" /\ r.unit = u /\ r.ix = n + 1 /\ r.end = e /\ r.round = answer[a].round
  <2>1. n + 1 \in Nat /\ "send" \in AnswerSteps
    BY DEF AnswerSteps
  <2> HIDE DEF e
  <2>2. r \in Answer
    BY <1>1, <1>2, <2>1 DEF Answer
  <2> QED BY <1>2, <2>2 DEF Answer
<1>4. answer' = [answer EXCEPT ![a] = r] /\ again' \subseteq Units
  BY DEF StartBatch, AgentInv, AgentTypeOK
<1> HIDE DEF r, e
<1>5. /\ answer' \in [Answers -> Answer] /\ answer'[a] = r
      /\ \A b \in Answers : b # a => answer'[b] = answer[b]
  BY <1>3, <1>4 DEF AgentInv, AgentTypeOK
<1>6. AgentTypeOK'
  BY <1>4, <1>5 DEF AgentInv, AgentTypeOK
<1>7. BatchesAreSent'
  <2> SUFFICES ASSUME NEW b \in Answers, answer'[b].step = "send"
               PROVE  /\ answer'[b].unit \in Units
                      /\ answer'[b].ix \in 1..answer'[b].end
                      /\ answer'[b].end <= PhotoCount[answer'[b].unit]
                      /\ \A i \in 1..PhotoCount[answer'[b].unit] :
                            i < answer'[b].ix => delivered'[answer'[b].unit][i] > 0
    BY DEF BatchesAreSent
  <2>1. CASE b = a
    BY <1>1, <1>3, <1>5, <2>1
  <2>2. CASE b # a
    BY <1>5, <2>2 DEF AgentInv, BatchesAreSent
  <2> QED BY <2>1, <2>2
<1>8. RoundsAreLeft'
  BY <1>3, <1>5 DEF AgentInv, RoundsAreLeft
<1>9. NoPhotoIsSkipped'
  BY DEF AgentInv, NoPhotoIsSkipped
<1> QED BY <1>6, <1>7, <1>8, <1>9 DEF AgentInv

-----------------------------------------------------------------------------
(* The actions.                                                            *)

\* Where the cache of an adapter is read, it keeps its type.
LEMMA GetProductsType ==
  ASSUME AgentTypeOK, NEW a \in Answers, NEW products \in SUBSET Units, GetProducts(a, products)
  PROVE  stock' \in [Answers -> SUBSET Units] /\ fresh' \subseteq Answers
BY DEF GetProducts, AgentTypeOK

\* A step of an answer that delivers nothing and writes no cursor.
LEMMA AnswerStep ==
  ASSUME AgentInv, UNCHANGED <<cursor, delivered>>, again' \subseteq Units,
         stock' \in [Answers -> SUBSET Units], fresh' \subseteq Answers,
         answer' \in [Answers -> Answer], \A b \in Answers : Rests(b)
  PROVE  AgentInv'
<1>1. AgentTypeOK'
  BY DEF AgentInv, AgentTypeOK
<1>2. PhotosStay
  BY DEF PhotosStay
<1> QED BY <1>1, <1>2, QuietStep

\* respond starts.
LEMMA RespondKeepsInv ==
  ASSUME AgentInv, NEW a \in Answers, NEW p \in AgentProcs, NEW photo_only \in BOOLEAN,
         NEW tools \in ToolPolicy, Respond(a, p, photo_only, tools)
  PROVE  AgentInv'
<1> DEFINE s == IF photo_only THEN "photos" ELSE "prompt"
           r == [answer[a] EXCEPT !.step = s, !.proc = p, !.photo_only = photo_only, !.tools = tools]
<1>1. answer[a] \in Answer /\ answer[a].step = "new"
  BY DEF AgentInv, AgentTypeOK, Respond
<1>2. s \in AnswerSteps /\ s # "send"
  BY DEF AnswerSteps
<1>3. r \in Answer /\ r.step = s /\ r.round = answer[a].round
  <2> HIDE DEF s
  <2> QED BY <1>1, <1>2 DEF Answer
<1>4. answer' = [answer EXCEPT ![a] = r]
  BY DEF Respond
<1> HIDE DEF r, s
<1>5. answer' \in [Answers -> Answer] /\ \A b \in Answers : Rests(b)
  BY <1>1, <1>2, <1>3, <1>4 DEF Rests, AgentInv, AgentTypeOK, RoundsAreLeft
<1> QED BY <1>5, AnswerStep DEF Respond, AgentInv, AgentTypeOK

\* The steps of an answer outside a batch.
LEMMA GoKeepsInv ==
  ASSUME AgentInv, NEW a \in Answers, NEW s \in AnswerSteps \ {"send"}, Go(a, s),
         answer[a].step \in {"new", "prompt", "llm", "photos", "send"} \/ s \in {"reply", "fallback", "done"},
         UNCHANGED <<cursor, delivered, again>>,
         stock' \in [Answers -> SUBSET Units], fresh' \subseteq Answers
  PROVE  AgentInv'
<1>1. answer' \in [Answers -> Answer] /\ \A b \in Answers : Rests(b)
  BY GoType DEF AgentInv, RoundsAreLeft, Rests
<1> QED BY <1>1, AnswerStep DEF AgentInv, AgentTypeOK

\* The prompt is built.
LEMMA BuildPromptKeepsInv ==
  ASSUME AgentInv, NEW a \in Answers, BuildPrompt(a)
  PROVE  AgentInv'
<1>1. stock' \in [Answers -> SUBSET Units] /\ fresh' \subseteq Answers
  BY GetProductsType DEF BuildPrompt, AgentInv, AgentTypeOK
<1> QED BY <1>1, GoKeepsInv DEF BuildPrompt, AnswerSteps

\* The model answers, calls a tool or fails.
LEMMA CompleteKeepsInv ==
  ASSUME AgentInv, NEW a \in Answers, Complete(a)
  PROVE  AgentInv'
<1>1. ASSUME NEW s \in {"reply", "fallback", "photos"}, Go(a, s), UNCHANGED <<stock, fresh>>
      PROVE  AgentInv'
  BY <1>1, GoKeepsInv DEF Complete, AnswerSteps, AgentInv, AgentTypeOK
<1>2. ASSUME EndRound(a), stock' \in [Answers -> SUBSET Units], fresh' \subseteq Answers
      PROVE  AgentInv'
  <2>1. answer[a].round < MaxRounds
    BY DEF Complete, AgentInv, RoundsAreLeft
  <2>2. answer' \in [Answers -> Answer] /\ \A b \in Answers : Rests(b)
    BY <1>2, <2>1, EndRoundType DEF AgentInv, Rests
  <2> QED BY <1>2, <2>2, AnswerStep DEF Complete, AgentInv, AgentTypeOK
<1>3. ASSUME NEW products \in SUBSET Units, GetProducts(a, products), EndRound(a)
      PROVE  AgentInv'
  BY <1>2, <1>3, GetProductsType DEF AgentInv
<1>4. ASSUME EndRound(a), UNCHANGED <<stock, fresh>>
      PROVE  AgentInv'
  BY <1>2, <1>4 DEF AgentInv, AgentTypeOK
<1> QED BY <1>1, <1>3, <1>4 DEF Complete

\* The text is sent, fails or is made anew.
LEMMA ReplyKeepsInv ==
  ASSUME AgentInv, NEW a \in Answers, Reply(a)
  PROVE  AgentInv'
<1>1. ASSUME NEW s \in {"done", "fallback"}, Go(a, s)
      PROVE  AgentInv'
  BY <1>1, GoKeepsInv DEF Reply, AnswerSteps, AgentInv, AgentTypeOK
<1>2. ASSUME answer[a].attempt < MaxRegen,
             answer' = [answer EXCEPT ![a] = [answer[a] EXCEPT !.attempt = answer[a].attempt + 1,
                                                               !.round = 0, !.step = "llm"]]
      PROVE  AgentInv'
  <2> DEFINE m == answer[a].attempt + 1
             r == [answer[a] EXCEPT !.attempt = m, !.round = 0, !.step = "llm"]
  <2>1. answer[a] \in Answer
    BY DEF AgentInv, AgentTypeOK
  <2>2. m \in 0..MaxRegen /\ 0 \in 0..MaxRounds /\ 0 < MaxRounds /\ "llm" \in AnswerSteps
    BY <1>2, <2>1, AgentConstants DEF Answer, AnswerSteps
  <2>3. r \in Answer /\ r.step = "llm" /\ r.round = 0
    <3> HIDE DEF m
    <3> QED BY <2>1, <2>2 DEF Answer
  <2>4. answer' = [answer EXCEPT ![a] = r]
    BY <1>2
  <2> HIDE DEF r, m
  <2>5. answer' \in [Answers -> Answer] /\ \A b \in Answers : Rests(b)
    BY <2>2, <2>3, <2>4 DEF Rests, AgentInv, AgentTypeOK
  <2> QED BY <2>5, AnswerStep DEF Reply, AgentInv, AgentTypeOK
<1> QED BY <1>1, <1>2 DEF Reply

\* The text for a failure is sent.
LEMMA SendFallbackKeepsInv ==
  ASSUME AgentInv, NEW a \in Answers, SendFallback(a)
  PROVE  AgentInv'
BY GoKeepsInv DEF SendFallback, AnswerSteps, AgentInv, AgentTypeOK

\* The tool sends nothing.
LEMMA EndToolKeepsInv ==
  ASSUME AgentInv, NEW a \in Answers, answer[a].step = "photos", EndTool(a, FALSE),
         UNCHANGED <<cursor, delivered, again>>,
         stock' \in [Answers -> SUBSET Units], fresh' \subseteq Answers
  PROVE  AgentInv'
<1>1. answer' \in [Answers -> Answer] /\ \A b \in Answers : Rests(b)
  BY EndToolRests
<1> QED BY <1>1, AnswerStep DEF AgentInv, AgentTypeOK

\* A follow-up starts after the photos the cursor counts: the customer has
\* them, as the cursor was right.
LEMMA FollowUpKeepsInv ==
  ASSUME AgentInv, NEW a \in Answers, FollowUp(a)
  PROVE  AgentInv'
<1> DEFINE c == cursor[answer[a].proc]
<1>1. answer[a].proc \in AgentProcs /\ answer[a].step = "photos"
  BY DEF AgentInv, AgentTypeOK, Answer, FollowUp
<1>2. c.unit \in Units /\ c.next \in Nat
  BY <1>1 DEF FollowUp, AgentInv, AgentTypeOK, Cursor
<1>3. stock' \in [Answers -> SUBSET Units] /\ fresh' \subseteq Answers /\ UNCHANGED <<cursor, delivered>>
  BY DEF FollowUp, AgentInv, AgentTypeOK
<1>4. CASE c.next >= PhotoCount[c.unit]
  <2>1. EndTool(a, FALSE) /\ UNCHANGED again
    BY <1>4 DEF FollowUp
  <2> QED BY <1>1, <1>3, <2>1, EndToolKeepsInv
<1>5. CASE ~(c.next >= PhotoCount[c.unit])
  <2>1. StartBatch(a, c.unit, c.next)
    BY <1>5 DEF FollowUp
  <2>2. \A i \in 1..PhotoCount[c.unit] : i <= c.next => delivered[c.unit][i] > 0
    BY <1>1, <1>2 DEF AgentInv, NoPhotoIsSkipped, FollowUp
  <2>3. c.next < PhotoCount[c.unit]
    BY <1>2, <1>5, AgentConstants
  <2> HIDE DEF c
  <2> QED BY <1>1, <1>2, <1>3, <2>1, <2>2, <2>3, StartBatchKeepsInv
<1> QED BY <1>4, <1>5

\* A batch from the first photo has none before it.
LEMMA SendPhotosOfKeepsInv ==
  ASSUME AgentInv, NEW a \in Answers, SendPhotosOf(a)
  PROVE  AgentInv'
<1>1. PICK products \in SUBSET Units :
        /\ GetProducts(a, products)
        /\ \/ EndTool(a, FALSE) /\ UNCHANGED again
           \/ \E u \in products : PhotoCount[u] > 0 /\ StartBatch(a, u, 0)
  BY DEF SendPhotosOf
<1>2. stock' \in [Answers -> SUBSET Units] /\ fresh' \subseteq Answers
  BY <1>1, GetProductsType DEF AgentInv
<1>3. answer[a].step = "photos" /\ cursor' = cursor /\ delivered' = delivered
  BY DEF SendPhotosOf
<1>4. CASE EndTool(a, FALSE) /\ UNCHANGED again
  BY <1>2, <1>3, <1>4, EndToolKeepsInv
<1>5. ASSUME NEW u \in products, PhotoCount[u] > 0, StartBatch(a, u, 0)
      PROVE  AgentInv'
  <2>1. u \in Units /\ \A i \in 1..PhotoCount[u] : ~(i <= 0)
    BY AgentConstants
  <2> QED BY <1>2, <1>3, <1>5, <2>1, StartBatchKeepsInv
<1> QED BY <1>1, <1>4, <1>5

-----------------------------------------------------------------------------
(* The batch.                                                              *)

\* A delivery counts up, and no other photo's count changes.
LEMMA DeliverCounts ==
  ASSUME AgentInv, NEW a \in Answers, answer[a].step = "send", Deliver(a)
  PROVE  /\ delivered' = [u \in Units |-> delivered'[u]]
         /\ \A u \in Units : delivered'[u] \in [1..PhotoCount[u] -> 0..2]
         /\ PhotosStay
         /\ delivered'[answer[a].unit][answer[a].ix] > 0
<1> DEFINE u == answer[a].unit  i == answer[a].ix
           k == Least(delivered[u][i] + 1, 2)
           d == [delivered[u] EXCEPT ![i] = k]
<1>1. u \in Units /\ i \in 1..answer[a].end /\ answer[a].end <= PhotoCount[u] /\ PhotoCount[u] \in Nat
  BY AgentConstants DEF AgentInv, BatchesAreSent
<1>2. i \in 1..PhotoCount[u]
  <2>1. answer[a].end \in Nat
    BY DEF AgentInv, AgentTypeOK, Answer
  <2> QED BY <1>1, <2>1
<1>3. delivered[u] \in [1..PhotoCount[u] -> 0..2]
  BY <1>1 DEF AgentInv, AgentTypeOK
<1>4. delivered[u][i] \in 0..2
  BY <1>2, <1>3
<1>5. k \in 0..2 /\ k > 0
  BY <1>4 DEF Least
<1>6. delivered' = [delivered EXCEPT ![u] = d] /\ delivered = [v \in Units |-> delivered[v]]
  BY DEF Deliver, AgentInv, AgentTypeOK
<1> HIDE DEF k
<1>7. d \in [1..PhotoCount[u] -> 0..2] /\ d[i] = k /\ \A j \in 1..PhotoCount[u] : j # i => d[j] = delivered[u][j]
  BY <1>2, <1>3, <1>5
<1> HIDE DEF d
<1>8. /\ delivered' = [v \in Units |-> delivered'[v]]
      /\ delivered'[u] = d /\ \A v \in Units : v # u => delivered'[v] = delivered[v]
  BY <1>1, <1>6
<1> HIDE DEF u, i
<1>9. \A v \in Units : delivered'[v] \in [1..PhotoCount[v] -> 0..2]
  BY <1>7, <1>8 DEF AgentInv, AgentTypeOK
<1>10. PhotosStay
  BY <1>5, <1>7, <1>8 DEF PhotosStay
<1>11. delivered'[u][i] > 0
  BY <1>5, <1>7, <1>8
<1> QED BY <1>8, <1>9, <1>10, <1>11 DEF u, i

\* An image is sent; the last one's cursor counts the batch and those before.
LEMMA SendImageKeepsInv ==
  ASSUME AgentInv, NEW a \in Answers, SendImage(a)
  PROVE  AgentInv'
<1> DEFINE u == answer[a].unit
<1>1. /\ answer[a].step = "send" /\ Deliver(a) /\ answer[a] \in Answer /\ answer[a].proc \in AgentProcs
      /\ stock' = stock /\ fresh' = fresh /\ again' = again
  BY DEF SendImage, AgentInv, AgentTypeOK, Answer
<1>2. /\ u \in Units /\ PhotoCount[u] \in Nat
      /\ answer[a].ix \in Nat /\ answer[a].end \in Nat /\ answer[a].ix >= 1 /\ answer[a].ix <= answer[a].end
      /\ answer[a].end <= PhotoCount[u]
      /\ \A i \in 1..PhotoCount[u] : i < answer[a].ix => delivered[u][i] > 0
  BY <1>1, AgentConstants DEF AgentInv, BatchesAreSent, Answer
<1>3. /\ delivered' = [v \in Units |-> delivered'[v]]
      /\ \A v \in Units : delivered'[v] \in [1..PhotoCount[v] -> 0..2]
      /\ PhotosStay
      /\ delivered'[u][answer[a].ix] > 0
  BY <1>1, DeliverCounts
<1>4. \A i \in 1..PhotoCount[u] : i <= answer[a].ix => delivered'[u][i] > 0
  BY <1>2, <1>3 DEF PhotosStay
<1>5. CASE answer[a].ix = answer[a].end
  <2> DEFINE c == [unit |-> u, next |-> answer[a].end]
  <2>1. cursor' = [cursor EXCEPT ![answer[a].proc] = c] /\ EndTool(a, FALSE)
    BY <1>5 DEF SendImage
  <2>2. answer' \in [Answers -> Answer] /\ \A b \in Answers : Rests(b)
    BY <1>1, <2>1, EndToolRests
  <2>3. c \in Cursor /\ cursor' \in [AgentProcs -> Cursor]
    BY <1>1, <1>2, <2>1 DEF Cursor, AgentInv, AgentTypeOK
  <2>4. AgentTypeOK'
    BY <1>1, <1>3, <2>2, <2>3 DEF AgentInv, AgentTypeOK
  <2>5. BatchesAreSent'
    <3> SUFFICES ASSUME NEW b \in Answers, answer'[b].step = "send"
                 PROVE  /\ answer'[b].unit \in Units
                        /\ answer'[b].ix \in 1..answer'[b].end
                        /\ answer'[b].end <= PhotoCount[answer'[b].unit]
                        /\ \A i \in 1..PhotoCount[answer'[b].unit] :
                              i < answer'[b].ix => delivered'[answer'[b].unit][i] > 0
      BY DEF BatchesAreSent
    <3>1. answer'[b] = answer[b]
      BY <2>2 DEF Rests
    <3> QED BY <1>3, <3>1 DEF AgentInv, BatchesAreSent, PhotosStay
  <2>6. RoundsAreLeft'
    BY <2>2 DEF AgentInv, RoundsAreLeft, Rests
  <2>7. NoPhotoIsSkipped'
    <3> SUFFICES ASSUME NEW p \in AgentProcs, cursor'[p].unit # NoUnit,
                        NEW i \in 1..PhotoCount[cursor'[p].unit], i <= cursor'[p].next
                 PROVE  delivered'[cursor'[p].unit][i] > 0
      BY DEF NoPhotoIsSkipped
    <3>1. CASE p = answer[a].proc
      <4>1. cursor'[p] = c
        BY <1>1, <2>1, <3>1 DEF AgentInv, AgentTypeOK
      <4>2. cursor'[p].unit = u /\ cursor'[p].next = answer[a].ix
        BY <1>5, <4>1
      <4> QED BY <1>4, <4>2
    <3>2. CASE p # answer[a].proc
      <4>1. cursor'[p] = cursor[p] /\ cursor[p].unit \in Units
        BY <2>1, <2>3, <3>2 DEF AgentInv, AgentTypeOK, Cursor
      <4> QED BY <1>3, <4>1 DEF AgentInv, NoPhotoIsSkipped, PhotosStay
    <3> QED BY <3>1, <3>2
  <2> QED BY <2>4, <2>5, <2>6, <2>7 DEF AgentInv
<1>6. CASE answer[a].ix # answer[a].end
  <2> DEFINE m == answer[a].ix + 1
             r == [answer[a] EXCEPT !.ix = m]
  <2>1. answer' = [answer EXCEPT ![a] = r] /\ cursor' = cursor
    BY <1>6 DEF SendImage, NextImage
  <2>2. m \in Nat /\ m \in 1..answer[a].end /\ \A i \in 1..PhotoCount[u] : i < m => i <= answer[a].ix
    BY <1>2, <1>6
  <2>3. /\ r \in Answer /\ r.step = "send" /\ r.unit = u /\ r.ix = m /\ r.end = answer[a].end
        /\ r.round = answer[a].round
    <3> HIDE DEF m
    <3> QED BY <1>1, <2>2 DEF Answer
  <2> HIDE DEF r, m
  <2>4. /\ answer' \in [Answers -> Answer] /\ answer'[a] = r
        /\ \A b \in Answers : b # a => answer'[b] = answer[b]
    BY <2>1, <2>3 DEF AgentInv, AgentTypeOK
  <2>5. AgentTypeOK'
    BY <1>1, <1>3, <2>1, <2>4 DEF AgentInv, AgentTypeOK
  <2>6. BatchesAreSent'
    <3> SUFFICES ASSUME NEW b \in Answers, answer'[b].step = "send"
                 PROVE  /\ answer'[b].unit \in Units
                        /\ answer'[b].ix \in 1..answer'[b].end
                        /\ answer'[b].end <= PhotoCount[answer'[b].unit]
                        /\ \A i \in 1..PhotoCount[answer'[b].unit] :
                              i < answer'[b].ix => delivered'[answer'[b].unit][i] > 0
      BY DEF BatchesAreSent
    <3>1. CASE b = a
      BY <1>2, <1>4, <2>2, <2>3, <2>4, <3>1
    <3>2. CASE b # a
      BY <1>3, <2>4, <3>2 DEF AgentInv, BatchesAreSent, PhotosStay
    <3> QED BY <3>1, <3>2
  <2>7. RoundsAreLeft'
    BY <1>1, <2>3, <2>4 DEF AgentInv, RoundsAreLeft
  <2>8. NoPhotoIsSkipped'
    <3> SUFFICES ASSUME NEW p \in AgentProcs, cursor[p].unit # NoUnit,
                        NEW i \in 1..PhotoCount[cursor[p].unit], i <= cursor[p].next
                 PROVE  delivered'[cursor[p].unit][i] > 0
      BY <2>1 DEF NoPhotoIsSkipped
    <3>1. cursor[p].unit \in Units
      BY DEF AgentInv, AgentTypeOK, Cursor
    <3> QED BY <1>3, <3>1 DEF AgentInv, NoPhotoIsSkipped, PhotosStay
  <2> QED BY <2>5, <2>6, <2>7, <2>8 DEF AgentInv
<1> QED BY <1>5, <1>6

\* A send raises: the cursor stays where it was.
LEMMA SendImageRaisesKeepsInv ==
  ASSUME AgentInv, NEW a \in Answers, SendImageRaises(a)
  PROVE  AgentInv'
<1>1. /\ answer[a].step = "send" /\ EndTool(a, TRUE) /\ (Deliver(a) \/ UNCHANGED delivered)
      /\ cursor' = cursor /\ stock' = stock /\ fresh' = fresh
  BY DEF SendImageRaises
<1>2. answer' \in [Answers -> Answer] /\ \A b \in Answers : Rests(b)
  BY <1>1, EndToolRests
<1>3. again' \subseteq Units
  BY DEF SendImageRaises, AgentInv, AgentTypeOK, BatchesAreSent
<1>4. /\ delivered' = [v \in Units |-> delivered'[v]]
      /\ \A v \in Units : delivered'[v] \in [1..PhotoCount[v] -> 0..2]
      /\ PhotosStay
  <2>1. CASE Deliver(a)
    BY <1>1, <2>1, DeliverCounts
  <2>2. CASE UNCHANGED delivered
    BY <2>2 DEF AgentInv, AgentTypeOK, PhotosStay
  <2> QED BY <1>1, <2>1, <2>2
<1>5. AgentTypeOK'
  BY <1>1, <1>2, <1>3, <1>4 DEF AgentInv, AgentTypeOK
<1> QED BY <1>1, <1>2, <1>4, <1>5, QuietStep

\* A cache expires.
LEMMA CacheExpiresKeepsInv ==
  ASSUME AgentInv, NEW a \in Answers, CacheExpires(a)
  PROVE  AgentInv'
BY AnswerStep DEF CacheExpires, AgentInv, AgentTypeOK, Rests

\* A process stops: its cursors count nothing, its answers send nothing.
LEMMA StopProcessKeepsInv ==
  ASSUME AgentInv, NEW p \in AgentProcs, StopProcess(p)
  PROVE  AgentInv'
<1> DEFINE r == [NewAnswer EXCEPT !.step = "done"]
<1>1. r \in Answer /\ r.step = "done"
  BY NewAnswerType DEF NewAnswer
<1> HIDE DEF r
<1>2. /\ answer' = [a \in Answers |-> IF answer[a].step # "new" /\ answer[a].proc = p THEN r ELSE answer[a]]
      /\ cursor' = [cursor EXCEPT ![p] = NoCursor]
      /\ stock' = stock /\ fresh' = fresh /\ delivered' = delivered
  BY DEF StopProcess, r
<1>3. answer' \in [Answers -> Answer] /\ \A b \in Answers : Rests(b)
  BY <1>1, <1>2 DEF Rests, AgentInv, AgentTypeOK
<1>4. NoCursor \in Cursor /\ NoCursor.unit = NoUnit
  BY DEF NoCursor, Cursor
<1>5. cursor' \in [AgentProcs -> Cursor] /\ \A q \in AgentProcs : cursor'[q] = cursor[q] \/ cursor'[q].unit = NoUnit
  BY <1>2, <1>4 DEF AgentInv, AgentTypeOK
<1>6. again' \subseteq Units
  BY DEF StopProcess, AgentInv, AgentTypeOK, BatchesAreSent
<1>7. AgentTypeOK' /\ PhotosStay
  BY <1>2, <1>3, <1>5, <1>6 DEF AgentInv, AgentTypeOK, PhotosStay
<1> QED BY <1>3, <1>5, <1>7, QuietStep

-----------------------------------------------------------------------------
(* The theorems.                                                           *)

\* The invariant of the answers with tools: their types, and what a batch and
\* a cursor count as sent.
THEOREM AgentInvariant == AgentSpec => []AgentInv
<1>1. AgentInit => AgentInv
  <2> SUFFICES ASSUME AgentInit PROVE AgentInv
    OBVIOUS
  <2>1. NoCursor \in Cursor /\ NoCursor.unit = NoUnit
    BY DEF NoCursor, Cursor
  <2>2. NewAnswer.step = "new" /\ NewAnswer.round = 0 /\ 0 < MaxRounds
    BY AgentConstants DEF NewAnswer
  <2>3. \A u \in Units : [i \in 1..PhotoCount[u] |-> 0] \in [1..PhotoCount[u] -> 0..2]
    OBVIOUS
  <2>4. AgentTypeOK
    BY <2>1, <2>3, NewAnswerType DEF AgentInit, AgentTypeOK
  <2>5. BatchesAreSent /\ RoundsAreLeft
    BY <2>2 DEF AgentInit, BatchesAreSent, RoundsAreLeft
  <2>6. NoPhotoIsSkipped
    BY <2>1 DEF AgentInit, NoPhotoIsSkipped
  <2> QED BY <2>4, <2>5, <2>6 DEF AgentInv
<1>2. AgentInv /\ [AgentNext]_agentVars => AgentInv'
  <2> SUFFICES ASSUME AgentInv, [AgentNext]_agentVars PROVE AgentInv'
    OBVIOUS
  <2>1. ASSUME NEW a \in Answers, NEW p \in AgentProcs, NEW photo_only \in BOOLEAN,
               NEW tools \in ToolPolicy, Respond(a, p, photo_only, tools)
        PROVE  AgentInv'
    BY <2>1, RespondKeepsInv
  <2>2. ASSUME NEW a \in Answers, BuildPrompt(a) \/ Complete(a) \/ Reply(a) \/ SendFallback(a)
        PROVE  AgentInv'
    BY <2>2, BuildPromptKeepsInv, CompleteKeepsInv, ReplyKeepsInv, SendFallbackKeepsInv
  <2>3. ASSUME NEW a \in Answers, FollowUp(a) \/ SendPhotosOf(a)
        PROVE  AgentInv'
    BY <2>3, FollowUpKeepsInv, SendPhotosOfKeepsInv
  <2>4. ASSUME NEW a \in Answers, SendImage(a) \/ SendImageRaises(a) \/ CacheExpires(a)
        PROVE  AgentInv'
    BY <2>4, SendImageKeepsInv, SendImageRaisesKeepsInv, CacheExpiresKeepsInv
  <2>5. ASSUME NEW p \in AgentProcs, StopProcess(p)
        PROVE  AgentInv'
    BY <2>5, StopProcessKeepsInv
  <2>6. CASE UNCHANGED agentVars
    BY <2>6 DEF agentVars, AgentInv, AgentTypeOK, BatchesAreSent, RoundsAreLeft, NoPhotoIsSkipped
  <2> QED BY <2>1, <2>2, <2>3, <2>4, <2>5, <2>6 DEF AgentNext
<1> QED BY <1>1, <1>2, PTL DEF AgentSpec

\* The cursor never counts a photo the customer does not have.
THEOREM PhotosAreNotSkipped == AgentSpec => []NoPhotoIsSkipped
<1>1. AgentInv => NoPhotoIsSkipped
  BY DEF AgentInv
<1> QED BY <1>1, AgentInvariant, PTL

-----------------------------------------------------------------------------
(* EachPhotoOnce.                                                          *)

\* A cursor is written after a batch, which has a photo of the unit.
CursorsCount ==
    \A p \in AgentProcs : cursor[p].unit # NoUnit => cursor[p].next \in 1..PhotoCount[cursor[p].unit]

\* Of a unit with no reason to be sent again one answer at most sends photos,
\* one process at most has a cursor, and that answer runs there; no photo from
\* the next one of the batch on has been delivered, nor, between batches, any
\* behind the cursor.
SentOnce(u) ==
    /\ \A i \in 1..PhotoCount[u] : delivered[u][i] <= 1
    /\ \A a, b \in Sending(u) : a = b
    /\ \A p, q \in AgentProcs : cursor[p].unit = u /\ cursor[q].unit = u => p = q
    /\ \A a \in Sending(u) :
         /\ \A i \in 1..PhotoCount[u] : i >= answer[a].ix => delivered[u][i] = 0
         /\ \A p \in AgentProcs : cursor[p].unit = u => p = answer[a].proc
    /\ \A p \in AgentProcs : cursor[p].unit = u /\ Sending(u) = {} =>
         \A i \in 1..PhotoCount[u] : i > cursor[p].next => delivered[u][i] = 0

OnceInv == CursorsCount /\ \A u \in Units \ again : SentOnce(u)

\* The answer b is neither in a batch that begins nor in one that ends, unless
\* its unit has a reason to be sent again.
KeepsBatch(b) ==
    \/ answer'[b] = answer[b]
    \/ answer'[b].step # "send" /\ (answer[b].step = "send" => answer[b].unit \in again')

\* A step that starts no batch, ends none and delivers nothing, but for units
\* that may be sent again.
LEMMA OtherStepKeepsOnce ==
  ASSUME AgentInv, OnceInv, again \subseteq again', \A b \in Answers : KeepsBatch(b),
         \A u \in Units \ again' : delivered'[u] = delivered[u],
         \A p \in AgentProcs : cursor'[p] = cursor[p] \/ cursor'[p].unit = NoUnit
  PROVE  OnceInv'
<1>1. CursorsCount'
  BY DEF OnceInv, CursorsCount
<1>2. ASSUME NEW u \in Units, u \notin again' PROVE SentOnce(u)'
  <2>1. SentOnce(u) /\ delivered'[u] = delivered[u] /\ u # NoUnit
    BY <1>2, AgentConstants DEF OnceInv
  <2>2. Sending(u)' = Sending(u) /\ \A a \in Sending(u) : answer'[a] = answer[a]
    BY <1>2 DEF Sending, KeepsBatch
  <2>3. \A p \in AgentProcs : cursor'[p].unit = u => cursor'[p] = cursor[p]
    BY <2>1
  <2> QED BY <2>1, <2>2, <2>3 DEF SentOnce
<1> QED BY <1>1, <1>2 DEF OnceInv

\* The tool ends outside a batch.
LEMMA EndToolOutside ==
  ASSUME AgentInv, NEW a \in Answers, answer[a].step = "photos", EndTool(a, FALSE)
  PROVE  \A b \in Answers : KeepsBatch(b)
<1>1. \A b \in Answers : b # a => answer'[b] = answer[b]
  BY GoType, EndRoundType DEF EndTool, AgentInv, RoundsAreLeft, AnswerSteps
<1>2. answer'[a].step # "send"
  BY EndToolRests DEF Rests
<1> QED BY <1>1, <1>2 DEF KeepsBatch

\* A batch of a unit is its first, or goes on from its cursor, or there is
\* then a reason to send the unit again.
LEMMA StartBatchKeepsOnce ==
  ASSUME AgentInv, OnceInv, NEW a \in Answers, answer[a].step = "photos", NEW u \in Units, NEW n \in Nat,
         n < PhotoCount[u], n = 0 \/ (cursor[answer[a].proc].unit = u /\ cursor[answer[a].proc].next = n),
         StartBatch(a, u, n), cursor' = cursor, delivered' = delivered
  PROVE  OnceInv'
<1> DEFINE e == Least(PhotoCount[u], n + MaxImages)
           r == [answer[a] EXCEPT !.step = "send", !.unit = u, !.ix = n + 1, !.end = e]
<1>1. answer[a] \in Answer /\ answer[a].proc \in AgentProcs
  BY DEF AgentInv, AgentTypeOK, Answer
<1>2. r.step = "send" /\ r.unit = u /\ r.ix = n + 1 /\ r.proc = answer[a].proc
  <2> HIDE DEF e
  <2> QED BY <1>1 DEF Answer
<1>3. /\ answer' = [answer EXCEPT ![a] = r]
      /\ again' = IF Sending(u) # {} \/ (n = 0 /\ \E i \in Photos(u) : delivered[u][i] > 0)
                  THEN again \cup {u} ELSE again
  BY DEF StartBatch
<1> HIDE DEF r, e
<1>4. answer'[a] = r /\ \A b \in Answers : b # a => answer'[b] = answer[b]
  BY <1>3 DEF AgentInv, AgentTypeOK
<1>5. ASSUME NEW v \in Units, v \notin again', v # u PROVE SentOnce(v)'
  <2>1. SentOnce(v)
    BY <1>3, <1>5 DEF OnceInv
  <2>2. Sending(v)' = Sending(v) /\ \A b \in Sending(v) : answer'[b] = answer[b]
    BY <1>2, <1>4, <1>5 DEF Sending
  <2> QED BY <2>1, <2>2 DEF SentOnce
<1>6. ASSUME u \notin again' PROVE SentOnce(u)'
  <2>1. SentOnce(u) /\ Sending(u) = {} /\ (n = 0 => \A i \in 1..PhotoCount[u] : ~(delivered[u][i] > 0))
    BY <1>3, <1>6 DEF OnceInv
  <2>2. Sending(u)' = {a}
    BY <1>2, <1>4, <2>1 DEF Sending
  <2>3. u # NoUnit /\ \A i \in 1..PhotoCount[u] : delivered[u][i] \in 0..2
    BY AgentConstants DEF AgentInv, AgentTypeOK
  <2>4. CASE n = 0
    <3>1. \A i \in 1..PhotoCount[u] : delivered[u][i] = 0
      BY <2>1, <2>3, <2>4
    <3>2. ASSUME NEW p \in AgentProcs, cursor[p].unit = u PROVE FALSE
      <4>1. cursor[p].next \in 1..PhotoCount[u] /\ PhotoCount[u] \in Nat
        BY <2>3, <3>2, AgentConstants DEF OnceInv, CursorsCount
      <4>2. delivered[u][1] > 0
        BY <2>3, <3>2, <4>1 DEF AgentInv, NoPhotoIsSkipped
      <4> QED BY <3>1, <4>1, <4>2
    <3> QED BY <1>2, <1>4, <2>1, <2>2, <3>1, <3>2 DEF SentOnce
  <2>5. CASE cursor[answer[a].proc].unit = u /\ cursor[answer[a].proc].next = n
    <3>1. \A i \in 1..PhotoCount[u] : i >= n + 1 => delivered[u][i] = 0
      BY <1>1, <2>1, <2>5 DEF SentOnce
    <3>2. \A p \in AgentProcs : cursor[p].unit = u => p = answer[a].proc
      BY <1>1, <2>1, <2>5 DEF SentOnce
    <3> QED BY <1>2, <1>4, <2>1, <2>2, <3>1, <3>2 DEF SentOnce
  <2> QED BY <2>4, <2>5
<1>7. CursorsCount'
  BY DEF OnceInv, CursorsCount
<1> QED BY <1>5, <1>6, <1>7 DEF OnceInv

\* One image more; the last one of the batch leaves the cursor behind it.
LEMMA SendImageKeepsOnce ==
  ASSUME AgentInv, OnceInv, NEW a \in Answers, SendImage(a)
  PROVE  OnceInv'
<1>0. PICK u \in Units, n \in Nat : u = answer[a].unit /\ n = answer[a].ix
  BY DEF SendImage, AgentInv, AgentTypeOK, Answer, BatchesAreSent
<1> DEFINE k == Least(delivered[u][n] + 1, 2)
           d == [delivered[u] EXCEPT ![n] = k]
<1>1. /\ answer[a].step = "send" /\ answer[a] \in Answer /\ answer[a].proc \in AgentProcs
      /\ again' = again /\ delivered' = [delivered EXCEPT ![u] = d]
  BY <1>0 DEF SendImage, Deliver, AgentInv, AgentTypeOK, Answer
<1>2. /\ u \in Units /\ u # NoUnit /\ PhotoCount[u] \in Nat /\ n \in Nat /\ n >= 1
      /\ answer[a].end \in Nat /\ n <= answer[a].end /\ answer[a].end <= PhotoCount[u]
  BY <1>0, <1>1, AgentConstants DEF AgentInv, BatchesAreSent, Answer
<1>3. n \in 1..PhotoCount[u] /\ delivered[u] \in [1..PhotoCount[u] -> 0..2] /\ delivered[u][n] \in 0..2
  BY <1>2 DEF AgentInv, AgentTypeOK
<1>4. k \in 0..2 /\ (delivered[u][n] = 0 => k = 1)
  BY <1>3 DEF Least
<1> HIDE DEF k
<1>5. d[n] = k /\ \A i \in 1..PhotoCount[u] : i # n => d[i] = delivered[u][i]
  BY <1>3
<1> HIDE DEF d
<1>6. delivered'[u] = d /\ \A v \in Units : v # u => delivered'[v] = delivered[v]
  BY <1>1, <1>2 DEF AgentInv, AgentTypeOK
<1>7. a \in Sending(u)
  BY <1>0, <1>1 DEF Sending
\* What the unit has by now, if there is no reason to send it again.
<1>8. ASSUME u \notin again
      PROVE  /\ SentOnce(u) /\ Sending(u) = {a}
             /\ \A i \in 1..PhotoCount[u] : delivered'[u][i] <= 1
             /\ \A i \in 1..PhotoCount[u] : i > n => delivered'[u][i] = 0
  <2>1. SentOnce(u)
    BY <1>2, <1>8 DEF OnceInv
  <2>2. Sending(u) = {a} /\ \A i \in 1..PhotoCount[u] : i >= n => delivered[u][i] = 0
    BY <1>0, <1>7, <2>1 DEF SentOnce
  <2>3. k = 1
    BY <1>2, <1>3, <1>4, <2>2
  <2>4. \A i \in 1..PhotoCount[u] : delivered[u][i] <= 1
    BY <2>1 DEF SentOnce
  <2> QED BY <1>2, <1>5, <1>6, <2>1, <2>2, <2>3, <2>4
<1>9. CASE n = answer[a].end
  <2> DEFINE c == [unit |-> u, next |-> answer[a].end]
  <2>1. cursor' = [cursor EXCEPT ![answer[a].proc] = c] /\ EndTool(a, FALSE)
    BY <1>0, <1>9 DEF SendImage
  <2>2. c.unit = u /\ c.next = n
    BY <1>9
  <2> HIDE DEF c
  <2>3. cursor'[answer[a].proc] = c /\ \A p \in AgentProcs : p # answer[a].proc => cursor'[p] = cursor[p]
    BY <1>1, <2>1 DEF AgentInv, AgentTypeOK
  <2>4. answer'[a].step # "send" /\ \A b \in Answers : b # a => answer'[b] = answer[b]
    <3>1. \A b \in Answers : b # a => answer'[b] = answer[b]
      BY <1>1, <2>1, GoType, EndRoundType DEF EndTool, AgentInv, RoundsAreLeft, AnswerSteps
    <3>2. Rests(a)
      BY <1>1, <2>1, EndToolRests
    <3>3. answer'[a] # answer[a]
      <4>1. CASE answer[a].photo_only
        <5>1. Go(a, "reply")
          BY <2>1, <4>1 DEF EndTool
        <5> QED BY <1>1, <5>1, GoType DEF AgentInv, AnswerSteps
      <4>2. CASE ~answer[a].photo_only
        <5>1. EndRound(a) /\ answer[a].round < MaxRounds
          BY <1>1, <2>1, <4>2 DEF EndTool, AgentInv, RoundsAreLeft
        <5> QED BY <1>1, <5>1, EndRoundType DEF AgentInv
      <4> QED BY <4>1, <4>2
    <3> QED BY <3>1, <3>2, <3>3 DEF Rests
  <2>5. CursorsCount'
    BY <1>2, <1>3, <2>2, <2>3 DEF OnceInv, CursorsCount
  <2>6. ASSUME NEW v \in Units, v \notin again, v # u PROVE SentOnce(v)'
    <3>1. SentOnce(v) /\ delivered'[v] = delivered[v]
      BY <1>6, <2>6 DEF OnceInv
    <3>2. Sending(v)' = Sending(v) /\ \A b \in Sending(v) : answer'[b] = answer[b]
      BY <1>0, <2>4, <2>6 DEF Sending
    <3>3. \A p \in AgentProcs : cursor'[p].unit = v => cursor'[p] = cursor[p]
      BY <2>2, <2>3, <2>6
    <3> QED BY <3>1, <3>2, <3>3 DEF SentOnce
  <2>7. ASSUME u \notin again PROVE SentOnce(u)'
    <3>1. Sending(u)' = {}
      BY <1>8, <2>4, <2>7 DEF Sending
    <3>2. \A p \in AgentProcs : cursor'[p].unit = u => p = answer[a].proc
      BY <1>7, <1>8, <2>3, <2>7 DEF SentOnce
    <3> QED BY <1>8, <2>2, <2>3, <2>7, <3>1, <3>2 DEF SentOnce
  <2> QED BY <1>1, <2>5, <2>6, <2>7 DEF OnceInv
<1>10. CASE n # answer[a].end
  <2> DEFINE r == [answer[a] EXCEPT !.ix = n + 1]
  <2>1. cursor' = cursor /\ answer' = [answer EXCEPT ![a] = r]
    BY <1>0, <1>10 DEF SendImage, NextImage
  <2>2. r.step = "send" /\ r.unit = u /\ r.ix = n + 1 /\ r.proc = answer[a].proc
    BY <1>0, <1>1 DEF Answer
  <2> HIDE DEF r
  <2>3. answer'[a] = r /\ \A b \in Answers : b # a => answer'[b] = answer[b]
    BY <2>1 DEF AgentInv, AgentTypeOK
  <2>4. \A v \in Units : Sending(v)' = Sending(v)
    BY <1>0, <1>1, <2>2, <2>3 DEF Sending
  <2>5. ASSUME NEW v \in Units, v \notin again, v # u PROVE SentOnce(v)'
    <3>1. SentOnce(v) /\ delivered'[v] = delivered[v]
      BY <1>6, <2>5 DEF OnceInv
    <3>2. \A b \in Sending(v) : answer'[b] = answer[b]
      BY <1>0, <2>3, <2>5 DEF Sending
    <3> QED BY <2>1, <2>4, <3>1, <3>2 DEF SentOnce
  <2>6. ASSUME u \notin again PROVE SentOnce(u)'
    <3>1. Sending(u)' = {a}
      BY <1>2, <1>8, <2>4, <2>6
    <3>2. \A i \in 1..PhotoCount[u] : i >= n + 1 => delivered'[u][i] = 0
      BY <1>2, <1>8, <2>6
    <3>3. /\ \A p, q \in AgentProcs : cursor[p].unit = u /\ cursor[q].unit = u => p = q
          /\ \A p \in AgentProcs : cursor[p].unit = u => p = answer[a].proc
      BY <1>7, <1>8, <2>6 DEF SentOnce
    <3> QED BY <1>8, <2>1, <2>2, <2>3, <2>6, <3>1, <3>2, <3>3 DEF SentOnce
  <2>7. CursorsCount'
    BY <2>1 DEF OnceInv, CursorsCount
  <2> QED BY <1>1, <2>5, <2>6, <2>7 DEF OnceInv
<1> QED BY <1>9, <1>10

\* A step of the answer outside the batches.
LEMMA TextStepKeepsOnce ==
  ASSUME AgentInv, OnceInv, NEW a \in Answers,
         \/ \E p \in AgentProcs, photo_only \in BOOLEAN, tools \in ToolPolicy : Respond(a, p, photo_only, tools)
         \/ BuildPrompt(a) \/ Complete(a) \/ Reply(a) \/ SendFallback(a) \/ CacheExpires(a)
  PROVE  OnceInv'
<1>1. again' = again /\ delivered' = delivered /\ cursor' = cursor
  BY DEF Respond, BuildPrompt, Complete, Reply, SendFallback, CacheExpires
<1> SUFFICES \A b \in Answers : KeepsBatch(b)
  BY <1>1, OtherStepKeepsOnce
<1>2. ASSUME NEW s \in AnswerSteps \ {"send"}, Go(a, s), answer[a].step # "send"
      PROVE  \A b \in Answers : KeepsBatch(b)
  BY <1>2, GoType DEF AgentInv, KeepsBatch
<1>3. ASSUME NEW r, r.step # "send", answer[a].step # "send", answer' = [answer EXCEPT ![a] = r]
      PROVE  \A b \in Answers : KeepsBatch(b)
  BY <1>3 DEF AgentInv, AgentTypeOK, KeepsBatch
<1>4. CASE BuildPrompt(a) \/ SendFallback(a)
  BY <1>2, <1>4 DEF BuildPrompt, SendFallback, AnswerSteps
<1>5. CASE Complete(a)
  <2>1. answer[a].step = "llm"
    BY <1>5 DEF Complete
  <2>2. CASE Go(a, "reply") \/ Go(a, "fallback") \/ Go(a, "photos")
    BY <1>2, <2>1, <2>2 DEF AnswerSteps
  <2>3. CASE EndRound(a)
    <3>1. /\ \A b \in Answers : b # a => answer'[b] = answer[b]
          /\ answer'[a].step \in {"reply", "llm"}
      BY <2>1, <2>3, EndRoundType DEF AgentInv, RoundsAreLeft
    <3> QED BY <2>1, <3>1 DEF KeepsBatch
  <2> QED BY <1>5, <2>2, <2>3 DEF Complete
<1>6. CASE Reply(a)
  <2>1. answer[a].step = "reply"
    BY <1>6 DEF Reply
  <2>2. CASE Go(a, "done") \/ Go(a, "fallback")
    BY <1>2, <2>1, <2>2 DEF AnswerSteps
  <2> DEFINE r == [answer[a] EXCEPT !.attempt = answer[a].attempt + 1, !.round = 0, !.step = "llm"]
  <2>3. r.step # "send"
    BY DEF AgentInv, AgentTypeOK, Answer
  <2>4. CASE answer' = [answer EXCEPT ![a] = r]
    <3> HIDE DEF r
    <3> QED BY <1>3, <2>1, <2>3, <2>4
  <2> QED BY <1>6, <2>2, <2>4 DEF Reply
<1>7. CASE \E p \in AgentProcs, photo_only \in BOOLEAN, tools \in ToolPolicy : Respond(a, p, photo_only, tools)
  <2>1. PICK p \in AgentProcs, photo_only \in BOOLEAN, tools \in ToolPolicy : Respond(a, p, photo_only, tools)
    BY <1>7
  <2> DEFINE s == IF photo_only THEN "photos" ELSE "prompt"
             r == [answer[a] EXCEPT !.step = s, !.proc = p, !.photo_only = photo_only, !.tools = tools]
  <2>2. r.step # "send"
    BY DEF AgentInv, AgentTypeOK, Answer
  <2>3. answer' = [answer EXCEPT ![a] = r] /\ answer[a].step # "send"
    BY <2>1 DEF Respond
  <2> HIDE DEF r
  <2> QED BY <1>3, <2>2, <2>3
<1>8. CASE CacheExpires(a)
  BY <1>8 DEF CacheExpires, KeepsBatch
<1> QED BY <1>4, <1>5, <1>6, <1>7, <1>8

\* A send fails, or a process stops: the units in hand may be sent again.
LEMMA FailureKeepsOnce ==
  ASSUME AgentInv, OnceInv,
         (\E a \in Answers : SendImageRaises(a)) \/ (\E p \in AgentProcs : StopProcess(p))
  PROVE  OnceInv'
<1>1. ASSUME NEW a \in Answers, SendImageRaises(a) PROVE OnceInv'
  <2>1. /\ answer[a].step = "send" /\ EndTool(a, TRUE) /\ cursor' = cursor
        /\ again' = again \cup {answer[a].unit} /\ (Deliver(a) \/ UNCHANGED delivered)
    BY <1>1 DEF SendImageRaises
  <2>2. \A b \in Answers : b # a => answer'[b] = answer[b]
    BY <2>1, GoType, EndRoundType DEF EndTool, AgentInv, RoundsAreLeft, AnswerSteps
  <2>3. Rests(a)
    BY <2>1, EndToolRests
  <2>4. \A b \in Answers : KeepsBatch(b)
    BY <2>1, <2>2, <2>3 DEF Rests, KeepsBatch
  <2>5. \A u \in Units \ again' : delivered'[u] = delivered[u]
    BY <2>1 DEF Deliver, AgentInv, AgentTypeOK
  <2> QED BY <2>1, <2>4, <2>5, OtherStepKeepsOnce
<1>2. ASSUME NEW p \in AgentProcs, StopProcess(p) PROVE OnceInv'
  <2> DEFINE r == [NewAnswer EXCEPT !.step = "done"]
  <2>1. r.step = "done" /\ NoCursor.unit = NoUnit
    BY NewAnswerType DEF NewAnswer, NoCursor
  <2> HIDE DEF r
  <2>2. /\ answer' = [a \in Answers |-> IF answer[a].step # "new" /\ answer[a].proc = p THEN r ELSE answer[a]]
        /\ cursor' = [cursor EXCEPT ![p] = NoCursor] /\ delivered' = delivered
        /\ again' = again \cup {answer[a].unit : a \in {b \in Answers : answer[b].step = "send" /\ answer[b].proc = p}}
    BY <1>2 DEF StopProcess, r
  <2>3. \A b \in Answers : KeepsBatch(b)
    BY <2>1, <2>2 DEF KeepsBatch
  <2>4. \A q \in AgentProcs : cursor'[q] = cursor[q] \/ cursor'[q].unit = NoUnit
    BY <2>1, <2>2 DEF AgentInv, AgentTypeOK
  <2> QED BY <2>2, <2>3, <2>4, OtherStepKeepsOnce
<1> QED BY <1>1, <1>2

\* A batch begins, or the tool has nothing to send.
LEMMA PhotosKeepOnce ==
  ASSUME AgentInv, OnceInv, NEW a \in Answers, FollowUp(a) \/ SendPhotosOf(a)
  PROVE  OnceInv'
<1>1. answer[a].step = "photos" /\ cursor' = cursor /\ delivered' = delivered
  BY DEF FollowUp, SendPhotosOf
<1>2. CASE EndTool(a, FALSE) /\ UNCHANGED again
  BY <1>1, <1>2, EndToolOutside, OtherStepKeepsOnce
<1>3. CASE FollowUp(a) /\ ~(EndTool(a, FALSE) /\ UNCHANGED again)
  <2> DEFINE c == cursor[answer[a].proc]
  <2>1. answer[a].proc \in AgentProcs /\ c.unit # NoUnit
        /\ ~(c.next >= PhotoCount[c.unit]) /\ StartBatch(a, c.unit, c.next)
    BY <1>3 DEF FollowUp, AgentInv, AgentTypeOK, Answer
  <2>2. c.unit \in Units /\ c.next \in Nat
    BY <2>1 DEF AgentInv, AgentTypeOK, Cursor
  <2>3. c.next < PhotoCount[c.unit]
    BY <2>1, <2>2, AgentConstants
  <2> QED BY <1>1, <2>1, <2>2, <2>3, StartBatchKeepsOnce
<1>4. CASE SendPhotosOf(a) /\ ~(EndTool(a, FALSE) /\ UNCHANGED again)
  <2>1. PICK u \in Units : PhotoCount[u] > 0 /\ StartBatch(a, u, 0)
    BY <1>4 DEF SendPhotosOf
  <2> QED BY <1>1, <2>1, StartBatchKeepsOnce, AgentConstants
<1> QED BY <1>2, <1>3, <1>4

\* A photo comes once, unless its unit has a reason to be sent again.
THEOREM PhotosComeOnce == AgentSpec => []EachPhotoOnce
<1>1. AgentInit => OnceInv
  <2> SUFFICES ASSUME AgentInit PROVE OnceInv
    OBVIOUS
  <2>1. \A p \in AgentProcs : cursor[p].unit = NoUnit
    BY DEF AgentInit, NoCursor
  <2>2. \A a \in Answers : answer[a].step = "new"
    BY DEF AgentInit, NewAnswer
  <2>3. \A u \in Units : u # NoUnit /\ Sending(u) = {} /\ \A i \in 1..PhotoCount[u] : delivered[u][i] = 0
    BY <2>2, AgentConstants DEF AgentInit, Sending
  <2> QED BY <2>1, <2>3 DEF OnceInv, CursorsCount, SentOnce
<1>2. AgentInv /\ OnceInv /\ [AgentNext]_agentVars => OnceInv'
  <2> SUFFICES ASSUME AgentInv, OnceInv, [AgentNext]_agentVars PROVE OnceInv'
    OBVIOUS
  <2>1. CASE UNCHANGED agentVars
    BY <2>1, OtherStepKeepsOnce DEF agentVars, KeepsBatch
  <2>2. CASE AgentNext
    BY <2>2, TextStepKeepsOnce, PhotosKeepOnce, SendImageKeepsOnce, FailureKeepsOnce DEF AgentNext
  <2> QED BY <2>1, <2>2
<1>3. OnceInv => EachPhotoOnce
  BY DEF OnceInv, SentOnce, EachPhotoOnce
<1> QED BY <1>1, <1>2, <1>3, AgentInvariant, PTL DEF AgentSpec
-----------------------------------------------------------------------------
(***************************************************************************)
(* Who is told of a handoff                                                *)
(***************************************************************************)

\* Of rows there is a first.
LEMMA FirstIsOneOfThem ==
    ASSUME NEW S, S \subseteq Nat, S # {}
    PROVE  First(S) \in S
<1> DEFINE less == {ss \in Nat \X Nat : ss[1] < ss[2]}
<1>1. less = OpToRel(<, Nat) BY DEF OpToRel
<1>2. IsWellFoundedOn(less, Nat) BY <1>1, NatLessThanWellFounded
<1>3. PICK x \in S : \A y \in S : ~ (<<y, x>> \in less)
    <2> HIDE DEF less
    <2> QED BY <1>2, WFMin
<1>4. ASSUME NEW y \in S
      PROVE  x <= y
    <2>1. x \in Nat /\ y \in Nat OBVIOUS
    <2>2. y < x => <<y, x>> \in less BY <2>1
    <2> HIDE DEF less
    <2>3. ~ (y < x) BY <1>3, <2>2
    <2> QED BY <2>1, <2>3
<1> QED BY <1>4 DEF First

\* A search looks up one of the names the lead has, if it has any.
LEMMA SoughtIsGiven ==
    ASSUME NEW search, NEW by \in {"key", "centro", "city"}
    PROVE  IF Sought(search, by) = NoName THEN Given(by) = {} ELSE Sought(search, by) \in Given(by)
<1> DEFINE names == NamesFor(search, by)
           given == {n \in DOMAIN names : names[n] # NoName}
           some(n) == names[n]
<1>1. /\ DOMAIN names \subseteq Nat
      /\ \A n \in DOMAIN names : names[n] # NoName => names[n] \in Given(by)
      /\ \A name \in Given(by) : \E n \in DOMAIN names : names[n] = name
    <2> DEFINE c == fields["context"]
               a == fields["attributes"]
    <2>1. CASE by = "key"
        <3>1. names = IF search = "route"
                      THEN <<a["sucursal_key"], a["branch_key"], c["sucursal_key"], c["branch_key"]>>
                      ELSE <<c["branch_key"], c["sucursal_key"], a["branch_key"], a["sucursal_key"]>>
            BY <2>1 DEF NamesFor
        <3>2. DOMAIN names = 1..4 BY <3>1
        <3>3. Given(by) = {a["branch_key"], a["sucursal_key"], c["branch_key"], c["sucursal_key"]} \ {NoName}
            BY <2>1 DEF Given
        <3>4. {names[1], names[2], names[3], names[4]} =
                  {a["branch_key"], a["sucursal_key"], c["branch_key"], c["sucursal_key"]}
            BY <3>1
        <3> HIDE DEF names, a, c
        <3>5. DOMAIN names = {1, 2, 3, 4} BY <3>2
        <3> QED BY <3>3, <3>4, <3>5
    <2>2. CASE by # "key"
        <3>1. names = IF search = "route" THEN <<a[by], c[by]>> ELSE <<c[by], a[by]>>
            BY <2>2 DEF NamesFor
        <3>2. DOMAIN names = 1..2 BY <3>1
        <3>3. Given(by) = {a[by], c[by]} \ {NoName} BY <2>2 DEF Given
        <3>4. {names[1], names[2]} = {a[by], c[by]} BY <3>1
        <3> HIDE DEF names, a, c
        <3>5. DOMAIN names = {1, 2} BY <3>2
        <3> QED BY <3>3, <3>4, <3>5
    <2> QED BY <2>1, <2>2
<1>2. Sought(search, by) = IF given = {} THEN NoName ELSE names[First(given)] BY DEF Sought
<1> HIDE DEF names
<1>3. CASE given = {} BY <1>1, <1>2, <1>3 DEF Given
<1>4. CASE given # {}
    <2>1. First(given) \in given BY <1>1, <1>4, FirstIsOneOfThem
    <2> QED BY <1>1, <1>2, <1>4, <2>1
<1> QED BY <1>3, <1>4

\* Where the names agree, whichever of them is looked up hits what they all do.
LEMMA AnyOfThemHits ==
    ASSUME NEW search, NEW by \in {"key", "centro", "city"}, AgreeOn(by)
    PROVE  IF Sought(search, by) = NoName THEN Hits(by) = {}
           ELSE Matches(LoadFromSheet(sheet), by, Sought(search, by)) = Hits(by)
<1>1. Given(by) = {} => Hits(by) = {} BY DEF Hits
<1> QED BY <1>1, SoughtIsGiven DEF AgreeOn

\* Names that hit nothing agree.
LEMMA NoHitsAgree ==
    ASSUME NEW by, Hits(by) = {}
    PROVE  AgreeOn(by)
BY DEF Hits, AgreeOn

\* The branch of the lead: by its keys, else by its centros, else the first.
TheBranch ==
    LET at == IF Hits("key") # {} THEN First(Hits("key"))
              ELSE IF Hits("centro") # {} THEN First(Hits("centro"))
              ELSE First(DOMAIN LoadFromSheet(sheet))
    IN LoadFromSheet(sheet)[at].key

\* Both searches are on the way to that branch, or have found it; what was
\* told was told to it.
BoundForOne ==
    (Placed \/ Unplaced) /\ ~misread =>
        /\ seek \in {"centro", "city", "any"} => Hits("key") = {}
        /\ seek \in {"city", "any"} => Hits("centro") = {}
        /\ seek = "found" => chosen.key = TheBranch
        /\ \A t \in told : t[2] = TheBranch

RoutingInv ==
    /\ cacheOn => cached = LoadFromSheet(sheet)
    /\ \E key, phones : chosen = [key |-> key, phones |-> phones]
    /\ BoundForOne

\* The sheet and the lead stay what they are during a handoff.
LEMMA RoutingFrame ==
    ASSUME UNCHANGED <<sheet, fields>>
    PROVE  /\ Placed' <=> Placed
           /\ Unplaced' <=> Unplaced
           /\ (Hits("key") = {})' <=> Hits("key") = {}
           /\ (Hits("centro") = {})' <=> Hits("centro") = {}
           /\ TheBranch' = TheBranch
<1>1. PICK L : L = LoadFromSheet(sheet) /\ L = LoadFromSheet(sheet)'
    OBVIOUS
<1>2. /\ Given("key")' = Given("key")
      /\ Given("centro")' = Given("centro")
      /\ Given("city")' = Given("city")
    BY DEF Given
<1>3. /\ Hits("key")' = Hits("key")
      /\ Hits("centro")' = Hits("centro")
      /\ Hits("city")' = Hits("city")
    BY <1>2 DEF Hits
<1>4. AgreeOn("key")' <=> AgreeOn("key") BY <1>1, <1>2, <1>3 DEF AgreeOn
<1>5. AgreeOn("centro")' <=> AgreeOn("centro") BY <1>1, <1>2, <1>3 DEF AgreeOn
<1>6. Placed' <=> Placed BY <1>3, <1>4, <1>5 DEF Placed
<1>7. Unplaced' <=> Unplaced BY <1>1, <1>3 DEF Unplaced
<1>8. PICK atKey, atCentro : /\ atKey = Hits("key") /\ atKey = Hits("key")'
                             /\ atCentro = Hits("centro") /\ atCentro = Hits("centro")'
    BY <1>3
<1>9. TheBranch = L[IF atKey # {} THEN First(atKey)
                    ELSE IF atCentro # {} THEN First(atCentro) ELSE First(DOMAIN L)].key
    BY <1>1, <1>8 DEF TheBranch
<1>10. TheBranch' = L[IF atKey # {} THEN First(atKey)
                      ELSE IF atCentro # {} THEN First(atCentro) ELSE First(DOMAIN L)].key
    BY <1>1, <1>8 DEF TheBranch
<1> QED BY <1>3, <1>6, <1>7, <1>9, <1>10

LEMMA RoutingStarts == RoutingInit => RoutingInv
BY DEF RoutingInit, RoutingInv, BoundForOne, NotChosen

\* A step of the handoff that reads no branch.
LEMMA ToldAsBefore ==
    ASSUME RoutingInv, UNCHANGED <<sheet, fields, misread, cached>>, cacheOn' => cacheOn,
           \E key, phones : chosen' = [key |-> key, phones |-> phones],
           \/ seek' = "key"
           \/ /\ UNCHANGED seek /\ chosen'.key = chosen.key,
           \A t \in told' : t \in told \/ (seek = "found" /\ t[2] = chosen.key)
    PROVE  RoutingInv'
<1>1. PICK b : b = TheBranch /\ b = TheBranch' BY RoutingFrame
<1>2. LoadFromSheet(sheet)' = LoadFromSheet(sheet) OBVIOUS
<1>3. SUFFICES ASSUME Placed \/ Unplaced, ~misread
               PROVE  /\ seek' \in {"centro", "city", "any"} => Hits("key") = {}
                      /\ seek' \in {"city", "any"} => Hits("centro") = {}
                      /\ seek' = "found" => chosen'.key = b
                      /\ \A t \in told' : t[2] = b
    BY <1>1, <1>2, RoutingFrame DEF RoutingInv, BoundForOne
<1>4. /\ seek \in {"centro", "city", "any"} => Hits("key") = {}
      /\ seek \in {"city", "any"} => Hits("centro") = {}
      /\ seek = "found" => chosen.key = b
      /\ \A t \in told : t[2] = b
    BY <1>1, <1>3 DEF RoutingInv, BoundForOne
<1> QED BY <1>4

\* A lookup is by an attribute no earlier one of which hits, among all the
\* branches of the sheet when it was read.
LEMMA LookupStep ==
    ASSUME RoutingInv, NEW readable \in BOOLEAN, Lookup(readable)
    PROVE  RoutingInv'
<1>1. PICK b : b = TheBranch /\ b = TheBranch' BY RoutingFrame DEF Lookup
<1>2. PICK L : L = LoadFromSheet(sheet) /\ L = LoadFromSheet(sheet)' BY DEF Lookup
<1>3. cacheOn' => cached' = L BY <1>2 DEF Lookup, ListBranches, RoutingInv
<1>4. \E key, phones : chosen' = [key |-> key, phones |-> phones]
    BY DEF Lookup, RoutingInv, NextPhase, NotChosen
<1>5. ASSUME Placed \/ Unplaced, ~misread'
      PROVE  /\ seek' \in {"centro", "city", "any"} => Hits("key") = {}
             /\ seek' \in {"city", "any"} => Hits("centro") = {}
             /\ seek' = "found" => chosen'.key = b
             /\ \A t \in told : t[2] = b
    <2>1. ~misread /\ cached' = L
        BY <1>2, <1>5 DEF Lookup, ListBranches, RoutingInv
    <2>2. /\ seek \in {"centro", "city", "any"} => Hits("key") = {}
          /\ seek \in {"city", "any"} => Hits("centro") = {}
          /\ \A t \in told : t[2] = b
        BY <1>1, <1>5, <2>1 DEF RoutingInv, BoundForOne
    <2>3. seek \in {"key", "centro", "city", "any"} /\ (seek # "any" => Sought(phase, seek) # NoName)
        BY DEF Lookup, Searching
    <2>4. PICK hits : /\ hits = IF seek = "any" THEN Otherwise(L) ELSE Matches(L, seek, Sought(phase, seek))
                      /\ \/ /\ hits # {}
                            /\ chosen' = [key |-> L[First(hits)].key, phones |-> L[First(hits)].phones]
                            /\ seek' = "found"
                         \/ hits = {} /\ seek # "any" /\ seek' = SeekNext
                         \/ hits = {} /\ seek = "any" /\ seek' = "key"
        <3>1. \/ /\ (IF seek = "any" THEN Otherwise(cached') ELSE Matches(cached', seek, Sought(phase, seek))) # {}
                 /\ chosen' = [key |-> cached'[First(IF seek = "any" THEN Otherwise(cached') ELSE Matches(cached', seek, Sought(phase, seek)))].key,
                               phones |-> cached'[First(IF seek = "any" THEN Otherwise(cached') ELSE Matches(cached', seek, Sought(phase, seek)))].phones]
                 /\ seek' = "found"
              \/ (IF seek = "any" THEN Otherwise(cached') ELSE Matches(cached', seek, Sought(phase, seek))) = {}
                 /\ seek # "any" /\ seek' = SeekNext
              \/ (IF seek = "any" THEN Otherwise(cached') ELSE Matches(cached', seek, Sought(phase, seek))) = {}
                 /\ seek = "any" /\ seek' = "key"
            BY DEF Lookup, NextPhase
        <3> QED BY <2>1, <3>1
    <2>5. chosen'.key = L[First(hits)].key \/ seek' # "found" BY <2>3, <2>4 DEF SeekNext
    <2>6. CASE seek = "key"
        <3>1. AgreeOn("key") BY <1>5, NoHitsAgree DEF Placed, Unplaced
        <3>2. hits = Hits("key") BY <1>2, <2>3, <2>4, <2>6, <3>1, AnyOfThemHits
        <3>3. Hits("key") # {} => b = L[First(hits)].key BY <1>1, <1>2, <3>2 DEF TheBranch
        <3>4. SeekNext = "centro" BY <2>6 DEF SeekNext
        <3> QED BY <2>2, <2>4, <2>5, <2>6, <3>2, <3>3, <3>4
    <2>7. CASE seek = "centro"
        <3>1. AgreeOn("centro") BY <1>5, <2>2, <2>7, NoHitsAgree DEF Placed, Unplaced
        <3>2. hits = Hits("centro") BY <1>2, <2>3, <2>4, <2>7, <3>1, AnyOfThemHits
        <3>3. Hits("centro") # {} => b = L[First(hits)].key
            BY <1>1, <1>2, <2>2, <2>7, <3>2 DEF TheBranch
        <3>4. SeekNext \in {"city", "any"} BY <2>7 DEF SeekNext
        <3> QED BY <2>2, <2>4, <2>5, <2>7, <3>2, <3>3, <3>4
    <2>8. ASSUME seek \in {"city", "any"} PROVE Unplaced
        BY <1>5, <2>2, <2>8 DEF Placed
    <2>9. CASE seek = "city"
        <3>1. hits = {}
            BY <1>2, <2>3, <2>4, <2>8, <2>9, NoHitsAgree, AnyOfThemHits DEF Unplaced
        <3>2. SeekNext = "any" BY <2>9 DEF SeekNext
        <3> QED BY <2>2, <2>4, <2>9, <3>1, <3>2
    <2>10. CASE seek = "any"
        <3>1. hits = DOMAIN L BY <1>2, <2>4, <2>8, <2>10 DEF Unplaced, Otherwise
        <3>2. b = L[First(hits)].key BY <1>1, <1>2, <2>2, <2>10, <3>1 DEF TheBranch
        <3> QED BY <2>2, <2>4, <2>5, <2>10, <3>2
    <2> QED BY <2>3, <2>6, <2>7, <2>9, <2>10
<1>6. UNCHANGED <<sheet, fields, told>> BY DEF Lookup
<1> QED BY <1>1, <1>2, <1>3, <1>4, <1>5, <1>6, RoutingFrame DEF RoutingInv, BoundForOne

\* A name that is not there hits nothing, and the others are not there either.
LEMMA SkipStep ==
    ASSUME RoutingInv, SkipLookup
    PROVE  RoutingInv'
<1>1. PICK b : b = TheBranch /\ b = TheBranch' BY RoutingFrame DEF SkipLookup
<1>2. UNCHANGED <<sheet, fields, cached, cacheOn, chosen, told, misread>> BY DEF SkipLookup
<1>3. LoadFromSheet(sheet)' = LoadFromSheet(sheet) BY <1>2
<1>4. \/ seek = "key" /\ seek' = "centro"
      \/ seek = "centro" /\ seek' \in {"city", "any"}
      \/ seek = "city" /\ seek' = "any"
    BY DEF SkipLookup, Searching, SeekNext
<1>5. Given(seek) = {} BY <1>4, SoughtIsGiven DEF SkipLookup
<1>6. Hits(seek) = {} BY <1>5 DEF Hits
<1>7. ASSUME Placed \/ Unplaced, ~misread
      PROVE  /\ seek' \in {"centro", "city", "any"} => Hits("key") = {}
             /\ seek' \in {"city", "any"} => Hits("centro") = {}
             /\ \A t \in told : t[2] = b
    BY <1>1, <1>4, <1>6, <1>7 DEF RoutingInv, BoundForOne
<1> QED BY <1>1, <1>2, <1>3, <1>4, <1>7, RoutingFrame DEF RoutingInv, BoundForOne

\* The branch stays, and its other phones.
LEMMA PassFacts ==
    ASSUME PassPhone, NEW key, NEW phones, chosen = [key |-> key, phones |-> phones]
    PROVE  \E rest : /\ chosen' = [key |-> key, phones |-> rest]
                     /\ DOMAIN rest \subseteq DOMAIN phones
                     /\ \A n \in DOMAIN rest : rest[n] = phones[n]
<1> DEFINE rest == Restrict(phones, Untold \ {First(Untold)})
<1>1. Untold = DOMAIN phones BY DEF Untold
<1>2. chosen' = [key |-> key, phones |-> rest] BY DEF PassPhone
<1>3. DOMAIN rest \subseteq DOMAIN phones /\ \A n \in DOMAIN rest : rest[n] = phones[n]
    BY <1>1 DEF Restrict
<1> QED BY <1>2, <1>3

LEMMA RoutingStep ==
    ASSUME RoutingInv, [RoutingNext]_routingVars
    PROVE  RoutingInv'
<1>1. PICK key, phones : chosen = [key |-> key, phones |-> phones] BY DEF RoutingInv
<1>2. CASE SkipLookup BY <1>2, SkipStep
<1>3. CASE \E readable \in BOOLEAN : Lookup(readable) BY <1>3, LookupStep
<1>4. CASE TellPhone
    <2>1. \E rest : chosen' = [key |-> key, phones |-> rest] BY <1>1, <1>4, PassFacts DEF TellPhone
    <2>2. \E phone : seek = "found" /\ told' = told \cup {<<phase, key, phone>>}
        BY <1>1, <1>4 DEF TellPhone, Telling
    <2>3. UNCHANGED <<sheet, fields, cached, cacheOn, seek, misread>> BY <1>4 DEF TellPhone
    <2>4. \A t \in told' : t \in told \/ (seek = "found" /\ t[2] = chosen.key) BY <1>1, <2>2
    <2>5. chosen'.key = chosen.key BY <1>1, <2>1
    <2> QED BY <2>1, <2>3, <2>4, <2>5, ToldAsBefore
<1>5. CASE TellRaises
    <2>1. CASE PassPhone /\ UNCHANGED seek
        <3>1. \E rest : chosen' = [key |-> key, phones |-> rest] BY <1>1, <2>1, PassFacts
        <3>2. chosen'.key = chosen.key BY <1>1, <3>1
        <3>3. UNCHANGED <<sheet, fields, cached, cacheOn, told, misread>> BY <1>5 DEF TellRaises
        <3> QED BY <2>1, <3>1, <3>2, <3>3, ToldAsBefore
    <2>2. CASE NextPhase("failed")
        BY <1>5, <2>2, ToldAsBefore DEF TellRaises, NextPhase, NotChosen
    <2> QED BY <1>5, <2>1, <2>2 DEF TellRaises
<1>6. CASE AllTold BY <1>6, ToldAsBefore DEF AllTold, NextPhase, NotChosen
<1>7. CASE HandoffStep
    <2>1. CASE UNCHANGED <<seek, chosen>> BY <1>1, <1>7, <2>1, ToldAsBefore DEF HandoffStep
    <2>2. CASE seek' = "key" /\ chosen' = NotChosen
        BY <1>7, <2>2, ToldAsBefore DEF HandoffStep, NotChosen
    <2>3. CASE phase = "summary" BY <1>7, <2>1, <2>3 DEF HandoffStep
    <2>4. CASE phase # "summary"
        <3>1. \E p \in Phases : NextPhase(p) BY <1>7, <2>4, Zenon DEF HandoffStep, Phases, Lookups
        <3> QED BY <2>2, <3>1 DEF NextPhase
    <2> QED BY <2>3, <2>4
<1>8. CASE HandoffRaises BY <1>8, ToldAsBefore DEF HandoffRaises, NextPhase, NotChosen
<1>9. CASE BranchCacheExpires BY <1>1, <1>9, ToldAsBefore DEF BranchCacheExpires
<1>10. CASE UNCHANGED routingVars BY <1>1, <1>10, ToldAsBefore DEF routingVars
<1> QED BY <1>2, <1>3, <1>4, <1>5, <1>6, <1>7, <1>8, <1>9, <1>10 DEF RoutingNext

\* notify_agent and _resolve_branch_phones tell the same branch of a handoff,
\* wherever a lookup falls between reads of the sheet and whatever raises,
\* whatever names the session and the lead have of it, unless these contradict
\* one another, or it is by what only one of the searches knows, or a read
\* failed.
THEOREM OneBranch == RoutingSpec => []OneBranchIsTold
<1>1. RoutingInv => OneBranchIsTold
    <2> SUFFICES ASSUME RoutingInv, Placed \/ Unplaced, ~misread,
                        NEW s \in told, NEW t \in told
                 PROVE  s[2] = t[2]
        BY DEF OneBranchIsTold
    <2>1. \A r \in told : r[2] = TheBranch BY DEF RoutingInv, BoundForOne
    <2> QED BY <2>1
<1> QED BY <1>1, RoutingStarts, RoutingStep, PTL DEF RoutingSpec

-----------------------------------------------------------------------------
(***************************************************************************)
(* The types of the routing                                                *)
(***************************************************************************)

KeysOf(branches) == {branches[i].key : i \in DOMAIN branches}
PhonesOf(branches) == UNION {Range(branches[i].phones) : i \in DOMAIN branches}

\* Branches and their phones are numbered after rows.
Numbered(branches) ==
    /\ DOMAIN branches \subseteq Nat
    /\ \A i \in DOMAIN branches : DOMAIN branches[i].phones \subseteq Nat

LEMMA SheetIsNumbered ==
    ASSUME NEW rows \in Sheets
    PROVE  Numbered(LoadFromSheet(rows))
BY RoutingConstants DEF Numbered, LoadFromSheet

\* What is left of the branch that was found is of a branch that was read.
ChosenIsRead ==
    \E key, phones :
        /\ chosen = [key |-> key, phones |-> phones]
        /\ DOMAIN phones \subseteq Nat
        /\ \A n \in DOMAIN phones : phones[n] \in PhonesOf(cached)
        /\ seek = "found" => key \in KeysOf(cached)

RoutingTyped ==
    /\ RoutingTypeOK
    /\ ChosenIsRead

LEMMA NoneIsChosen ==
    \E phones : NotChosen = [key |-> NoName, phones |-> phones] /\ DOMAIN phones = {}
<1>1. DOMAIN << >> = {} OBVIOUS
<1> QED BY <1>1 DEF NotChosen

LEMMA RoutingTypedStarts == RoutingInit => RoutingTyped
<1> SUFFICES ASSUME RoutingInit PROVE RoutingTyped OBVIOUS
<1>1. cacheOn \in BOOLEAN /\ misread \in BOOLEAN BY Zenon DEF RoutingInit
<1>3. told = {} /\ cached = << >> /\ sheet \in Sheets /\ fields \in LeadFields BY DEF RoutingInit
<1>4. phase \in Phases /\ seek \in {"key", "centro", "city", "any", "found"}
    BY DEF RoutingInit, Phases, Lookups
<1>5. RoutingTypeOK BY <1>1, <1>3, <1>4, Zenon DEF RoutingTypeOK
<1>2. ChosenIsRead
    <2>1. chosen = NotChosen /\ seek # "found" BY DEF RoutingInit
    <2> QED BY <2>1, NoneIsChosen DEF ChosenIsRead
<1> QED BY <1>2, <1>5 DEF RoutingTyped

\* A step that reads no branch tells one of those phones or none, and has
\* what is left of them for the next step.
LEMMA TypedAsBefore ==
    ASSUME RoutingTyped, UNCHANGED <<sheet, fields, misread, cached>>, cacheOn' \in BOOLEAN,
           phase' \in Phases, seek' \in {"key", "centro", "city", "any", "found"},
           seek' = "found" => seek = "found",
           \A key, phones : chosen = [key |-> key, phones |-> phones] =>
               \E rest : /\ \/ chosen' = [key |-> key, phones |-> rest]
                            \/ seek' # "found" /\ chosen' = [key |-> NoName, phones |-> rest]
                        /\ DOMAIN rest \subseteq DOMAIN phones
                        /\ \A n \in DOMAIN rest : rest[n] = phones[n],
           told' \subseteq Lookups \X KeysOf(cached) \X PhonesOf(cached)
    PROVE  RoutingTyped'
<1>1. RoutingTypeOK'
    <2>1. /\ sheet \in Sheets /\ fields \in LeadFields
          /\ cached \in {<< >>, LoadFromSheet(sheet)}
          /\ misread \in BOOLEAN
        BY DEF RoutingTyped, RoutingTypeOK
    <2>2. cached' \in {<< >>, LoadFromSheet(sheet')} BY <2>1
    <2>3. misread' \in BOOLEAN BY <2>1
    <2>4. PICK P, K : /\ P = PhonesOf(cached) /\ P = PhonesOf(cached')
                      /\ K = KeysOf(cached) /\ K = KeysOf(cached')
        OBVIOUS
    <2>5. told' \subseteq Lookups \X KeysOf(cached') \X PhonesOf(cached') BY <2>4
    <2> QED BY <2>1, <2>2, <2>3, <2>5, Zenon DEF RoutingTypeOK, KeysOf, PhonesOf
<1>2. PICK key, phones : /\ chosen = [key |-> key, phones |-> phones]
                         /\ DOMAIN phones \subseteq Nat
                         /\ \A n \in DOMAIN phones : phones[n] \in PhonesOf(cached)
                         /\ seek = "found" => key \in KeysOf(cached)
    BY DEF RoutingTyped, ChosenIsRead
<1>3. PICK P, K : P = PhonesOf(cached) /\ P = PhonesOf(cached)' /\ K = KeysOf(cached) /\ K = KeysOf(cached)'
    OBVIOUS
<1>4. ChosenIsRead' BY <1>2, <1>3 DEF ChosenIsRead
<1> QED BY <1>1, <1>4 DEF RoutingTyped

\* A lookup finds a branch of those it has just read, or none.
LEMMA LookupTyped ==
    ASSUME RoutingTyped, NEW readable \in BOOLEAN, Lookup(readable)
    PROVE  RoutingTyped'
<1>1. PICK L : L = LoadFromSheet(sheet) /\ L = LoadFromSheet(sheet)' BY DEF Lookup
<1>2. Numbered(L) /\ sheet \in Sheets /\ fields \in LeadFields
    BY <1>1, SheetIsNumbered DEF RoutingTyped, RoutingTypeOK
<1>3. cached \in {<< >>, L} BY <1>1 DEF RoutingTyped, RoutingTypeOK
<1>4. PICK C : C = cached' OBVIOUS
<1>5. C \in {<< >>, L} /\ (C = cached \/ C = L)
    BY <1>1, <1>3, <1>4 DEF Lookup, ListBranches
<1>6. Numbered(C)
    <2>1. DOMAIN << >> = {} OBVIOUS
    <2> QED BY <1>2, <1>5, <2>1 DEF Numbered
<1>7. cacheOn' \in BOOLEAN /\ misread' \in BOOLEAN
    BY Zenon DEF Lookup, ListBranches, RoutingTyped, RoutingTypeOK
<1>8. seek \in {"key", "centro", "city", "any"} /\ phase \in Lookups
    BY DEF Lookup, Searching
<1>9. PICK hits : /\ hits \subseteq DOMAIN C
                  /\ \/ /\ hits # {} /\ seek' = "found"
                        /\ chosen' = [key |-> C[First(hits)].key, phones |-> C[First(hits)].phones]
                        /\ phase' \in {"summary", phase}
                     \/ seek' = SeekNext /\ seek # "any" /\ UNCHANGED <<phase, chosen>>
                     \/ seek' = "key" /\ chosen' = NotChosen /\ phase' = AfterPhase
    <2> DEFINE hits == IF seek = "any" THEN Otherwise(C) ELSE Matches(C, seek, Sought(phase, seek))
    <2>1. hits \subseteq DOMAIN C BY DEF Otherwise, Matches
    <2>2. \/ /\ hits # {} /\ seek' = "found"
             /\ chosen' = [key |-> C[First(hits)].key, phones |-> C[First(hits)].phones]
             /\ phase' \in {"summary", phase}
          \/ seek' = SeekNext /\ seek # "any" /\ UNCHANGED <<phase, chosen>>
          \/ seek' = "key" /\ chosen' = NotChosen /\ phase' = AfterPhase
        BY <1>4 DEF Lookup, NextPhase
    <2> HIDE DEF hits
    <2> QED BY <2>1, <2>2
<1>10. told' = told /\ sheet' = sheet /\ fields' = fields BY DEF Lookup
<1>11. phase' \in Phases
    <2>1. AfterPhase \in Phases BY <1>8, Zenon DEF AfterPhase, Phases, Lookups
    <2> QED BY <1>8, <1>9, <2>1 DEF Phases
<1>12. seek' \in {"key", "centro", "city", "any", "found"}
    BY <1>8, <1>9 DEF SeekNext
<1>13. PICK K, P : K = KeysOf(C) /\ P = PhonesOf(C) /\ K = KeysOf(cached)' /\ P = PhonesOf(cached)'
    BY <1>4
<1>14. KeysOf(cached) \subseteq K /\ PhonesOf(cached) \subseteq P
    <2>1. DOMAIN << >> = {} OBVIOUS
    <2>2. KeysOf(<< >>) = {} /\ PhonesOf(<< >>) = {} BY <2>1 DEF KeysOf, PhonesOf
    <2> QED BY <1>3, <1>5, <1>13, <2>2
<1>15. RoutingTypeOK'
    <2>1. told \subseteq Lookups \X KeysOf(cached) \X PhonesOf(cached)
        BY DEF RoutingTyped, RoutingTypeOK, KeysOf, PhonesOf
    <2>2. told' \subseteq Lookups \X KeysOf(cached') \X PhonesOf(cached')
        BY <1>10, <1>13, <1>14, <2>1
    <2>3. cached' \in {<< >>, LoadFromSheet(sheet')} BY <1>1, <1>4, <1>5, <1>10
    <2>4. sheet' \in Sheets /\ fields' \in LeadFields BY <1>2, <1>10
    <2> QED BY <1>7, <1>11, <1>12, <2>2, <2>3, <2>4, Zenon DEF RoutingTypeOK, KeysOf, PhonesOf
<1>16. ChosenIsRead'
    <2>1. CASE hits # {} /\ seek' = "found"
               /\ chosen' = [key |-> C[First(hits)].key, phones |-> C[First(hits)].phones]
        <3>1. First(hits) \in DOMAIN C BY <1>6, <1>9, <2>1, FirstIsOneOfThem DEF Numbered
        <3>2. C[First(hits)].key \in K BY <1>13, <3>1 DEF KeysOf
        <3>3. PICK phones : phones = C[First(hits)].phones OBVIOUS
        <3>4. DOMAIN phones \subseteq Nat BY <1>6, <3>1, <3>3 DEF Numbered
        <3>5. \A n \in DOMAIN phones : phones[n] \in P BY <1>13, <3>1, <3>3 DEF PhonesOf, Range
        <3> QED BY <1>13, <2>1, <3>2, <3>3, <3>4, <3>5 DEF ChosenIsRead
    <2>2. CASE seek' = SeekNext /\ seek # "any" /\ UNCHANGED <<phase, chosen>>
        <3>1. seek' # "found" BY <1>8, <2>2 DEF SeekNext
        <3>2. PICK key, phones : /\ chosen = [key |-> key, phones |-> phones]
                                 /\ DOMAIN phones \subseteq Nat
                                 /\ \A n \in DOMAIN phones : phones[n] \in PhonesOf(cached)
            BY DEF RoutingTyped, ChosenIsRead
        <3> QED BY <1>13, <1>14, <2>2, <3>1, <3>2 DEF ChosenIsRead
    <2>3. CASE seek' = "key" /\ chosen' = NotChosen
        BY <2>3, NoneIsChosen DEF ChosenIsRead
    <2> QED BY <1>9, <2>1, <2>2, <2>3
<1> QED BY <1>15, <1>16 DEF RoutingTyped

\* A step to another phase, or one of the same phase that looks nothing up.
LEMMA TypedElsewhere ==
    ASSUME RoutingTyped, UNCHANGED <<sheet, fields, misread, cached, told>>, cacheOn' \in BOOLEAN,
           phase' \in Phases,
           \/ seek' = "key" /\ chosen' = NotChosen
           \/ seek' \in {"key", "centro", "city", "any"} /\ chosen' = chosen
           \/ seek' = seek /\ chosen' = chosen
    PROVE  RoutingTyped'
<1>1. seek' \in {"key", "centro", "city", "any", "found"}
    BY DEF RoutingTyped, RoutingTypeOK
<1>2. told' \subseteq Lookups \X KeysOf(cached) \X PhonesOf(cached)
    BY DEF RoutingTyped, RoutingTypeOK, KeysOf, PhonesOf
<1>3. seek' = "found" => seek = "found" OBVIOUS
<1>4. PICK none : NotChosen = [key |-> NoName, phones |-> none] /\ DOMAIN none = {}
    BY NoneIsChosen
<1>5. ASSUME NEW key, NEW phones, chosen = [key |-> key, phones |-> phones]
      PROVE  \E rest : /\ \/ chosen' = [key |-> key, phones |-> rest]
                          \/ seek' # "found" /\ chosen' = [key |-> NoName, phones |-> rest]
                       /\ DOMAIN rest \subseteq DOMAIN phones
                       /\ \A n \in DOMAIN rest : rest[n] = phones[n]
    <2>1. CASE seek' = "key" /\ chosen' = NotChosen
        BY <1>4, <2>1
    <2>2. CASE chosen' = chosen
        BY <1>5, <2>2
    <2> QED BY <2>1, <2>2
<1> QED BY <1>1, <1>2, <1>3, <1>5, TypedAsBefore

LEMMA RoutingTypedStep ==
    ASSUME RoutingTyped, [RoutingNext]_routingVars
    PROVE  RoutingTyped'
<1>1. PICK key, phones : /\ chosen = [key |-> key, phones |-> phones]
                         /\ DOMAIN phones \subseteq Nat
                         /\ \A n \in DOMAIN phones : phones[n] \in PhonesOf(cached)
                         /\ seek = "found" => key \in KeysOf(cached)
    BY DEF RoutingTyped, ChosenIsRead
<1>2. /\ cacheOn \in BOOLEAN /\ phase \in Phases
      /\ seek \in {"key", "centro", "city", "any", "found"}
      /\ told \subseteq Lookups \X KeysOf(cached) \X PhonesOf(cached)
    BY DEF RoutingTyped, RoutingTypeOK, KeysOf, PhonesOf
<1>3. AfterPhase \in Phases \/ phase \notin Lookups
    BY Zenon DEF AfterPhase, Phases, Lookups
<1>4. CASE SkipLookup
    <2>1. seek' \in {"key", "centro", "city", "any"} /\ chosen' = chosen
        BY <1>4 DEF SkipLookup, Searching, SeekNext
    <2> QED BY <1>2, <1>4, <2>1, TypedElsewhere DEF SkipLookup
<1>5. CASE \E readable \in BOOLEAN : Lookup(readable)
    BY <1>5, LookupTyped
<1>6. ASSUME PassPhone, UNCHANGED <<sheet, fields, misread, cached, cacheOn, phase, seek>>,
             told' \subseteq Lookups \X KeysOf(cached) \X PhonesOf(cached)
      PROVE  RoutingTyped'
    <2>1. \A k, ps : chosen = [key |-> k, phones |-> ps] =>
              \E rest : /\ chosen' = [key |-> k, phones |-> rest]
                       /\ DOMAIN rest \subseteq DOMAIN ps
                       /\ \A n \in DOMAIN rest : rest[n] = ps[n]
        BY <1>6, PassFacts
    <2> QED BY <1>2, <1>6, <2>1, TypedAsBefore
<1>7. CASE TellPhone
    <2>1. Untold = DOMAIN phones /\ Untold # {} /\ seek = "found" /\ phase \in Lookups
        BY <1>1, <1>7 DEF TellPhone, Telling, Untold
    <2>2. First(Untold) \in DOMAIN phones BY <1>1, <2>1, FirstIsOneOfThem
    <2>3. told' = told \cup {<<phase, key, phones[First(Untold)]>>}
        BY <1>1, <1>7 DEF TellPhone
    <2>4. told' \subseteq Lookups \X KeysOf(cached) \X PhonesOf(cached)
        BY <1>1, <1>2, <2>1, <2>2, <2>3
    <2> QED BY <1>6, <1>7, <2>4 DEF TellPhone
<1>8. CASE TellRaises
    <2>1. CASE PassPhone /\ UNCHANGED <<phase, seek>>
        BY <1>2, <1>6, <1>8, <2>1 DEF TellRaises
    <2>2. CASE NextPhase("failed")
        BY <1>2, <1>8, <2>2, TypedElsewhere DEF TellRaises, NextPhase, Phases
    <2> QED BY <1>8, <2>1, <2>2 DEF TellRaises
<1>9. CASE AllTold
    BY <1>2, <1>3, <1>9, TypedElsewhere DEF AllTold, Telling, NextPhase
<1>10. CASE HandoffStep
    <2>1. CASE phase = "summary"
        BY <1>2, <1>10, <2>1, TypedElsewhere DEF HandoffStep, Phases, Lookups
    <2>2. CASE phase # "summary"
        <3>1. \E p \in Phases : NextPhase(p) BY <1>10, <2>2, Zenon DEF HandoffStep, Phases, Lookups
        <3> QED BY <1>2, <1>10, <3>1, TypedElsewhere DEF HandoffStep, NextPhase
    <2> QED BY <2>1, <2>2
<1>11. CASE HandoffRaises
    BY <1>2, <1>11, TypedElsewhere DEF HandoffRaises, NextPhase, Phases
<1>12. CASE BranchCacheExpires
    BY <1>2, <1>12, TypedElsewhere DEF BranchCacheExpires
<1>13. CASE UNCHANGED routingVars
    BY <1>2, <1>13, TypedElsewhere DEF routingVars
<1> QED BY <1>4, <1>5, <1>7, <1>8, <1>9, <1>10, <1>11, <1>12, <1>13 DEF RoutingNext

\* For any sheet and lead the lookups and texts of a handoff keep their types:
\* the branches are of the sheet, and only phones of theirs are told.
THEOREM RoutingTypes == RoutingSpec => []RoutingTypeOK
<1>1. RoutingTyped => RoutingTypeOK BY DEF RoutingTyped
<1> QED BY <1>1, RoutingTypedStarts, RoutingTypedStep, PTL DEF RoutingSpec
=============================================================================
