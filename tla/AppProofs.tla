----------------------------- MODULE AppProofs ------------------------------
(***************************************************************************)
(* The pipeline of App, for every list of fidecs, every route and whatever *)
(* codes the callbacks return: one answer, that of the first halt if there *)
(* was one, and one deletion of the objects of the request.                *)
(***************************************************************************)
EXTENDS App, TLAPS

\* ended_ tells whether the HttpResponse has answered, and the answer is alone.
EndedInv == ~handshake => IF ended_ THEN Len(sent) = 1 ELSE sent = <<>>

\* A halt has answered.
HaltInv == halt # 0 /\ ~handshake => ended_ /\ sent = <<halt>>

\* What leads to the exit without an answer.
ExitInv == pc \in {"exit", "done"} =>
             ended_ \/ skipped \/ (hret = ASYNC /\ status = ASYNC)

\* The inductive invariant.
IInv == TypeOK /\ EndedInv /\ HaltInv /\ ExitInv /\ ReleasedOnce

-----------------------------------------------------------------------------
(* Types                                                                   *)

\* TypeOK, the Boolean variables apart from the others.
Flags == /\ ended_ \in BOOLEAN /\ hdlr_extra \in BOOLEAN /\ skipped \in BOOLEAN
         /\ handshake \in BOOLEAN

Place == /\ pc \in {"new", "before", "handler", "transform", "async", "after", "flush", "exit",
                    "done", "dropped"}
         /\ prefix \in Routes /\ i \in Nat \ {0} /\ (InFidecs => i <= Len(Fidecs) + 1)

Values == /\ status \in Nat /\ status_ \in Nat /\ sent \in Seq(Nat)
          /\ recv \in {"http", "websocket"} /\ deleted \in [req : Nat, resp : Nat]
          /\ hret \in Codes \cup {None, ASYNC} /\ halt \in Nat

\* The three parts make TypeOK.
LEMMA TypeParts == TypeOK <=> Flags /\ Place /\ Values
BY Zenon DEF TypeOK, Flags, Place, Values

\* The numbers behind the names.
LEMMA CodeValues == /\ ABORT = 0 /\ CONTINUE = 1 /\ SKIP_FLUSH = 2 /\ ASYNC = 3 /\ OK = 200
                    /\ FOUND = 302 /\ INTERNAL_ERROR = 500 /\ NOT_FOUND = 404
                    /\ SWITCHING_PROTOCOLS = 101 /\ BAD_REQUEST = 400 /\ NOT_MODIFIED = 304
                    /\ None = -1
BY Zenon DEF ABORT, CONTINUE, SKIP_FLUSH, ASYNC, OK, FOUND, INTERNAL_ERROR, NOT_FOUND,
   SWITCHING_PROTOCOLS, BAD_REQUEST, NOT_MODIFIED, None

\* HttpResponse::end keeps the types, answers if nothing was answered, and
\* changes nothing otherwise.
LEMMA EndStep ==
  ASSUME Values, NEW s \in Nat, end(s)
  PROVE  /\ status_' \in Nat /\ sent' \in Seq(Nat) /\ recv' \in {"http", "websocket"}
         /\ ended_ => sent' = sent
         /\ ~ended_ => sent' = Append(sent, s)
<1>1. CASE ended_
  <2>1. UNCHANGED resp
    BY <1>1, Zenon DEF end
  <2> QED
    BY <1>1, <2>1, Zenon DEF resp, Values
<1>2. CASE ~ended_
  <2>1. status_' = s /\ sent' = Append(sent, s) /\ recv' = "http"
    BY <1>2, Zenon DEF end, http_response
  <2>2. sent' \in Seq(Nat)
    BY <2>1 DEF Values
  <2> QED
    BY <1>2, <2>1, <2>2, Zenon
<1> QED
  BY <1>1, <1>2, Zenon

\* After HttpResponse::end the response is ended.
LEMMA EndEnds ==
  ASSUME Flags, NEW s, end(s)
  PROVE  ended_' = TRUE
BY Zenon DEF end, resp, Flags

\* What a halt is answered with, and what is remembered of it.
LEMMA HaltValues ==
  ASSUME NEW s \in Halts
  PROVE  HaltStatus(s) \in Nat /\ HaltStatus(s) # 0
BY AppAssumption, CodeValues DEF HaltStatus

\* No step leaves the types.
LEMMA TypeStep == TypeOK /\ [Next]_vars => TypeOK'
<1> SUFFICES ASSUME Flags, Place, Values, [Next]_vars
             PROVE  Flags' /\ Place' /\ Values'
  BY TypeParts, Zenon DEF TypeOK, Flags, Place, Values, InFidecs, Fidecs
<1> USE AppAssumption, CodeValues
<1>1. CASE HandleStatic
  <2>1. Flags'
    BY <1>1, EndEnds, ZenonT(60) DEF HandleStatic, Flags, hist
  <2>2. Place'
    BY <1>1, Zenon DEF HandleStatic, Place, InFidecs, Fidecs
  <2>3. Values'
    BY <1>1, EndStep DEF HandleStatic, Values, hist
  <2> QED
    BY <2>1, <2>2, <2>3, Zenon
<1>2. CASE HandleNoRoute
  <2>1. Flags'
    BY <1>2, EndEnds, Zenon DEF HandleNoRoute, Flags, hist
  <2>2. Place'
    BY <1>2, Zenon DEF HandleNoRoute, Place, InFidecs, Fidecs
  <2>3. Values'
    BY <1>2, EndStep DEF HandleNoRoute, Values, hist
  <2> QED
    BY <2>1, <2>2, <2>3, Zenon
<1>3. CASE HandleRoute
  <2>1. Flags'
    BY <1>3, Zenon DEF HandleRoute, Flags, hist, resp
  <2>2. Place'
    BY <1>3 DEF HandleRoute, Place, InFidecs, Fidecs
  <2>3. Values'
    BY <1>3, Zenon DEF HandleRoute, Values, hist, resp
  <2> QED
    BY <2>1, <2>2, <2>3, Zenon
<1>4. CASE FidecSkipped
  <2>1. Flags'
    BY <1>4, Zenon DEF FidecSkipped, Flags, hist, resp
  <2>2. Place'
    BY <1>4 DEF FidecSkipped, Place, InFidecs, Fidecs
  <2>3. Values'
    BY <1>4, Zenon DEF FidecSkipped, Values, hist, resp
  <2> QED
    BY <2>1, <2>2, <2>3, Zenon
<1>5. CASE FidecReturns
  <2>1. Flags'
    BY <1>5, Zenon DEF FidecReturns, MaySetStatus, Flags, hist, resp
  <2>2. Place'
    BY <1>5 DEF FidecReturns, Place, InFidecs, Fidecs
  <2>3. Values'
    BY <1>5 DEF FidecReturns, MaySetStatus, Values, hist, resp
  <2> QED
    BY <2>1, <2>2, <2>3, Zenon
<1>6. CASE FidecHalts
  <2>1. Flags'
    BY <1>6, EndEnds, Zenon DEF FidecHalts, CatchHalt, Flags, hist
  <2>2. Place'
    BY <1>6 DEF FidecHalts, Place, InFidecs, Fidecs
  <2>3. Values'
    BY <1>6, EndStep, HaltValues, Zenon DEF FidecHalts, CatchHalt, FirstHalt, Values
  <2> QED
    BY <2>1, <2>2, <2>3, Zenon
<1>7. CASE FidecThrows
  <2>1. Flags'
    BY <1>7, Zenon DEF FidecThrows, MaySetStatus, Flags, hist, resp
  <2>2. Place'
    BY <1>7 DEF FidecThrows, Place, InFidecs, Fidecs
  <2>3. Values'
    BY <1>7 DEF FidecThrows, MaySetStatus, Values, hist, resp
  <2> QED
    BY <2>1, <2>2, <2>3, Zenon
<1>8. CASE BeforeDone
  <2>1. Flags'
    BY <1>8, Zenon DEF BeforeDone, Flags, hist, resp
  <2>2. Place'
    BY <1>8, Zenon DEF BeforeDone, Place, InFidecs, Fidecs
  <2>3. Values'
    BY <1>8, Zenon DEF BeforeDone, Values, hist, resp
  <2> QED
    BY <2>1, <2>2, <2>3, Zenon
<1>9. CASE HandlerReturns
  <2>1. Flags'
    BY <1>9, Zenon DEF HandlerReturns, MaySetStatus, Flags, hist, resp
  <2>2. Place'
    BY <1>9, Zenon DEF HandlerReturns, Place, InFidecs, Fidecs
  <2>3. Values'
    BY <1>9 DEF HandlerReturns, MaySetStatus, Values, hist, resp
  <2> QED
    BY <2>1, <2>2, <2>3, Zenon
<1>10. CASE HandlerHalts
  <2>1. Flags'
    BY <1>10, EndEnds, Zenon DEF HandlerHalts, CatchHalt, Flags, hist
  <2>2. Place'
    BY <1>10, Zenon DEF HandlerHalts, Place, InFidecs, Fidecs
  <2>3. Values'
    BY <1>10, EndStep, HaltValues, Zenon DEF HandlerHalts, CatchHalt, FirstHalt, Values
  <2> QED
    BY <2>1, <2>2, <2>3, Zenon
<1>11. CASE HandlerThrows
  <2>1. Flags'
    BY <1>11 DEF HandlerThrows, MaySetStatus, Flags, hist, resp
  <2>2. Place'
    BY <1>11, Zenon DEF HandlerThrows, Place, InFidecs, Fidecs
  <2>3. Values'
    BY <1>11 DEF HandlerThrows, MaySetStatus, Values, hist, resp
  <2> QED
    BY <2>1, <2>2, <2>3, Zenon
<1>12. CASE HandlerUpgrades
  <2>1. Flags'
    BY <1>12, Zenon DEF HandlerUpgrades, Flags, hist, resp
  <2>2. Place'
    BY <1>12, Zenon DEF HandlerUpgrades, Place, InFidecs, Fidecs
  <2>3. Values'
    <3>1. \E s \in Nat : sent' = Append(sent, s) /\ recv' \in {"http", "websocket"}
      <4>1. CASE http_response(BAD_REQUEST)
        BY <4>1 DEF http_response
      <4>2. CASE sent' = Append(sent, SWITCHING_PROTOCOLS) /\ recv' = "websocket"
        BY <4>2, Zenon
      <4> QED
        BY <1>12, <4>1, <4>2, Zenon DEF HandlerUpgrades
    <3>2. sent \in Seq(Nat)
      BY Zenon DEF Values
    <3>3. status' \in Nat /\ hret' \in Codes
      BY <1>12, Zenon DEF HandlerUpgrades
    <3>4. UNCHANGED <<status_, deleted, halt>>
      BY <1>12, Zenon DEF HandlerUpgrades
    <3> QED
      BY <3>1, <3>2, <3>3, <3>4 DEF Values
  <2> QED
    BY <2>1, <2>2, <2>3, Zenon
<1>13. CASE HandlerStartsQuery
  <2>1. Flags'
    BY <1>13 DEF HandlerStartsQuery, MaySetStatus, Flags, hist, resp
  <2>2. Place'
    BY <1>13, Zenon DEF HandlerStartsQuery, Place, InFidecs, Fidecs
  <2>3. Values'
    BY <1>13 DEF HandlerStartsQuery, MaySetStatus, Values, hist, resp
  <2> QED
    BY <2>1, <2>2, <2>3, Zenon
<1>14. CASE HandlerAsyncWithoutStates
  <2>1. Flags'
    BY <1>14, Zenon DEF HandlerAsyncWithoutStates, Flags, hist, resp
  <2>2. Place'
    BY <1>14, Zenon DEF HandlerAsyncWithoutStates, Place, InFidecs, Fidecs
  <2>3. Values'
    BY <1>14 DEF HandlerAsyncWithoutStates, Values, hist, resp
  <2> QED
    BY <2>1, <2>2, <2>3, Zenon
<1>15. CASE AsyncCompletes
  <2>1. Flags'
    BY <1>15, Zenon DEF AsyncCompletes, MaySetStatus, Flags, hist, resp
  <2>2. Place'
    BY <1>15, Zenon DEF AsyncCompletes, Place, InFidecs, Fidecs
  <2>3. Values'
    BY <1>15 DEF AsyncCompletes, MaySetStatus, Values, hist, resp
  <2> QED
    BY <2>1, <2>2, <2>3, Zenon
<1>16. CASE AsyncDropped
  <2>1. Flags'
    BY <1>16, Zenon DEF AsyncDropped, Flags, hist, resp
  <2>2. Place'
    BY <1>16, Zenon DEF AsyncDropped, Place, InFidecs, Fidecs
  <2>3. Values'
    <3>1. deleted' \in [req : Nat, resp : Nat]
      BY <1>16 DEF AsyncDropped, Values
    <3>2. UNCHANGED <<status, resp, hist>>
      BY <1>16, Zenon DEF AsyncDropped
    <3> QED
      BY <3>1, <3>2, Zenon DEF Values, resp, hist
  <2> QED
    BY <2>1, <2>2, <2>3, Zenon
<1>17. CASE NoTransformer
  <2>1. Flags'
    BY <1>17, Zenon DEF NoTransformer, Flags, hist, resp
  <2>2. Place'
    BY <1>17 DEF NoTransformer, Place, InFidecs, Fidecs
  <2>3. Values'
    BY <1>17, Zenon DEF NoTransformer, NewStatus, Values, hist, resp
  <2> QED
    BY <2>1, <2>2, <2>3, Zenon
<1>18. CASE Transform
  <2>1. Flags'
    BY <1>18, Zenon DEF Transform, Flags, hist, resp
  <2>2. Place'
    BY <1>18 DEF Transform, Place, InFidecs, Fidecs
  <2>3. Values'
    BY <1>18 DEF Transform, NewStatus, Values, hist, resp
  <2> QED
    BY <2>1, <2>2, <2>3, Zenon
<1>19. CASE AfterDone
  <2>1. Flags'
    BY <1>19, Zenon DEF AfterDone, Flags, hist, resp
  <2>2. Place'
    BY <1>19, Zenon DEF AfterDone, Place, InFidecs, Fidecs
  <2>3. Values'
    BY <1>19 DEF AfterDone, NewStatus, Values, hist, resp
  <2> QED
    BY <2>1, <2>2, <2>3, Zenon
<1>20. CASE flush
  <2>1. Flags'
    BY <1>20, EndEnds, Zenon DEF flush, Flags, hist
  <2>2. Place'
    BY <1>20, Zenon DEF flush, Place, InFidecs, Fidecs
  <2>3. Values'
    BY <1>20, EndStep, Zenon DEF flush, Values, hist
  <2> QED
    BY <2>1, <2>2, <2>3, Zenon
<1>21. CASE Exit
  <2>1. Flags'
    BY <1>21, Zenon DEF Exit, Flags, hist, resp
  <2>2. Place'
    BY <1>21, Zenon DEF Exit, Place, InFidecs, Fidecs
  <2>3. Values'
    <3>1. deleted' \in [req : Nat, resp : Nat]
      BY <1>21 DEF Exit, Values
    <3>2. UNCHANGED <<status, resp, hist>>
      BY <1>21, Zenon DEF Exit
    <3> QED
      BY <3>1, <3>2, Zenon DEF Values, resp, hist
  <2> QED
    BY <2>1, <2>2, <2>3, Zenon
<1>22. CASE UNCHANGED vars
  BY <1>22 DEF vars, resp, hist, Flags, Place, Values, InFidecs, Fidecs
<1> QED
  BY <1>1, <1>2, <1>3, <1>4, <1>5, <1>6, <1>7, <1>8, <1>9, <1>10, <1>11, <1>12, <1>13, <1>14, <1>15,
     <1>16, <1>17, <1>18, <1>19, <1>20, <1>21, <1>22, Zenon DEF Next

-----------------------------------------------------------------------------
(* The invariant                                                           *)

\* The request starts without an answer.
LEMMA InitIInv == Init => IInv
<1> SUFFICES ASSUME Init PROVE IInv
  BY Zenon
<1>1. Flags
  BY Zenon DEF Init, Flags
<1>2. Place
  BY DEF Init, Place, InFidecs
<1>3. Values
  BY CodeValues DEF Init, Values
<1>4. EndedInv /\ HaltInv /\ ExitInv
  BY Zenon DEF Init, EndedInv, HaltInv, ExitInv
<1>5. ReleasedOnce
  BY Zenon DEF Init, ReleasedOnce
<1> QED
  BY <1>1, <1>2, <1>3, <1>4, <1>5, TypeParts, Zenon DEF IInv

\* What answers nothing and halts nothing keeps the invariants on the answer.
LEMMA Unanswered ==
  ASSUME IInv, UNCHANGED <<ended_, sent, halt, handshake>>
  PROVE  EndedInv' /\ HaltInv'
BY Zenon DEF IInv, EndedInv, HaltInv

\* HttpResponse::end keeps them as well.
LEMMA Answered ==
  ASSUME IInv, NEW s \in Nat, end(s), UNCHANGED <<halt, handshake>>
  PROVE  EndedInv' /\ HaltInv' /\ ended_'
<1>1. Flags /\ Values
  BY TypeParts, Zenon DEF IInv
<1>2. ended_' /\ (ended_ => sent' = sent) /\ (~ended_ => sent' = Append(sent, s))
  BY <1>1, EndStep, EndEnds, Zenon
<1>3. sent \in Seq(Nat)
  BY <1>1, Zenon DEF Values
<1>4. EndedInv'
  BY <1>2, <1>3 DEF IInv, EndedInv
<1>5. HaltInv'
  BY <1>2, Zenon DEF IInv, HaltInv, EndedInv
<1> QED
  BY <1>2, <1>4, <1>5, Zenon

\* So does a halt that is caught, which is the answer if it is the first.
LEMMA Halted ==
  ASSUME IInv, NEW s \in Halts, CatchHalt(s), UNCHANGED handshake
  PROVE  EndedInv' /\ HaltInv' /\ ended_'
<1>1. Flags /\ Values
  BY TypeParts, Zenon DEF IInv
<1>2. end(HaltStatus(s)) /\ HaltStatus(s) \in Nat /\ HaltStatus(s) # 0
  BY HaltValues, Zenon DEF CatchHalt
<1>3. /\ ended_' /\ (ended_ => sent' = sent)
      /\ ~ended_ => sent' = Append(sent, HaltStatus(s))
  BY <1>1, <1>2, EndStep, EndEnds, Zenon
<1>4. sent \in Seq(Nat)
  BY <1>1, Zenon DEF Values
<1>5. EndedInv'
  <2>1. PICK h \in Nat : h = HaltStatus(s)
    BY <1>2, Zenon
  <2>2. ended_' /\ (ended_ => sent' = sent) /\ (~ended_ => sent' = Append(sent, h))
    BY <1>3, <2>1, Zenon
  <2>3. ~handshake => Len(sent') = 1
    <3>1. CASE ended_
      BY <2>2, <3>1, Zenon DEF IInv, EndedInv
    <3>2. CASE ~ended_
      <4>1. ~handshake => sent' = Append(<<>>, h)
        BY <2>2, <3>2, Zenon DEF IInv, EndedInv
      <4>2. Len(Append(<<>>, h)) = 1
        OBVIOUS
      <4> QED
        BY <4>1, <4>2, Zenon
    <3> QED
      BY <3>1, <3>2, Zenon
  <2> QED
    BY <2>2, <2>3, Zenon DEF EndedInv
<1>6. CASE handshake
  BY <1>6, <1>3, <1>5, Zenon DEF HaltInv
<1>7. CASE ~handshake /\ ended_
  <2>1. halt' = halt /\ sent' = sent
    BY <1>7, <1>3, Zenon DEF CatchHalt, FirstHalt
  <2> QED
    BY <1>7, <2>1, <1>3, <1>5, Zenon DEF IInv, HaltInv
<1>8. CASE ~handshake /\ ~ended_
  <2>1. halt = 0 /\ sent = <<>>
    BY <1>8, Zenon DEF IInv, HaltInv, EndedInv
  <2>2. halt' = HaltStatus(s)
    BY <1>8, <2>1, Zenon DEF CatchHalt, FirstHalt
  <2>3. sent' = <<HaltStatus(s)>>
    BY <1>8, <1>2, <1>3, <2>1
  <2> QED
    BY <2>2, <2>3, <1>3, <1>5, Zenon DEF HaltInv
<1> QED
  BY <1>6, <1>7, <1>8, Zenon

\* A step inside the pipeline deletes nothing.
LEMMA Inside ==
  ASSUME IInv, UNCHANGED deleted, pc \notin {"done", "dropped"}, pc' \notin {"done", "dropped"}
  PROVE  ReleasedOnce'
BY Zenon DEF IInv, ReleasedOnce

\* Every step keeps the invariant.
LEMMA StepIInv == IInv /\ [Next]_vars => IInv'
<1> SUFFICES ASSUME IInv, [Next]_vars
             PROVE  EndedInv' /\ HaltInv' /\ ExitInv' /\ ReleasedOnce'
  BY TypeStep, Zenon DEF IInv
<1> USE CodeValues
<1>1. CASE HandleStatic
  <2>1. EndedInv' /\ HaltInv' /\ ended_'
    BY <1>1, Answered DEF HandleStatic, hist
  <2>2. ExitInv'
    BY <1>1, Zenon DEF HandleStatic, ExitInv
  <2>3. ReleasedOnce'
    BY <1>1, Inside, Zenon DEF HandleStatic
  <2> QED
    BY <2>1, <2>2, <2>3, Zenon
<1>2. CASE HandleNoRoute
  <2>1. EndedInv' /\ HaltInv' /\ ended_'
    BY <1>2, Answered DEF HandleNoRoute, hist
  <2>2. ExitInv'
    BY <1>2, <2>1, Zenon DEF HandleNoRoute, ExitInv, IInv, resp, hist
  <2>3. ReleasedOnce'
    BY <1>2, Inside, Zenon DEF HandleNoRoute
  <2> QED
    BY <2>1, <2>2, <2>3, Zenon
<1>3. CASE HandleRoute
  <2>1. EndedInv' /\ HaltInv'
    BY <1>3, Unanswered, Zenon DEF HandleRoute, resp, hist
  <2>2. ExitInv'
    BY <1>3, Zenon DEF HandleRoute, ExitInv
  <2>3. ReleasedOnce'
    BY <1>3, Inside, Zenon DEF HandleRoute
  <2> QED
    BY <2>1, <2>2, <2>3, Zenon
<1>4. CASE FidecSkipped
  <2>1. EndedInv' /\ HaltInv'
    BY <1>4, Unanswered, Zenon DEF FidecSkipped, resp, hist
  <2>2. ExitInv'
    BY <1>4, Zenon DEF FidecSkipped, ExitInv, InFidecs
  <2>3. ReleasedOnce'
    BY <1>4, Inside, Zenon DEF FidecSkipped, InFidecs
  <2> QED
    BY <2>1, <2>2, <2>3, Zenon
<1>5. CASE FidecReturns
  <2>1. EndedInv' /\ HaltInv'
    BY <1>5, Unanswered, Zenon DEF FidecReturns, MaySetStatus, resp, hist
  <2>2. ExitInv'
    BY <1>5, Zenon DEF FidecReturns, ExitInv, InFidecs
  <2>3. ReleasedOnce'
    BY <1>5, Inside, Zenon DEF FidecReturns, InFidecs
  <2> QED
    BY <2>1, <2>2, <2>3, Zenon
<1>6. CASE FidecHalts
  <2>1. EndedInv' /\ HaltInv'
    BY <1>6, Halted, Zenon DEF FidecHalts
  <2>2. ExitInv'
    BY <1>6, Zenon DEF FidecHalts, ExitInv, InFidecs
  <2>3. ReleasedOnce'
    BY <1>6, Inside, Zenon DEF FidecHalts, InFidecs
  <2> QED
    BY <2>1, <2>2, <2>3, Zenon
<1>7. CASE FidecThrows
  <2>1. EndedInv' /\ HaltInv'
    BY <1>7, Unanswered, Zenon DEF FidecThrows, MaySetStatus, resp, hist
  <2>2. ExitInv'
    BY <1>7 DEF FidecThrows, ExitInv, InFidecs
  <2>3. ReleasedOnce'
    BY <1>7, Inside, Zenon DEF FidecThrows, InFidecs
  <2> QED
    BY <2>1, <2>2, <2>3, Zenon
<1>8. CASE BeforeDone
  <2>1. EndedInv' /\ HaltInv'
    BY <1>8, Unanswered, Zenon DEF BeforeDone, resp, hist
  <2>2. ExitInv'
    BY <1>8, Zenon DEF BeforeDone, ExitInv
  <2>3. ReleasedOnce'
    BY <1>8, Inside, Zenon DEF BeforeDone
  <2> QED
    BY <2>1, <2>2, <2>3, Zenon
<1>9. CASE HandlerReturns
  <2>1. EndedInv' /\ HaltInv'
    BY <1>9, Unanswered, Zenon DEF HandlerReturns, MaySetStatus, resp, hist
  <2>2. ExitInv'
    BY <1>9, Zenon DEF HandlerReturns, ExitInv
  <2>3. ReleasedOnce'
    BY <1>9, Inside, Zenon DEF HandlerReturns
  <2> QED
    BY <2>1, <2>2, <2>3, Zenon
<1>10. CASE HandlerHalts
  <2>1. EndedInv' /\ HaltInv'
    BY <1>10, Halted, Zenon DEF HandlerHalts
  <2>2. ExitInv'
    BY <1>10, Zenon DEF HandlerHalts, ExitInv
  <2>3. ReleasedOnce'
    BY <1>10, Inside, Zenon DEF HandlerHalts
  <2> QED
    BY <2>1, <2>2, <2>3, Zenon
<1>11. CASE HandlerThrows
  <2>1. EndedInv' /\ HaltInv'
    BY <1>11, Unanswered, Zenon DEF HandlerThrows, MaySetStatus, resp, hist
  <2>2. ExitInv'
    BY <1>11, Zenon DEF HandlerThrows, ExitInv
  <2>3. ReleasedOnce'
    BY <1>11, Inside, Zenon DEF HandlerThrows
  <2> QED
    BY <2>1, <2>2, <2>3, Zenon
<1>12. CASE HandlerUpgrades
  <2>1. EndedInv' /\ HaltInv'
    BY <1>12, Zenon DEF HandlerUpgrades, EndedInv, HaltInv
  <2>2. ExitInv'
    BY <1>12, Zenon DEF HandlerUpgrades, ExitInv
  <2>3. ReleasedOnce'
    BY <1>12, Inside, Zenon DEF HandlerUpgrades
  <2> QED
    BY <2>1, <2>2, <2>3, Zenon
<1>13. CASE HandlerStartsQuery
  <2>1. EndedInv' /\ HaltInv'
    BY <1>13, Unanswered, Zenon DEF HandlerStartsQuery, MaySetStatus, resp, hist
  <2>2. ExitInv'
    BY <1>13, Zenon DEF HandlerStartsQuery, ExitInv
  <2>3. ReleasedOnce'
    BY <1>13, Inside, Zenon DEF HandlerStartsQuery
  <2> QED
    BY <2>1, <2>2, <2>3, Zenon
<1>14. CASE HandlerAsyncWithoutStates
  <2>1. EndedInv' /\ HaltInv'
    BY <1>14, Unanswered, Zenon DEF HandlerAsyncWithoutStates, resp, hist
  <2>2. ExitInv'
    BY <1>14, <2>1, Zenon DEF HandlerAsyncWithoutStates, ExitInv, IInv, resp, hist
  <2>3. ReleasedOnce'
    BY <1>14, Inside, Zenon DEF HandlerAsyncWithoutStates
  <2> QED
    BY <2>1, <2>2, <2>3, Zenon
<1>15. CASE AsyncCompletes
  <2>1. EndedInv' /\ HaltInv'
    BY <1>15, Unanswered, Zenon DEF AsyncCompletes, MaySetStatus, resp, hist
  <2>2. ExitInv'
    BY <1>15, Zenon DEF AsyncCompletes, ExitInv
  <2>3. ReleasedOnce'
    BY <1>15, Inside, Zenon DEF AsyncCompletes
  <2> QED
    BY <2>1, <2>2, <2>3, Zenon
<1>16. CASE AsyncDropped
  <2>1. EndedInv' /\ HaltInv'
    BY <1>16, Unanswered, Zenon DEF AsyncDropped, resp, hist
  <2>2. ExitInv'
    BY <1>16, Zenon DEF AsyncDropped, ExitInv
  <2>3. ReleasedOnce'
    BY <1>16 DEF AsyncDropped, ReleasedOnce, IInv
  <2> QED
    BY <2>1, <2>2, <2>3, Zenon
<1>17. CASE NoTransformer
  <2>1. EndedInv' /\ HaltInv'
    BY <1>17, Unanswered, Zenon DEF NoTransformer, resp, hist
  <2>2. ExitInv'
    BY <1>17, Zenon DEF NoTransformer, ExitInv
  <2>3. ReleasedOnce'
    BY <1>17, Inside, Zenon DEF NoTransformer
  <2> QED
    BY <2>1, <2>2, <2>3, Zenon
<1>18. CASE Transform
  <2>1. EndedInv' /\ HaltInv'
    BY <1>18, Unanswered, Zenon DEF Transform, resp, hist
  <2>2. ExitInv'
    BY <1>18, Zenon DEF Transform, ExitInv
  <2>3. ReleasedOnce'
    BY <1>18, Inside, Zenon DEF Transform
  <2> QED
    BY <2>1, <2>2, <2>3, Zenon
<1>19. CASE AfterDone
  <2>1. EndedInv' /\ HaltInv'
    BY <1>19, Unanswered, Zenon DEF AfterDone, resp, hist
  <2>2. ExitInv'
    BY <1>19, <2>1, Zenon DEF AfterDone, ExitInv, IInv, resp, hist
  <2>3. ReleasedOnce'
    BY <1>19, Inside, Zenon DEF AfterDone
  <2> QED
    BY <2>1, <2>2, <2>3, Zenon
<1>20. CASE flush
  <2>1. EndedInv' /\ HaltInv' /\ ended_'
    BY <1>20, Answered, Zenon DEF flush, hist, IInv, TypeOK
  <2>2. ExitInv'
    BY <1>20, <2>1, Zenon DEF flush, ExitInv, IInv, resp, hist
  <2>3. ReleasedOnce'
    BY <1>20, Inside, Zenon DEF flush
  <2> QED
    BY <2>1, <2>2, <2>3, Zenon
<1>21. CASE Exit
  <2>1. EndedInv' /\ HaltInv'
    BY <1>21, Unanswered, Zenon DEF Exit, resp, hist
  <2>2. ExitInv'
    BY <1>21, <2>1, Zenon DEF Exit, ExitInv, IInv, resp, hist
  <2>3. ReleasedOnce'
    BY <1>21 DEF Exit, ReleasedOnce, IInv
  <2> QED
    BY <2>1, <2>2, <2>3, Zenon
<1>22. CASE UNCHANGED vars
  BY <1>22, Zenon DEF vars, resp, hist, IInv, EndedInv, HaltInv, ExitInv, ReleasedOnce
<1> QED
  BY <1>1, <1>2, <1>3, <1>4, <1>5, <1>6, <1>7, <1>8, <1>9, <1>10, <1>11, <1>12, <1>13, <1>14, <1>15,
     <1>16, <1>17, <1>18, <1>19, <1>20, <1>21, <1>22, Zenon DEF Next

-----------------------------------------------------------------------------
(* Theorems                                                                *)

\* IInv is an invariant of the pipeline.
THEOREM Invariance == Spec => []IInv
<1>1. Init => IInv
  BY InitIInv, Zenon
<1>2. IInv /\ [Next]_vars => IInv'
  BY StepIInv, Zenon
<1> QED
  BY <1>1, <1>2, PTL DEF Spec

\* The pipeline keeps the types of the request's state.
THEOREM TypeCorrect == Spec => []TypeOK
<1>1. IInv => TypeOK
  BY Zenon DEF IInv
<1> QED
  BY <1>1, Invariance, PTL

\* handle and completeRequest answer a request once, along every path that is
\* not one of the three without an answer, for any fidecs and any codes; the
\* HttpResponse of an upgraded connection is no exception.
THEOREM OneAnswer == Spec => []AnsweredOnce
<1>1. IInv => AnsweredOnce
  <2>1. Len(<<>>) = 0
    BY Zenon
  <2>2. IInv => (~handshake => Len(sent) = IF ended_ THEN 1 ELSE 0)
    BY <2>1, Zenon DEF IInv, EndedInv
  <2>3. IInv => (pc = "done" => ended_ \/ skipped \/ (hret = ASYNC /\ status = ASYNC))
    BY Zenon DEF IInv, ExitInv
  <2> QED
    BY <2>2, <2>3, Zenon DEF AnsweredOnce
<1> QED
  BY <1>1, Invariance, PTL

\* The first halt is the answer.
THEOREM FirstHaltAnswers == Spec => []HaltIsAnswer
<1>1. IInv => HaltIsAnswer
  BY Zenon DEF IInv, HaltInv, HaltIsAnswer
<1> QED
  BY <1>1, Invariance, PTL

\* The objects of a request are deleted once, but for the HttpResponse of a
\* client that went away.
THEOREM OneRelease == Spec => []ReleasedOnce
<1>1. IInv => ReleasedOnce
  BY Zenon DEF IInv
<1> QED
  BY <1>1, Invariance, PTL
=============================================================================
