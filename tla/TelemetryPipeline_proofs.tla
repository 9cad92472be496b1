---------------------- MODULE TelemetryPipeline_proofs ----------------------
(***************************************************************************)
(* Proofs about TelemetryPipeline, for any keys, depths, times and bounds. *)
(***************************************************************************)
EXTENDS TelemetryPipeline, FiniteSetTheorems, WellFoundedInduction, TLAPS

(***************************************************************************)
(* QuietDuringOta.  A task that still waits where it had seen the OTA      *)
(* state Inactive has not yet used up the one reading it may let through.  *)
(***************************************************************************)
QuietInv ==
  /\ late \in [admitted : Nat, routed : Nat]
  /\ QuietDuringOta
  /\ otaState # "Inactive" =>
       /\ capturePc \in {"listen", "decoded"} => late.admitted = 0
       /\ routerPc = "receive" => late.routed = 0

\* A wait that began before the attempt ends at most once.
LEMMA QuietStep == QuietInv /\ [Next]_vars => QuietInv'
<1> SUFFICES ASSUME QuietInv, [Next]_vars PROVE QuietInv'
  OBVIOUS
<1> USE DEF QuietInv, QuietDuringOta, clockVars, captureVars, channelVars, routerVars,
            mqttVars, histories, is_radio_capture_allowed
<1>1. CASE CaptureListens
  BY <1>1 DEF CaptureListens
<1>2. CASE CaptureInterrupted
  BY <1>2 DEF CaptureInterrupted
<1>3. CASE CaptureDecodeFails
  BY <1>3 DEF CaptureDecodeFails
<1>4. ASSUME NEW k \in Keys, CaptureDecodes(k) PROVE QuietInv'
  BY <1>4 DEF CaptureDecodes
<1>5. CASE CaptureEnqueues
  BY <1>5 DEF CaptureEnqueues
<1>6. CASE CapturePauseEnds
  BY <1>6 DEF CapturePauseEnds
<1>7. CASE RouterWaits
  BY <1>7 DEF RouterWaits
<1>8. CASE RouterForwards
  BY <1>8 DEF RouterForwards
<1>9. CASE RouterSendEnds
  BY <1>9 DEF RouterSendEnds
<1>10. CASE MqttNext
  BY <1>10 DEF MqttNext, MqttOpensSession, MqttSetupEnds, MqttTakes,
               MqttIdleReconnect, MqttPublishes, MqttPublishFails, MqttSessionEnds
<1>11. CASE OtaSends
  BY <1>11 DEF OtaSends
<1>12. CASE Tick
  BY <1>12 DEF Tick
<1>13. CASE UNCHANGED vars
  BY <1>13 DEF vars
<1> QED
  BY <1>1, <1>2, <1>3, <1>4, <1>5, <1>6, <1>7, <1>8, <1>9, <1>10, <1>11, <1>12,
     <1>13 DEF Next, CaptureNext, RouterNext

\* However the tasks interleave with the OTA, an attempt sees at most one
\* reading admitted and one routed, from waits that began before it.
THEOREM QuietOta == Spec => []QuietDuringOta
<1>1. Init => QuietInv
  BY DEF Init, QuietInv, QuietDuringOta
<1>2. QuietInv => QuietDuringOta
  BY DEF QuietInv
<1> QED
  BY <1>1, <1>2, QuietStep, PTL DEF Spec

(***************************************************************************)
(* PublishedInOrder.  Its strengthening says where the single readings    *)
(* outside the channels can be.                                           *)
(***************************************************************************)
\* Concatenation and appending under names of their own, so that the lemmas about
\* the line use the facts of CatFacts and nothing else of them.
Cat(s, t) == s \o t
One(e) == <<e>>
Added(s, e) == Append(s, e)
Readings == Seq(Reading)

\* Moving the head of one part to the end of the part before it changes nothing.
LEMMA AppendShift ==
  ASSUME NEW S, NEW s \in Seq(S), NEW t \in Seq(S), t # <<>>
  PROVE  /\ Append(s, Head(t)) \o Tail(t) = s \o t
         /\ <<Head(t)>> \o Tail(t) = t
         /\ Head(t) \in S /\ Tail(t) \in Seq(S)
OBVIOUS

\* Concatenation is associative with the empty sequence as its unit, and a
\* reading is appended by concatenating it.
LEMMA CatFacts ==
  /\ \A s, t \in Readings : Cat(s, t) \in Readings
  /\ \A s, t, u \in Readings : Cat(Cat(s, t), u) = Cat(s, Cat(t, u))
  /\ \A s \in Readings : Cat(<<>>, s) = s /\ Cat(s, <<>>) = s
  /\ \A s \in Readings, e \in Reading : Added(s, e) = Cat(s, One(e)) /\ One(e) \in Readings
  /\ \A t \in Readings : t # <<>> =>
       Head(t) \in Reading /\ Tail(t) \in Readings /\ Cat(One(Head(t)), Tail(t)) = t
  /\ <<>> \in Readings
<1> USE DEF Cat, One, Added, Readings
<1>1. \A s, t \in Readings : Cat(s, t) \in Readings
  OBVIOUS
<1>2. \A s, t, u \in Readings : Cat(Cat(s, t), u) = Cat(s, Cat(t, u))
  OBVIOUS
<1>3. \A s \in Readings : Cat(<<>>, s) = s /\ Cat(s, <<>>) = s
  OBVIOUS
<1>4. \A s \in Readings, e \in Reading : Added(s, e) = Cat(s, One(e)) /\ One(e) \in Readings
  OBVIOUS
<1>5. ASSUME NEW t \in Readings, t # <<>>
      PROVE  Head(t) \in Reading /\ Tail(t) \in Readings /\ Cat(One(Head(t)), Tail(t)) = t
  BY <1>5, AppendShift
<1>6. <<>> \in Readings
  OBVIOUS
<1> HIDE DEF Cat, One, Added, Readings
<1> QED
  BY <1>1, <1>2, <1>3, <1>4, <1>5, <1>6, Zenon

\* The readings in line, nested as the lemmas below want them and as in InPipeline.
Pipe(p, d, c, m, h, k) == Cat(p, Cat(Cat(Cat(Cat(d, c), m), h), k))
Line(p, d, c, m, h, k) == Cat(p, Cat(d, Cat(c, Cat(m, Cat(h, k)))))

\* InPipeline's nesting and the lemmas' are the same line.
LEMMA LineUp ==
  ASSUME NEW p \in Readings, NEW d \in Readings, NEW c \in Readings, NEW m \in Readings,
         NEW h \in Readings, NEW k \in Readings
  PROVE  Pipe(p, d, c, m, h, k) = Line(p, d, c, m, h, k)
<1>1. /\ Cat(d, c) \in Readings /\ Cat(Cat(d, c), m) \in Readings
      /\ Cat(h, k) \in Readings /\ Cat(m, Cat(h, k)) \in Readings
  BY CatFacts
<1>2. /\ Cat(Cat(Cat(Cat(d, c), m), h), k) = Cat(Cat(Cat(d, c), m), Cat(h, k))
      /\ Cat(Cat(Cat(d, c), m), Cat(h, k)) = Cat(Cat(d, c), Cat(m, Cat(h, k)))
      /\ Cat(Cat(d, c), Cat(m, Cat(h, k))) = Cat(d, Cat(c, Cat(m, Cat(h, k))))
  BY <1>1, CatFacts
<1> QED
  BY <1>2 DEF Line, Pipe

\* A reading moves from the head of one channel to the end of the next.
LEMMA LineRoute ==
  ASSUME NEW p \in Readings, NEW d \in Readings, NEW c \in Readings, NEW m \in Readings,
         NEW k \in Readings, k # <<>>
  PROVE  /\ Line(p, d, c, Added(m, Head(k)), <<>>, Tail(k)) = Line(p, d, c, m, <<>>, k)
         /\ Line(p, d, c, m, One(Head(k)), Tail(k)) = Line(p, d, c, m, <<>>, k)
<1>1. Head(k) \in Reading /\ Tail(k) \in Readings /\ Cat(One(Head(k)), Tail(k)) = k
  BY CatFacts
<1>2. Cat(<<>>, k) = k /\ Cat(<<>>, Tail(k)) = Tail(k)
  BY <1>1, CatFacts
<1>3. Added(m, Head(k)) = Cat(m, One(Head(k))) /\ One(Head(k)) \in Readings
  BY <1>1, CatFacts
<1>4. Cat(Cat(m, One(Head(k))), Tail(k)) = Cat(m, Cat(One(Head(k)), Tail(k)))
  BY <1>1, <1>3, CatFacts
<1> QED
  BY <1>1, <1>2, <1>3, <1>4 DEF Line

\* The reading in the router's hand goes to the end of the MQTT channel.
LEMMA LineSend ==
  ASSUME NEW p \in Readings, NEW d \in Readings, NEW c \in Readings, NEW m \in Readings,
         NEW h \in Readings, NEW k \in Readings
  PROVE  Line(p, d, c, Cat(m, h), <<>>, k) = Line(p, d, c, m, h, k)
BY CatFacts DEF Line

\* mqtt_task takes the deferred reading, or gives up the current one,
LEMMA LineSwap ==
  ASSUME NEW p \in Readings, NEW d \in Readings, NEW m \in Readings,
         NEW h \in Readings, NEW k \in Readings
  PROVE  Line(p, <<>>, d, m, h, k) = Line(p, d, <<>>, m, h, k)
BY CatFacts DEF Line

\* takes one from its channel,
LEMMA LineTake ==
  ASSUME NEW p \in Readings, NEW m \in Readings, NEW h \in Readings, NEW k \in Readings,
         m # <<>>
  PROVE  /\ Line(p, <<>>, One(Head(m)), Tail(m), h, k) = Line(p, <<>>, <<>>, m, h, k)
         /\ Line(p, One(Head(m)), <<>>, Tail(m), h, k) = Line(p, <<>>, <<>>, m, h, k)
<1>1. Head(m) \in Reading /\ Tail(m) \in Readings /\ Cat(One(Head(m)), Tail(m)) = m
  BY CatFacts
<1>2. /\ One(Head(m)) \in Readings /\ Cat(h, k) \in Readings
      /\ Cat(Tail(m), Cat(h, k)) \in Readings /\ Cat(m, Cat(h, k)) \in Readings
  BY <1>1, CatFacts
<1>3. Cat(Cat(One(Head(m)), Tail(m)), Cat(h, k)) = Cat(One(Head(m)), Cat(Tail(m), Cat(h, k)))
  BY <1>1, <1>2, CatFacts
<1>4. /\ Cat(<<>>, Cat(m, Cat(h, k))) = Cat(m, Cat(h, k))
      /\ Cat(<<>>, Cat(Tail(m), Cat(h, k))) = Cat(Tail(m), Cat(h, k))
  BY <1>2, CatFacts
<1> QED
  BY <1>1, <1>3, <1>4 DEF Line

\* publishes the current one.
LEMMA LinePublish ==
  ASSUME NEW p \in Readings, NEW m \in Readings, NEW h \in Readings, NEW k \in Readings,
         NEW x \in Reading
  PROVE  Line(Added(p, x), <<>>, <<>>, m, h, k) = Line(p, <<>>, One(x), m, h, k)
<1>1. One(x) \in Readings /\ Cat(h, k) \in Readings /\ Cat(m, Cat(h, k)) \in Readings
  BY CatFacts
<1>2. Cat(One(x), Cat(m, Cat(h, k))) \in Readings /\ Added(p, x) = Cat(p, One(x))
  BY <1>1, CatFacts
<1>3. /\ Cat(<<>>, Cat(m, Cat(h, k))) = Cat(m, Cat(h, k))
      /\ Cat(<<>>, Cat(One(x), Cat(m, Cat(h, k)))) = Cat(One(x), Cat(m, Cat(h, k)))
      /\ Cat(Cat(p, One(x)), Cat(m, Cat(h, k))) = Cat(p, Cat(One(x), Cat(m, Cat(h, k))))
  BY <1>1, <1>2, CatFacts
<1> QED
  BY <1>2, <1>3 DEF Line

\* A hand holds one reading or none.
LEMMA OptionalReading ==
  /\ <<>> \in Optional
  /\ \A r \in Reading : <<r>> \in Optional
  /\ \A x \in Optional : x \in Seq(Reading)
  /\ \A x \in Optional : x # <<>> => x[1] \in Reading /\ x = <<x[1]>>
<1>1. /\ <<>> \in Optional
      /\ \A r \in Reading : <<r>> \in Optional
  BY DEF Optional
<1>2. ASSUME NEW x \in Optional, x # <<>>
      PROVE  x[1] \in Reading /\ x = <<x[1]>> /\ x \in Seq(Reading)
  <2>1. PICK r \in Reading : x = <<r>>
    BY <1>2 DEF Optional
  <2> QED
    BY <2>1
<1>3. <<>> \in Seq(Reading)
  OBVIOUS
<1> QED
  BY <1>1, <1>2, <1>3, Zenon

SingleReadings ==
  /\ now \in 0..MaxNow /\ decoded \in Keys
  /\ radioChannel \in Seq(Reading) /\ mqttChannel \in Seq(Reading)
  /\ queued \in Seq(Reading) /\ published \in Seq(Reading)
  /\ held \in Optional /\ deferred \in Optional /\ current \in Optional
  /\ routerPc # "send" => held = <<>>
  /\ mqttPc # "publish" => current = <<>>
  /\ mqttPc = "publish" => deferred = <<>> /\ current # <<>>

OrderInv == SingleReadings /\ PublishedInOrder

\* Time stops at its bound.
LEMMA TickBound ==
  ASSUME now \in 0..MaxNow, Tick
  PROVE  now' \in 0..MaxNow
BY PipelineAssumption DEF Tick

\* Every step leaves at most one reading in a hand.
LEMMA SingleStep == SingleReadings /\ [Next]_vars => SingleReadings'
<1> SUFFICES ASSUME SingleReadings, [Next]_vars PROVE SingleReadings'
  OBVIOUS
<1> USE OptionalReading DEF SingleReadings, clockVars, captureVars, channelVars,
        routerVars, mqttVars, histories
<1>1. CASE CaptureListens \/ CaptureInterrupted \/ CaptureDecodeFails \/ CapturePauseEnds
  BY <1>1 DEF CaptureListens, CaptureInterrupted, CaptureDecodeFails, CapturePauseEnds
<1>2. ASSUME NEW k \in Keys, CaptureDecodes(k) PROVE SingleReadings'
  BY <1>2 DEF CaptureDecodes
<1>3. CASE CaptureEnqueues
  <2>1. [key |-> decoded, received_at |-> now] \in Reading
    BY DEF Reading
  <2>2. \A q \in Seq(Reading) :
          Append(q, [key |-> decoded, received_at |-> now]) \in Seq(Reading)
    BY <2>1
  <2>3. radioChannel' \in Seq(Reading) /\ queued' \in Seq(Reading)
    BY <1>3, <2>2, Zenon DEF CaptureEnqueues
  <2>4. UNCHANGED <<now, decoded, mqttChannel, published, routerPc, held, mqttPc,
                    deferred, current>>
    BY <1>3, Zenon DEF CaptureEnqueues
  <2> QED
    BY <2>3, <2>4
<1>4. CASE RouterWaits
  BY <1>4 DEF RouterWaits
<1>14. CASE RouterSendEnds
  <2>1. mqttChannel \o held \in Seq(Reading)
    BY CatFacts, OptionalReading, Zenon DEF Cat, Readings
  <2> QED
    BY <1>14, <2>1 DEF RouterSendEnds
<1>5. CASE RouterForwards
  <2>1. Head(radioChannel) \in Reading /\ Tail(radioChannel) \in Seq(Reading)
    BY <1>5, AppendShift DEF RouterForwards
  <2>2. <<Head(radioChannel)>> \in Optional
    BY <2>1
  <2> QED
    BY <1>5, <2>1, <2>2 DEF RouterForwards
<1>6. CASE MqttTakes
  <2>1. mqttChannel # <<>> =>
          /\ Head(mqttChannel) \in Reading /\ Tail(mqttChannel) \in Seq(Reading)
          /\ <<Head(mqttChannel)>> \in Optional /\ <<Head(mqttChannel)>> # <<>>
    BY AppendShift
  <2> QED
    BY <1>6, <2>1 DEF MqttTakes
<1>7. CASE MqttIdleReconnect
  <2>1. /\ Head(mqttChannel) \in Reading /\ Tail(mqttChannel) \in Seq(Reading)
        /\ <<Head(mqttChannel)>> \in Optional
    BY <1>7, AppendShift DEF MqttIdleReconnect
  <2> QED
    BY <1>7, <2>1 DEF MqttIdleReconnect
<1>8. CASE MqttPublishes
  <2>1. mqttPc = "publish" /\ current[1] \in Reading
    BY <1>8, Zenon DEF MqttPublishes
  <2>2. Append(published, current[1]) \in Seq(Reading)
    BY <2>1
  <2> QED
    BY <1>8, <2>1, <2>2 DEF MqttPublishes
<1>13. CASE MqttPublishFails
  BY <1>13 DEF MqttPublishFails
<1>9. CASE MqttOpensSession \/ MqttSetupEnds \/ MqttSessionEnds
  BY <1>9 DEF MqttOpensSession, MqttSetupEnds, MqttSessionEnds
<1>10. CASE OtaSends
  BY <1>10 DEF OtaSends
<1>11. CASE Tick
  <2>1. now' \in 0..MaxNow
    BY <1>11, TickBound, Zenon
  <2>2. UNCHANGED <<decoded, radioChannel, mqttChannel, queued, published, held, deferred,
                    current, routerPc, mqttPc>>
    BY <1>11, Zenon DEF Tick
  <2> QED
    BY <2>1, <2>2
<1>12. CASE UNCHANGED vars
  BY <1>12 DEF vars
<1> QED
  BY <1>1, <1>2, <1>3, <1>4, <1>5, <1>6, <1>7, <1>8, <1>9, <1>10, <1>11, <1>12,
     <1>13, <1>14 DEF Next, CaptureNext, RouterNext, MqttNext

InLine == Line(published, deferred, current, mqttChannel, held, radioChannel)
InHand ==
  /\ held \in Readings /\ deferred \in Readings /\ current \in Readings
  /\ radioChannel \in Readings /\ mqttChannel \in Readings /\ published \in Readings
lineVars == <<published, deferred, current, mqttChannel, held, radioChannel, queued>>

\* A reading joins at the end of the line.
LEMMA LineAppend ==
  ASSUME InHand, NEW e \in Reading
  PROVE  Line(published, deferred, current, mqttChannel, held, Added(radioChannel, e))
           = Added(InLine, e)
<1> DEFINE p == published
           d == deferred
           c == current
           m == mqttChannel
           h == held
           k == radioChannel
<1>0. /\ p \in Readings /\ d \in Readings /\ c \in Readings /\ m \in Readings
      /\ h \in Readings /\ k \in Readings /\ InLine = Line(p, d, c, m, h, k)
  BY DEF InHand, InLine
<1> HIDE DEF p, d, c, m, h, k
<1>1. /\ Cat(h, k) \in Readings /\ Cat(m, Cat(h, k)) \in Readings
      /\ Cat(c, Cat(m, Cat(h, k))) \in Readings
      /\ Cat(d, Cat(c, Cat(m, Cat(h, k)))) \in Readings
      /\ Line(p, d, c, m, h, k) \in Readings
  BY <1>0, CatFacts DEF Line
<1>2. Added(k, e) = Cat(k, One(e)) /\ One(e) \in Readings
  BY <1>0, CatFacts
<1> DEFINE o == One(e)
<1>3. Cat(h, Cat(k, o)) = Cat(Cat(h, k), o)
  BY <1>0, <1>2, CatFacts
<1>4. Cat(m, Cat(Cat(h, k), o)) = Cat(Cat(m, Cat(h, k)), o)
  BY <1>0, <1>1, <1>2, CatFacts
<1>5. Cat(c, Cat(Cat(m, Cat(h, k)), o)) = Cat(Cat(c, Cat(m, Cat(h, k))), o)
  BY <1>0, <1>1, <1>2, CatFacts
<1>6. Cat(d, Cat(Cat(c, Cat(m, Cat(h, k))), o)) = Cat(Cat(d, Cat(c, Cat(m, Cat(h, k)))), o)
  BY <1>0, <1>1, <1>2, CatFacts
<1>7. Cat(p, Cat(Cat(d, Cat(c, Cat(m, Cat(h, k)))), o)) = Cat(Line(p, d, c, m, h, k), o)
  BY <1>0, <1>1, <1>2, CatFacts DEF Line
<1>8. Added(Line(p, d, c, m, h, k), e) = Cat(Line(p, d, c, m, h, k), o)
  BY <1>1, CatFacts
<1> QED
  BY <1>0, <1>2, <1>3, <1>4, <1>5, <1>6, <1>7, <1>8 DEF Line, p, d, c, m, h, k

\* PublishedInOrder, stated with the line of the lemmas.
LEMMA InOrder == SingleReadings => (PublishedInOrder <=> InLine = queued)
<1> SUFFICES ASSUME SingleReadings PROVE published \o InPipeline = InLine
  BY DEF PublishedInOrder
<1>1. /\ held \in Readings /\ deferred \in Readings /\ current \in Readings
      /\ radioChannel \in Readings /\ mqttChannel \in Readings /\ published \in Readings
  BY OptionalReading, Zenon DEF SingleReadings, Readings
<1>2. published \o InPipeline =
        Pipe(published, deferred, current, mqttChannel, held, radioChannel)
  BY Zenon DEF Pipe, InPipeline, Cat
<1> QED
  BY <1>1, <1>2, LineUp DEF InLine

\* Every step moves readings along the line, or adds one that is queued at its end.
LEMMA OrderStep == OrderInv /\ [Next]_vars => OrderInv'
<1>i. (SingleReadings => (PublishedInOrder <=> InLine = queued))'
  BY InOrder, PTL
<1> SUFFICES ASSUME OrderInv, [Next]_vars PROVE OrderInv'
  OBVIOUS
<1>0. SingleReadings
  BY DEF OrderInv
<1>q. InLine = queued
  BY <1>0, InOrder DEF OrderInv
<1>s. /\ held \in Readings /\ deferred \in Readings /\ current \in Readings
      /\ radioChannel \in Readings /\ mqttChannel \in Readings /\ published \in Readings
  BY <1>0, OptionalReading, Zenon DEF SingleReadings, Readings
<1>l. UNCHANGED lineVars => InLine' = queued'
  BY <1>q DEF lineVars, InLine
<1> USE DEF clockVars, captureVars, channelVars, routerVars, mqttVars, histories
<1>1. ASSUME CaptureListens \/ CaptureInterrupted \/ CaptureDecodeFails \/ CapturePauseEnds PROVE InLine' = queued'
  BY <1>1, <1>l DEF lineVars, CaptureListens, CaptureInterrupted, CaptureDecodeFails,
                    CapturePauseEnds
<1>2. ASSUME NEW k \in Keys, CaptureDecodes(k) PROVE InLine' = queued'
  BY <1>2, <1>l DEF lineVars, CaptureDecodes
<1>3. ASSUME CaptureEnqueues PROVE InLine' = queued'
  <2> DEFINE r == [key |-> decoded, received_at |-> now]
  <2>1. r \in Reading
    BY <1>0 DEF Reading, SingleReadings
  <2>2. \/ UNCHANGED <<radioChannel, queued>>
        \/ radioChannel' = Append(radioChannel, r) /\ queued' = Append(queued, r)
    BY <1>3, Zenon DEF CaptureEnqueues
  <2>3. UNCHANGED <<published, deferred, current, mqttChannel, held>>
    BY <1>3, Zenon DEF CaptureEnqueues
  <2> HIDE DEF r
  <2>4. \A e \in Reading :
          Line(published, deferred, current, mqttChannel, held, Added(radioChannel, e))
            = Added(InLine, e)
    BY <1>s, LineAppend DEF InHand
  <2> QED
    BY <1>q, <2>1, <2>2, <2>3, <2>4, Zenon DEF InLine, Added
<1>4. ASSUME RouterWaits PROVE InLine' = queued'
  BY <1>4, <1>l DEF lineVars, RouterWaits
<1>5. ASSUME RouterForwards PROVE InLine' = queued'
  <2>1. held = <<>> /\ radioChannel # <<>>
    BY <1>0, <1>5 DEF SingleReadings, RouterForwards
  <2>2. UNCHANGED <<published, deferred, current, queued>>
    BY <1>5, Zenon DEF RouterForwards
  <2>3. /\ radioChannel' = Tail(radioChannel)
        /\ \/ /\ mqttChannel' = Append(mqttChannel, Head(radioChannel)) /\ held' = <<>>
           \/ mqttChannel' = mqttChannel /\ held' = <<Head(radioChannel)>>
    BY <1>5, Zenon DEF RouterForwards
  <2>4. /\ Line(published, deferred, current, Added(mqttChannel, Head(radioChannel)),
                <<>>, Tail(radioChannel)) = InLine
        /\ Line(published, deferred, current, mqttChannel, One(Head(radioChannel)),
                Tail(radioChannel)) = InLine
    BY <1>s, <2>1, LineRoute DEF InLine
  <2> QED
    BY <1>q, <2>1, <2>2, <2>3, <2>4, Zenon DEF InLine, Added, One
<1>6. ASSUME RouterSendEnds PROVE InLine' = queued'
  <2>1. Line(published, deferred, current, Cat(mqttChannel, held), <<>>, radioChannel)
          = InLine
    BY <1>s, LineSend DEF InLine
  <2> QED
    BY <1>6, <1>q, <2>1, Zenon DEF RouterSendEnds, InLine, Cat
<1>7. ASSUME MqttTakes PROVE InLine' = queued'
  <2>1. current = <<>>
    BY <1>0, <1>7 DEF SingleReadings, MqttTakes
  <2>2. /\ Line(published, <<>>, deferred, mqttChannel, held, radioChannel)
             = Line(published, deferred, <<>>, mqttChannel, held, radioChannel)
        /\ mqttChannel # <<>> =>
             Line(published, <<>>, One(Head(mqttChannel)), Tail(mqttChannel), held,
                  radioChannel)
               = Line(published, <<>>, <<>>, mqttChannel, held, radioChannel)
    BY <1>s, LineSwap, LineTake
  <2>3. UNCHANGED <<published, held, radioChannel, queued>>
    BY <1>7, Zenon DEF MqttTakes
  <2>4. \/ current' = deferred /\ deferred' = <<>> /\ mqttChannel' = mqttChannel
        \/ /\ deferred = <<>> /\ deferred' = <<>> /\ mqttChannel # <<>>
           /\ current' = <<Head(mqttChannel)>> /\ mqttChannel' = Tail(mqttChannel)
    BY <1>7, Zenon DEF MqttTakes
  <2> QED
    BY <1>q, <2>1, <2>2, <2>3, <2>4, Zenon DEF InLine, One
<1>8. ASSUME MqttIdleReconnect PROVE InLine' = queued'
  <2>1. current = <<>> /\ deferred = <<>> /\ mqttChannel # <<>>
    BY <1>0, <1>8 DEF SingleReadings, MqttIdleReconnect
  <2>2. Line(published, One(Head(mqttChannel)), <<>>, Tail(mqttChannel), held, radioChannel)
          = Line(published, <<>>, <<>>, mqttChannel, held, radioChannel)
    BY <1>s, <2>1, LineTake
  <2> QED
    BY <1>8, <1>q, <2>1, <2>2, Zenon DEF MqttIdleReconnect, InLine, One
<1>9. ASSUME MqttPublishes PROVE InLine' = queued'
  <2>1. deferred = <<>> /\ current[1] \in Reading /\ current = <<current[1]>>
    BY <1>0, <1>9, OptionalReading, Zenon DEF SingleReadings, MqttPublishes
  <2>2. Line(Added(published, current[1]), <<>>, <<>>, mqttChannel, held, radioChannel)
          = Line(published, <<>>, One(current[1]), mqttChannel, held, radioChannel)
    BY <1>s, <2>1, LinePublish
  <2> QED
    BY <1>9, <1>q, <2>1, <2>2, Zenon DEF MqttPublishes, InLine, Added, One
<1>10. ASSUME MqttPublishFails PROVE InLine' = queued'
  <2>1. deferred = <<>>
    BY <1>0, <1>10 DEF SingleReadings, MqttPublishFails
  <2>2. Line(published, <<>>, current, mqttChannel, held, radioChannel)
          = Line(published, current, <<>>, mqttChannel, held, radioChannel)
    BY <1>s, LineSwap
  <2> QED
    BY <1>10, <1>q, <2>1, <2>2, Zenon DEF MqttPublishFails, InLine
<1>11. ASSUME MqttOpensSession \/ MqttSetupEnds \/ MqttSessionEnds PROVE InLine' = queued'
  BY <1>11, <1>l DEF lineVars, MqttOpensSession, MqttSetupEnds, MqttSessionEnds
<1>12. ASSUME OtaSends \/ Tick PROVE InLine' = queued'
  BY <1>12, <1>l DEF lineVars, OtaSends, Tick
<1>13. ASSUME UNCHANGED vars PROVE InLine' = queued'
  BY <1>13, <1>l DEF lineVars, vars
<1>14. InLine' = queued'
  BY <1>1, <1>2, <1>3, <1>4, <1>5, <1>6, <1>7, <1>8, <1>9, <1>10, <1>11, <1>12,
     <1>13 DEF Next, CaptureNext, RouterNext, MqttNext
<1>15. SingleReadings'
  BY <1>0, SingleStep
<1> QED
  BY <1>i, <1>14, <1>15 DEF OrderInv

\* What was published, then what the tasks and channels hold, is what was
\* queued: no order of forwards, full channels, failed publishes, reconnects and
\* OTA attempts loses a queued reading or lets one overtake another.
THEOREM NothingLostOrOvertaken == Spec => []PublishedInOrder
<1>1. Init => OrderInv
  <2> SUFFICES ASSUME Init PROVE OrderInv
    OBVIOUS
  <2>1. SingleReadings
    BY OptionalReading, PipelineAssumption DEF Init, SingleReadings
  <2>2. PublishedInOrder
    BY DEF Init, PublishedInOrder, InPipeline
  <2> QED
    BY <2>1, <2>2 DEF OrderInv
<1>2. OrderInv => PublishedInOrder
  BY DEF OrderInv
<1> QED
  BY <1>1, <1>2, OrderStep, PTL DEF Spec

(***************************************************************************)
(* RepeatOnlyAfterEviction.  Time never runs back, so the entries expire   *)
(* in the order they were pushed: what is let through and has not expired  *)
(* is still in the cache, or a cache full of others was pushed after it.   *)
(***************************************************************************)
EntryOf(e) ==
  /\ e.pushed \in DOMAIN observed
  /\ e.key = observed[e.pushed].key
  /\ e.expires_at = observed[e.pushed].received_at + DEDUPE_TTL

CacheInv ==
  /\ now \in 0..MaxNow /\ decoded \in Keys /\ observed \in Seq(Reading)
  /\ cache \subseteq [key : Keys, expires_at : Nat, pushed : Nat]
  /\ IsFiniteSet(cache) /\ Cardinality(cache) <= DEDUPE_CAPACITY
  /\ \A i, j \in DOMAIN observed :
       i <= j => observed[i].received_at <= observed[j].received_at
  /\ \A i \in DOMAIN observed : observed[i].received_at <= now
  /\ \A e \in cache : EntryOf(e)
  /\ \A i \in DOMAIN observed :
       now < observed[i].received_at + DEDUPE_TTL =>
         \/ \E e \in cache : e.pushed = i
         \/ Len(observed) - i >= DEDUPE_CAPACITY
  /\ RepeatOnlyAfterEviction

\* Every nonempty set of positions has a least one.
LEMMA LeastPosition ==
  ASSUME NEW T, T \subseteq Nat, T # {}
  PROVE  \E x \in T : \A y \in T : x <= y
<1>1. PICK x \in T : \A y \in T : ~(<<y, x>> \in OpToRel(<, Nat))
  BY NatLessThanWellFounded, WFMin
<1>2. ASSUME NEW y \in T PROVE x <= y
  <2>1. <<y, x>> \in Nat \X Nat
    OBVIOUS
  <2>2. ~(y < x)
    BY <1>1, <2>1, Zenon DEF OpToRel
  <2> QED
    BY <2>2
<1> QED
  BY <1>2

\* Entries of the cache are as many as their positions.
LEMMA EntriesFit ==
  ASSUME NEW c, NEW m \in Nat, NEW n \in Nat, m <= n,
         \A e \in c : e.pushed \in m..n,
         \A e, f \in c : e.pushed = f.pushed => e = f
  PROVE  Cardinality(c) <= n - m + 1
<1> DEFINE g == [e \in c |-> e.pushed]
<1>1. g \in Injection(c, m..n)
  BY DEF Injection, IsInjective
<1> QED
  BY <1>1, FS_Injection, FS_Interval

\* evict_oldest takes one entry, and all the others were pushed after it.
LEMMA OldestGoes ==
  ASSUME CacheInv, NEW c \in SUBSET cache, Cardinality(c) >= DEDUPE_CAPACITY
  PROVE  \E e \in c : /\ evict_oldest(c) = c \ {e}
                      /\ Len(observed) + 1 - e.pushed >= DEDUPE_CAPACITY
<1> USE PipelineAssumption
<1> DEFINE First(e) == \A f \in c : \/ e.expires_at < f.expires_at
                                    \/ e.expires_at = f.expires_at /\ e.pushed <= f.pushed
           T == {e.pushed : e \in c}
<1>1. IsFiniteSet(c) /\ c # {}
  BY FS_Subset, FS_EmptySet DEF CacheInv
<1>t. \A e \in c : /\ e.pushed \in DOMAIN observed /\ e.pushed \in Nat
                   /\ e \in [key : Keys, expires_at : Nat, pushed : Nat]
                   /\ EntryOf(e)
  BY DEF CacheInv, EntryOf
<1>o. \A i \in DOMAIN observed : observed[i].received_at \in Nat
  <2>1. \A i \in DOMAIN observed : observed[i] \in Reading
    BY DEF CacheInv
  <2> QED
    BY <2>1 DEF Reading
<1>m. \A i, j \in DOMAIN observed :
        i <= j => observed[i].received_at <= observed[j].received_at
  BY DEF CacheInv
<1>2. PICK m \in T : \A y \in T : m <= y
  <2>1. T \subseteq Nat /\ T # {}
    BY <1>1, <1>t
  <2> HIDE DEF T
  <2> QED
    BY <2>1, LeastPosition, Zenon
<1>3. PICK e0 \in c : e0.pushed = m
  OBVIOUS
<1>4. First(e0)
  <2> SUFFICES ASSUME NEW f \in c
               PROVE  \/ e0.expires_at < f.expires_at
                      \/ e0.expires_at = f.expires_at /\ e0.pushed <= f.pushed
    OBVIOUS
  <2>1. e0.pushed <= f.pushed
    BY <1>2, <1>3
  <2>2. observed[e0.pushed].received_at <= observed[f.pushed].received_at
    BY <1>t, <1>m, <2>1
  <2> QED
    BY <1>t, <1>o, <2>1, <2>2 DEF EntryOf
<1> DEFINE e == CHOOSE x \in c : First(x)
<1>5. e \in c /\ First(e) /\ evict_oldest(c) = c \ {e}
  BY <1>4 DEF evict_oldest
<1> HIDE DEF e
<1>6. ASSUME NEW f \in c PROVE e.pushed <= f.pushed
  <2>1. CASE f.pushed < e.pushed
    <3>1. observed[f.pushed].received_at <= observed[e.pushed].received_at
      BY <1>t, <1>m, <1>5, <2>1
    <3>2. f.expires_at <= e.expires_at
      BY <1>t, <1>o, <1>5, <3>1 DEF EntryOf
    <3> QED
      BY <1>t, <1>5, <2>1, <3>2
  <2> QED
    BY <1>t, <1>5, <2>1
<1>7. \A f, h \in c : f.pushed = h.pushed => f = h
  BY <1>t DEF EntryOf
<1>8. Len(observed) \in Nat /\ DOMAIN observed = 1..Len(observed)
  BY DEF CacheInv
<1>9. Cardinality(c) <= Len(observed) - e.pushed + 1
  <2>1. \A f \in c : f.pushed \in e.pushed..Len(observed)
    BY <1>t, <1>5, <1>6, <1>8
  <2> QED
    BY <1>t, <1>5, <1>7, <1>8, <2>1, EntriesFit
<1>10. Cardinality(c) \in Nat
  BY <1>1, FS_CardinalityType
<1> QED
  BY <1>t, <1>5, <1>8, <1>9, <1>10
\* What the cache holds after observe: the entries that have not expired but for
\* one that a cache full of others follows, and the new entry.
LEMMA Remembered ==
  ASSUME CacheInv, NEW k \in Keys
  PROVE  LET n == Len(observed)
             x == [key |-> k, expires_at |-> now + DEDUPE_TTL, pushed |-> n + 1]
         IN  /\ x \in Remember(k) /\ \A e \in Remember(k) : e = x \/ e \in cache
             /\ IsFiniteSet(Remember(k)) /\ Cardinality(Remember(k)) <= DEDUPE_CAPACITY
             /\ \A e \in cache : now < e.expires_at =>
                  e \in Remember(k) \/ n + 1 - e.pushed >= DEDUPE_CAPACITY
<1> USE PipelineAssumption
<1> DEFINE x == [key |-> k, expires_at |-> now + DEDUPE_TTL, pushed |-> Len(observed) + 1]
           kept == prune_expired(cache, now)
           room == IF Cardinality(kept) < DEDUPE_CAPACITY THEN kept ELSE evict_oldest(kept)
<1>1. /\ kept \in SUBSET cache /\ IsFiniteSet(kept) /\ Cardinality(kept) \in Nat
      /\ Cardinality(kept) <= DEDUPE_CAPACITY
  <2>1. kept \in SUBSET cache /\ IsFiniteSet(cache) /\ Cardinality(cache) <= DEDUPE_CAPACITY
    BY DEF CacheInv, prune_expired
  <2> HIDE DEF kept
  <2>2. IsFiniteSet(kept) /\ Cardinality(kept) <= Cardinality(cache)
    BY <2>1, FS_Subset
  <2> QED
    BY <2>1, <2>2, FS_CardinalityType
<1>k. \A e \in cache : now < e.expires_at => e \in kept
  BY DEF prune_expired
<1>r. Remember(k) = room \cup {x}
  BY DEF Remember
<1> HIDE DEF kept, x
<1>2. /\ room \subseteq kept /\ IsFiniteSet(room) /\ Cardinality(room) \in Nat
      /\ Cardinality(room) < DEDUPE_CAPACITY
      /\ \A e \in kept : e \in room \/ Len(observed) + 1 - e.pushed >= DEDUPE_CAPACITY
  <2>1. CASE Cardinality(kept) < DEDUPE_CAPACITY
    BY <1>1, <2>1
  <2>2. CASE ~(Cardinality(kept) < DEDUPE_CAPACITY)
    <3>1. PICK e \in kept : /\ evict_oldest(kept) = kept \ {e}
                            /\ Len(observed) + 1 - e.pushed >= DEDUPE_CAPACITY
      BY <1>1, <2>2, OldestGoes
    <3>2. room = kept \ {e}
      BY <2>2, <3>1
    <3>3. IsFiniteSet(kept \ {e}) /\ Cardinality(kept \ {e}) = Cardinality(kept) - 1
      BY <1>1, FS_RemoveElement
    <3>4. Cardinality(kept \ {e}) \in Nat
      BY <3>3, FS_CardinalityType
    <3> QED
      BY <1>1, <3>1, <3>2, <3>3, <3>4
  <2> QED
    BY <2>1, <2>2
<1> HIDE DEF room
<1>3. IsFiniteSet(room \cup {x}) /\ Cardinality(room \cup {x}) <= DEDUPE_CAPACITY
  <2>1. /\ IsFiniteSet(room \cup {x})
        /\ Cardinality(room \cup {x}) = IF x \in room THEN Cardinality(room)
                                       ELSE Cardinality(room) + 1
    BY <1>2, FS_AddElement, Zenon
  <2> QED
    BY <1>2, <2>1
<1> QED
  BY <1>1, <1>2, <1>3, <1>k, <1>r, Zenon DEF x

\* The cache, the clock and what was let through stay as CacheInv says.
LEMMA CacheStep == CacheInv /\ [Next]_vars => CacheInv'
<1> SUFFICES ASSUME CacheInv, [Next]_vars PROVE CacheInv'
  OBVIOUS
<1> USE PipelineAssumption
<1>u. ASSUME UNCHANGED <<now, observed, cache>>, decoded' \in Keys PROVE CacheInv'
  BY <1>u, Zenon DEF CacheInv, EntryOf, RepeatOnlyAfterEviction
<1>k. decoded \in Keys
  BY DEF CacheInv
<1>1. CASE CaptureNext /\ ~CaptureEnqueues
  BY <1>1, <1>k, <1>u DEF CaptureNext, CaptureListens, CaptureInterrupted, CaptureDecodeFails,
          CaptureDecodes, CapturePauseEnds, clockVars, histories
<1>2. CASE RouterNext \/ MqttNext \/ OtaSends \/ UNCHANGED vars
  BY <1>2, <1>k, <1>u DEF RouterNext, RouterWaits, RouterForwards, RouterSendEnds, MqttNext,
          MqttOpensSession, MqttSetupEnds, MqttTakes, MqttIdleReconnect, MqttPublishes,
          MqttPublishFails, MqttSessionEnds, OtaSends, vars, clockVars, captureVars, histories
<1>o. /\ Len(observed) \in Nat /\ DOMAIN observed = 1..Len(observed) /\ now \in Nat
      /\ \A i \in DOMAIN observed : observed[i] \in Reading /\ observed[i].received_at \in Nat
  <2>1. \A i \in DOMAIN observed : observed[i] \in Reading
    BY DEF CacheInv
  <2> QED
    BY <2>1 DEF Reading, CacheInv
<1>e. \A i \in DOMAIN observed :
        /\ observed[i].received_at <= now
        /\ now < observed[i].received_at + DEDUPE_TTL =>
             \/ \E e \in cache : e.pushed = i
             \/ Len(observed) - i >= DEDUPE_CAPACITY
  BY DEF CacheInv
<1>c. \A e \in cache : EntryOf(e) /\ e \in [key : Keys, expires_at : Nat, pushed : Nat]
  BY DEF CacheInv
<1>3. CASE Tick
  <2>1. now' = now + 1 /\ now < MaxNow /\ UNCHANGED <<observed, cache, decoded>>
    BY <1>3, Zenon DEF Tick, captureVars, histories
  <2>2. \A i \in DOMAIN observed :
          /\ observed[i].received_at <= now'
          /\ now' < observed[i].received_at + DEDUPE_TTL =>
               \/ \E e \in cache : e.pushed = i
               \/ Len(observed) - i >= DEDUPE_CAPACITY
    BY <1>o, <1>e, <2>1
  <2>3. now' \in 0..MaxNow
    BY <2>1 DEF CacheInv
  <2>4. RepeatOnlyAfterEviction' /\ \A e \in cache' : EntryOf(e)'
    BY <2>1, Zenon DEF CacheInv, RepeatOnlyAfterEviction, EntryOf
  <2> QED
    BY <2>1, <2>2, <2>3, <2>4, Zenon DEF CacheInv
<1>4. CASE CaptureEnqueues /\ IsDuplicate(decoded)
  <2>1. cache' = prune_expired(cache, now) /\ UNCHANGED <<now, observed, decoded>>
    BY <1>4, Zenon DEF CaptureEnqueues, clockVars
  <2>2. cache' \subseteq cache /\ \A e \in cache : now < e.expires_at => e \in cache'
    BY <2>1 DEF prune_expired
  <2>3. IsFiniteSet(cache') /\ Cardinality(cache') <= DEDUPE_CAPACITY
    <3>1. IsFiniteSet(cache') /\ Cardinality(cache') <= Cardinality(cache)
      BY <2>2, FS_Subset DEF CacheInv
    <3>2. Cardinality(cache') \in Nat /\ Cardinality(cache) \in Nat
      BY <3>1, FS_CardinalityType DEF CacheInv
    <3> QED
      BY <3>1, <3>2 DEF CacheInv
  <2>4. \A i \in DOMAIN observed :
          now < observed[i].received_at + DEDUPE_TTL =>
            \/ \E e \in cache' : e.pushed = i
            \/ Len(observed) - i >= DEDUPE_CAPACITY
    BY <1>e, <1>c, <2>2 DEF EntryOf
  <2>5. RepeatOnlyAfterEviction' /\ \A e \in cache' : EntryOf(e)'
    BY <2>1, <2>2, Zenon DEF CacheInv, RepeatOnlyAfterEviction, EntryOf
  <2> QED
    BY <2>1, <2>2, <2>3, <2>4, <2>5, Zenon DEF CacheInv
<1>5. CASE CaptureEnqueues /\ ~IsDuplicate(decoded)
  <2> DEFINE n == Len(observed)
             r == [key |-> decoded, received_at |-> now]
             x == [key |-> decoded, expires_at |-> now + DEDUPE_TTL, pushed |-> n + 1]
  <2>1. /\ cache' = Remember(decoded) /\ observed' = Append(observed, r)
        /\ UNCHANGED <<now, decoded>>
    BY <1>5, Zenon DEF CaptureEnqueues, clockVars
  <2>2. /\ x \in cache' /\ \A e \in cache' : e = x \/ e \in cache
        /\ IsFiniteSet(cache') /\ Cardinality(cache') <= DEDUPE_CAPACITY
        /\ \A e \in cache : now < e.expires_at =>
             e \in cache' \/ n + 1 - e.pushed >= DEDUPE_CAPACITY
    BY <1>k, <2>1, Remembered
  <2>3. r \in Reading
    BY DEF Reading, CacheInv
  <2>4. /\ observed' \in Seq(Reading) /\ Len(observed') = n + 1
        /\ DOMAIN observed' = 1..(n + 1)
        /\ observed'[n + 1] = r
        /\ \A i \in DOMAIN observed : observed'[i] = observed[i]
    BY <2>1, <2>3 DEF CacheInv
  <2>d. \A i \in DOMAIN observed' : i = n + 1 \/ (i \in DOMAIN observed /\ i <= n)
    BY <1>o, <2>4
  <2>x. /\ x.key = decoded /\ x.expires_at = now + DEDUPE_TTL /\ x.pushed = n + 1
        /\ x \in [key : Keys, expires_at : Nat, pushed : Nat]
        /\ r.key = decoded /\ r.received_at = now
    BY <1>o, <1>k
  <2> HIDE DEF n, r, x
  <2>n. n \in Nat
    BY <1>o DEF n
  <2>5. \A i, j \in DOMAIN observed' :
          i <= j => observed'[i].received_at <= observed'[j].received_at
    <3>1. \A i, j \in DOMAIN observed :
            i <= j => observed[i].received_at <= observed[j].received_at
      BY DEF CacheInv
    <3> QED
      BY <1>o, <1>e, <2>4, <2>d, <2>x, <2>n, <3>1
  <2>6. \A i \in DOMAIN observed' : observed'[i].received_at <= now'
    BY <1>o, <1>e, <2>1, <2>4, <2>d, <2>x
  <2>7. \A e \in cache' : EntryOf(e)' /\ e \in [key : Keys, expires_at : Nat, pushed : Nat]
    <3> SUFFICES ASSUME NEW e \in cache'
                 PROVE  EntryOf(e)' /\ e \in [key : Keys, expires_at : Nat, pushed : Nat]
      OBVIOUS
    <3>1. CASE e = x
      BY <2>4, <2>x, <2>n, <3>1 DEF EntryOf
    <3>2. CASE e \in cache
      <4>1. e.pushed \in DOMAIN observed'
        BY <1>o, <1>c, <2>4, <2>n, <3>2 DEF EntryOf, n
      <4> QED
        BY <1>c, <2>4, <3>2, <4>1 DEF EntryOf
    <3> QED
      BY <2>2, <3>1, <3>2
  <2>8. ASSUME NEW i \in DOMAIN observed', now' < observed'[i].received_at + DEDUPE_TTL
        PROVE  \/ \E e \in cache' : e.pushed = i
               \/ Len(observed') - i >= DEDUPE_CAPACITY
    <3>0. Len(observed') = n + 1
      BY <2>4
    <3>1. CASE i = n + 1
      BY <2>2, <2>x, <3>1
    <3>2. CASE i \in DOMAIN observed
      <4>1. now < observed[i].received_at + DEDUPE_TTL
        BY <2>1, <2>4, <2>8, <3>2
      <4>2. CASE n - i >= DEDUPE_CAPACITY
        BY <1>o, <3>0, <3>2, <4>2 DEF n
      <4>3. CASE \E e \in cache : e.pushed = i
        <5>1. PICK e \in cache : e.pushed = i
          BY <4>3
        <5>2. now < e.expires_at
          BY <1>c, <4>1, <5>1 DEF EntryOf
        <5>3. e \in cache' \/ n + 1 - e.pushed >= DEDUPE_CAPACITY
          BY <2>2, <5>2
        <5> QED
          BY <1>o, <2>n, <3>0, <3>2, <5>1, <5>3
      <4> QED
        BY <1>e, <3>2, <4>1, <4>2, <4>3 DEF n
    <3> QED
      BY <2>d, <3>1, <3>2
  <2>9. RepeatOnlyAfterEviction'
    <3> SUFFICES ASSUME NEW i \in DOMAIN observed', NEW j \in DOMAIN observed', i < j,
                        observed'[i].key = observed'[j].key,
                        observed'[j].received_at - observed'[i].received_at < DEDUPE_TTL
                 PROVE  j - i > DEDUPE_CAPACITY
      BY DEF RepeatOnlyAfterEviction
    <3>1. CASE j \in DOMAIN observed
      <4>1. i \in DOMAIN observed
        BY <1>o, <2>4, <2>d, <2>n, <3>1 DEF n
      <4> QED
        BY <2>4, <3>1, <4>1 DEF CacheInv, RepeatOnlyAfterEviction
    <3>2. CASE j = n + 1
      <4>1. i \in DOMAIN observed
        BY <2>d, <3>2, <2>n
      <4>2. observed[i].key = decoded /\ now < observed[i].received_at + DEDUPE_TTL
        BY <1>o, <2>4, <2>x, <3>2, <4>1
      <4>3. ~\E e \in cache : e.pushed = i
        BY <1>5, <1>c, <4>2 DEF IsDuplicate, prune_expired, EntryOf
      <4>4. n - i >= DEDUPE_CAPACITY
        BY <1>e, <4>1, <4>2, <4>3 DEF n
      <4> QED
        BY <1>o, <2>n, <3>2, <4>1, <4>4
    <3> QED
      BY <2>d, <3>1, <3>2
  <2> QED
    <3>1. now' \in 0..MaxNow /\ decoded' \in Keys
      BY <2>1 DEF CacheInv
    <3>2. \A e \in cache' : EntryOf(e)'
      BY <2>7, Zenon
    <3>3. cache' \subseteq [key : Keys, expires_at : Nat, pushed : Nat]
      BY <2>7, Zenon
    <3>4. \A i \in DOMAIN observed' :
            now' < observed'[i].received_at + DEDUPE_TTL =>
              \/ \E e \in cache' : e.pushed = i
              \/ Len(observed') - i >= DEDUPE_CAPACITY
      BY <2>8, Zenon
    <3> QED
      BY <2>2, <2>4, <2>5, <2>6, <2>9, <3>1, <3>2, <3>3, <3>4, Zenon DEF CacheInv
<1> QED
  BY <1>1, <1>2, <1>3, <1>4, <1>5 DEF Next, CaptureNext

\* At start-up the cache is empty.
LEMMA CacheInit == Init => CacheInv
<1> SUFFICES ASSUME Init PROVE CacheInv
  OBVIOUS
<1>1. now = 0 /\ decoded \in Keys /\ cache = {} /\ observed = <<>>
  BY DEF Init
<1>2. IsFiniteSet(cache) /\ Cardinality(cache) <= DEDUPE_CAPACITY
  BY <1>1, FS_EmptySet, PipelineAssumption
<1> QED
  BY <1>1, <1>2, PipelineAssumption DEF CacheInv, RepeatOnlyAfterEviction

\* However bursts, ticks and OTA attempts follow each other, the same reading
\* gets through again within the TTL only when a whole cache of others came
\* between, for any capacity and TTL.
THEOREM RepeatNeedsEviction == Spec => []RepeatOnlyAfterEviction
<1>2. CacheInv => RepeatOnlyAfterEviction
  BY DEF CacheInv
<1> QED
  BY <1>2, CacheInit, CacheStep, PTL DEF Spec

(***************************************************************************)
(* TypeOK: the invariants above, and the tasks' places and the depths.     *)
(***************************************************************************)
PlacesOK ==
  /\ otaState \in OtaState /\ otaVersion \in Nat /\ captureSeen \in 0..otaVersion
  /\ capturePc \in {"gate", "listen", "decoded", "pause"}
  /\ pauseUntil \in 0..(MaxNow + CAPTURE_PAUSE)
  /\ routerPc \in {"gate", "receive", "send"}
  /\ mqttPc \in {"gate", "setup", "connected", "publish"}
  /\ otaRead \in OtaState /\ asleep \in BOOLEAN

DepthsOK ==
  /\ Len(radioChannel) <= RADIO_TELEMETRY_CHANNEL_DEPTH
  /\ Len(mqttChannel) <= MQTT_COMMAND_CHANNEL_DEPTH

\* The tasks stay in their places; a wait has seen no version yet to come.
LEMMA PlacesStep == PlacesOK /\ now \in 0..MaxNow /\ [Next]_vars => PlacesOK'
<1> SUFFICES ASSUME PlacesOK, now \in 0..MaxNow, [Next]_vars PROVE PlacesOK'
  OBVIOUS
<1> USE PipelineAssumption DEF PlacesOK, OtaState, clockVars, captureVars, channelVars,
        routerVars, mqttVars
<1>1. CASE CaptureEnqueues
  <2>1. capturePc' = "pause" /\ pauseUntil' = now + CAPTURE_PAUSE
    BY <1>1, Zenon DEF CaptureEnqueues
  <2>2. UNCHANGED <<otaState, otaVersion, captureSeen, routerPc, mqttPc, otaRead, asleep>>
    BY <1>1, Zenon DEF CaptureEnqueues
  <2> QED
    BY <2>1, <2>2
<1>2. CASE CaptureNext /\ ~CaptureEnqueues
  BY <1>2 DEF CaptureNext, CaptureListens, CaptureInterrupted, CaptureDecodeFails,
              CaptureDecodes, CapturePauseEnds
<1>3. CASE RouterNext
  <2>1. /\ routerPc' \in {"gate", "receive", "send"}
        /\ UNCHANGED <<otaState, otaVersion, captureSeen, capturePc, pauseUntil, mqttPc,
                       otaRead, asleep>>
    BY <1>3, Zenon DEF RouterNext, RouterWaits, RouterForwards, RouterSendEnds
  <2> QED
    BY <2>1
<1>4. CASE MqttPublishes
  BY <1>4 DEF MqttPublishes
<1>5. CASE MqttNext /\ ~MqttPublishes
  BY <1>5 DEF MqttNext, MqttOpensSession, MqttSetupEnds, MqttTakes, MqttIdleReconnect,
              MqttPublishFails, MqttSessionEnds
<1>6. CASE OtaSends
  <2>1. otaState' \in OtaState /\ otaVersion' = otaVersion + 1
    BY <1>6 DEF OtaSends, OtaSuccessors
  <2>2. UNCHANGED <<captureSeen, capturePc, pauseUntil, routerPc, mqttPc, otaRead, asleep>>
    BY <1>6, Zenon DEF OtaSends
  <2> QED
    BY <2>1, <2>2
<1>7. CASE Tick \/ UNCHANGED vars
  BY <1>7 DEF Tick, vars
<1> QED
  BY <1>1, <1>2, <1>3, <1>4, <1>5, <1>6, <1>7 DEF Next

\* try_send and send never push past a channel's depth.
LEMMA DepthsStep == DepthsOK /\ SingleReadings /\ [Next]_vars => DepthsOK'
<1> SUFFICES ASSUME DepthsOK, SingleReadings, [Next]_vars PROVE DepthsOK'
  OBVIOUS
<1> USE PipelineAssumption DEF clockVars, captureVars, channelVars, routerVars, mqttVars
<1>q. radioChannel \in Seq(Reading) /\ mqttChannel \in Seq(Reading)
  BY DEF SingleReadings
<1>a. \A q \in Seq(Reading), r \in Reading :
        Len(q) \in Nat /\ Len(Append(q, r)) = Len(q) + 1
  OBVIOUS
<1>t. \A q \in Seq(Reading) :
        q # <<>> => Head(q) \in Reading /\ Len(Tail(q)) <= Len(q)
  OBVIOUS
<1>u. ASSUME UNCHANGED <<radioChannel, mqttChannel>> PROVE DepthsOK'
  BY <1>u DEF DepthsOK
<1>1. CASE CaptureEnqueues
  <2> DEFINE r == [key |-> decoded, received_at |-> now]
  <2>1. r \in Reading
    BY DEF SingleReadings, Reading
  <2>2. /\ mqttChannel' = mqttChannel
        /\ \/ radioChannel' = radioChannel
           \/ /\ Len(radioChannel) < RADIO_TELEMETRY_CHANNEL_DEPTH
              /\ radioChannel' = Append(radioChannel, r)
    BY <1>1, Zenon DEF CaptureEnqueues
  <2> HIDE DEF r
  <2> QED
    BY <1>q, <1>a, <2>1, <2>2 DEF DepthsOK
<1>2. CASE CaptureNext /\ ~CaptureEnqueues
  BY <1>2, <1>u DEF CaptureNext, CaptureListens, CaptureInterrupted, CaptureDecodeFails,
              CaptureDecodes, CapturePauseEnds
<1>3. CASE RouterForwards
  <2>1. /\ radioChannel # <<>> /\ radioChannel' = Tail(radioChannel)
        /\ \/ mqttChannel' = mqttChannel
           \/ /\ Len(mqttChannel) < MQTT_COMMAND_CHANNEL_DEPTH
              /\ mqttChannel' = Append(mqttChannel, Head(radioChannel))
    BY <1>3, Zenon DEF RouterForwards
  <2>2. Head(radioChannel) \in Reading /\ Len(Tail(radioChannel)) <= Len(radioChannel)
    BY <1>q, <1>t, <2>1, Zenon
  <2>3. Len(Tail(radioChannel)) \in Nat /\ Len(radioChannel) \in Nat
    BY <1>q, <2>1
  <2>4. Len(radioChannel') <= RADIO_TELEMETRY_CHANNEL_DEPTH
    BY <2>1, <2>2, <2>3 DEF DepthsOK
  <2>5. Len(mqttChannel') <= MQTT_COMMAND_CHANNEL_DEPTH
    BY <1>q, <1>a, <2>1, <2>2 DEF DepthsOK
  <2> QED
    BY <2>4, <2>5 DEF DepthsOK
<1>4. CASE RouterSendEnds
  <2>1. Len(held) <= 1 /\ Len(held) \in Nat /\ held \in Seq(Reading)
    <3>1. held \in Seq(Reading)
      BY OptionalReading, Zenon DEF SingleReadings
    <3>2. held = <<>> \/ \E r \in Reading : held = <<r>>
      BY Zenon DEF SingleReadings, Optional
    <3>3. Len(<<>>) = 0 /\ \A r \in Reading : Len(<<r>>) = 1
      OBVIOUS
    <3>4. Len(held) = 0 \/ Len(held) = 1
      BY <3>2, <3>3, Zenon
    <3>5. Len(held) <= 1 /\ Len(held) \in Nat
      <4> DEFINE l == Len(held)
      <4>1. l = 0 \/ l = 1
        BY <3>4
      <4> HIDE DEF l
      <4>2. l <= 1 /\ l \in Nat
        BY <4>1
      <4> QED
        BY <4>2 DEF l
    <3> QED
      BY <3>1, <3>5, Zenon
  <2>2. Len(mqttChannel \o held) = Len(mqttChannel) + Len(held)
    BY <1>q, <2>1
  <2>3. /\ Len(mqttChannel) < MQTT_COMMAND_CHANNEL_DEPTH
        /\ mqttChannel' = mqttChannel \o held /\ radioChannel' = radioChannel
    BY <1>4, Zenon DEF RouterSendEnds
  <2> QED
    BY <1>q, <1>a, <2>1, <2>2, <2>3 DEF DepthsOK
<1>5. CASE MqttTakes \/ MqttIdleReconnect
  <2>1. /\ radioChannel' = radioChannel
        /\ \/ mqttChannel' = mqttChannel
           \/ mqttChannel # <<>> /\ mqttChannel' = Tail(mqttChannel)
    BY <1>5, Zenon DEF MqttTakes, MqttIdleReconnect
  <2>2. mqttChannel # <<>> => /\ Len(Tail(mqttChannel)) <= Len(mqttChannel)
                              /\ Len(Tail(mqttChannel)) \in Nat /\ Len(mqttChannel) \in Nat
    BY <1>q
  <2> QED
    BY <1>q, <2>1, <2>2 DEF DepthsOK
<1>6. CASE RouterWaits \/ (MqttNext /\ ~MqttTakes /\ ~MqttIdleReconnect)
  BY <1>6, <1>u DEF RouterWaits, MqttNext, MqttOpensSession, MqttSetupEnds, MqttPublishes,
              MqttPublishFails, MqttSessionEnds
<1>7. CASE OtaSends \/ Tick \/ UNCHANGED vars
  BY <1>7, <1>u DEF OtaSends, Tick, vars
<1> QED
  BY <1>1, <1>2, <1>3, <1>4, <1>5, <1>6, <1>7 DEF Next, CaptureNext, RouterNext

\* Whatever the depths of the channels and of the cache, the tasks never fill
\* them beyond those, and every variable keeps its type.
THEOREM PipelineTypeCorrect == Spec => []TypeOK
<1> DEFINE Inv == QuietInv /\ SingleReadings /\ CacheInv /\ PlacesOK /\ DepthsOK
<1>1. Init => Inv
  <2> SUFFICES ASSUME Init PROVE Inv
    OBVIOUS
  <2>1. QuietInv /\ SingleReadings
    BY OptionalReading, PipelineAssumption DEF Init, QuietInv, QuietDuringOta, SingleReadings
  <2>2. CacheInv
    BY CacheInit
  <2>3. PlacesOK
    <3>1. /\ otaState \in OtaState /\ otaVersion = 0 /\ captureSeen = 0 /\ pauseUntil = 0
          /\ capturePc = "gate" /\ routerPc = "gate" /\ mqttPc = "gate"
          /\ otaRead \in OtaState
      BY DEF Init, OtaState
    <3>2. asleep \in BOOLEAN
      BY Zenon DEF Init
    <3> QED
      BY <3>1, <3>2, PipelineAssumption DEF PlacesOK
  <2>4. DepthsOK
    BY PipelineAssumption DEF Init, DepthsOK
  <2> QED
    BY <2>1, <2>2, <2>3, <2>4
<1>2. Inv /\ [Next]_vars => Inv'
  <2>1. SingleReadings => now \in 0..MaxNow
    BY DEF SingleReadings
  <2> QED
    BY <2>1, QuietStep, SingleStep, CacheStep, PlacesStep, DepthsStep
<1>3. Inv => TypeOK
  BY DEF QuietInv, SingleReadings, CacheInv, PlacesOK, DepthsOK, TypeOK
<1> QED
  BY <1>1, <1>2, <1>3, PTL DEF Spec
============================================================================
