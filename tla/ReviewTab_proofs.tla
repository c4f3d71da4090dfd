-------------------------- MODULE ReviewTab_proofs --------------------------
(***************************************************************************)
(* What a tab shows and sends, for any document, sidecar and number of     *)
(* forms: the invariant relates every request under way to the revision    *)
(* its form was rendered from and to the panel element it will replace.    *)
(***************************************************************************)
EXTENDS ReviewTab, SequenceTheorems, TLAPS

Reviews ==
    {r \in UNION {[D -> Cards] : D \in SUBSET (Int \ {PageLevel})} :
        \A id \in DOMAIN r : CardValid(r[id])}

\* The sidecar keeps its annotations.
HistoryGrows ==
    /\ history \in Seq(Reviews) /\ history # <<>>
    /\ \A i, j \in 1..Len(history) : i <= j => DOMAIN history[i] \subseteq DOMAIN history[j]

\* A selection was made in this tab: it can be measured and it was on screen.
IsSelected(s) ==
    /\ s \in Selections
    /\ s.document = selecting
    /\ Text[selecting][s.range] \in Quotes
    /\ s.seen = Text[page][s.range]

\* A form was rendered from the revision of its panel.
InputFits(q) ==
    LET review == history[q.seen.revision] IN
    /\ q.element.name = "create" =>
          /\ q.input \in CommentInputs
          /\ q.input.selection # NoSelection => IsSelected(q.input.selection)
    /\ q.element.name = "view" => q.input \in [showInactive: BOOLEAN]
    /\ q.element.name = "reply" => q.input \in [id: Int] /\ q.input.id \in DOMAIN review
    /\ q.element.name = "move" =>
          /\ q.input \in [id: Int, to: Statuses, role: Roles] /\ q.input.id \in DOMAIN review
          /\ <<q.input.to, q.input.role>> \in Offered(review[q.input.id])
    /\ q.element.name = "reattach" =>
          /\ q.input \in [id: Int, selection: Selections] /\ q.input.id \in DOMAIN review
          /\ CanReattach(q.seen.document, review[q.input.id])
          /\ IsSelected(q.input.selection)

\* An answer for the panel on screen is no older than that panel.
RequestFits(q) ==
    /\ q.number <= sent
    /\ q.seen.revision <= Len(history)
    /\ q.target <= shown.number
    /\ InputFits(q)
    /\ HasContent(q) =>
          /\ q.answer.content.revision <= Len(history)
          /\ q.target = shown.number => shown.content.revision <= q.answer.content.revision

CardsQuoted ==
    \A id \in DOMAIN Current :
       Current[id].seen # NoText =>
          /\ opening = "ready"
          /\ page = selecting /\ Current[id].source # NoSource
                => Current[id].source.quote = Current[id].seen

TabFits ==
    /\ \A q \in requests : RequestFits(q)
    /\ \A q, r \in requests : q.number = r.number => q = r
    /\ form.selection # NoSelection => IsSelected(form.selection) /\ opening = "ready"
    /\ opening # "ready" => requests = {}
    /\ \A f \in refreshes : f.revision <= Len(history)

TabInv == TypeOK /\ HistoryGrows /\ TabFits /\ CardsQuoted

-----------------------------------------------------------------------------
(* Reviews and what a mutation makes of them *)

\* The two ways to say that something is a sidecar.
LEMMA ReviewIsReview ==
    \A r : r \in Reviews => IsReview(r)
  BY DEF Reviews, IsReview

\* A sidecar with the initial annotations is one.
LEMMA InitialIsReview == InitialReview \in Reviews
  BY InitialReviewAssumption DEF IsReview, Reviews

\* A sidecar is made of valid cards, and whatever is made of them is one.
LEMMA ReviewOfCards ==
    ASSUME NEW D \in SUBSET (Int \ {PageLevel}), NEW s \in [D -> Cards], \A id \in D : CardValid(s[id])
    PROVE  s \in Reviews /\ DOMAIN s = D
  BY DEF Reviews

LEMMA CardsOfReview ==
    ASSUME NEW r \in Reviews
    PROVE  DOMAIN r \in SUBSET (Int \ {PageLevel}) /\ r \in [DOMAIN r -> Cards] /\ \A id \in DOMAIN r : CardValid(r[id])
  BY DEF Reviews

\* A card of a sidecar is a valid one.
LEMMA CardOfReview ==
    ASSUME NEW r \in Reviews, NEW id \in DOMAIN r
    PROVE  r[id] \in Cards /\ CardValid(r[id]) /\ id \in Int
  BY DEF Reviews

\* Appending a sidecar that keeps the annotations keeps the history growing.
LEMMA HistoryExtended ==
    ASSUME HistoryGrows, NEW r \in Reviews, DOMAIN Current \subseteq DOMAIN r,
           history' = Append(history, r)
    PROVE  /\ HistoryGrows'
           /\ Len(history') = Len(history) + 1
           /\ Current' = r
           /\ \A i \in 1..Len(history) : history'[i] = history[i]
<1>1. Len(history) \in Nat /\ Len(history) > 0  BY DEF HistoryGrows
<1>2. history' \in Seq(Reviews) /\ Len(history') = Len(history) + 1 /\ history' # <<>>
  BY DEF HistoryGrows
<1>3. history'[Len(history) + 1] = r /\ \A i \in 1..Len(history) : history'[i] = history[i]
  BY DEF HistoryGrows
<1>4. ASSUME NEW i \in 1..Len(history'), NEW j \in 1..Len(history'), i <= j
      PROVE  DOMAIN history'[i] \subseteq DOMAIN history'[j]
  <2>1. CASE j <= Len(history)  BY <2>1, <1>1, <1>2, <1>3, <1>4 DEF HistoryGrows
  <2>2. CASE i <= Len(history) /\ j = Len(history) + 1
    BY <2>2, <1>1, <1>2, <1>3, <1>4 DEF HistoryGrows, Current
  <2>3. CASE i = Len(history) + 1 /\ j = Len(history) + 1  BY <2>3
  <2> QED BY <2>1, <2>2, <2>3, <1>1, <1>2, <1>4
<1> QED BY <1>1, <1>2, <1>3, <1>4 DEF HistoryGrows, Current

\* The newest sidecar is one, and has every annotation there has been.
LEMMA CurrentReview ==
    ASSUME HistoryGrows
    PROVE  /\ Current \in Reviews
           /\ Len(history) \in Nat \ {0}
           /\ \A i \in 1..Len(history) : history[i] \in Reviews /\ DOMAIN history[i] \subseteq DOMAIN Current
  BY DEF HistoryGrows, Current

-----------------------------------------------------------------------------
(* Selections and the sources made of them *)

\* What the reviewer can select is a selection of this tab.
LEMMA SelectedIsSelected ==
    ASSUME NEW r \in Ranges, page \in Documents, selecting \in Documents,
           CanSelect(page, r), CanSelect(selecting, r)
    PROVE  IsSelected(Selected(r))
<1>1. Text[page][r] \in Quotes /\ Text[selecting][r] \in Quotes  BY DEF CanSelect, Quotes
<1> QED BY <1>1 DEF IsSelected, Selected, Selections

\* A selection of the current content gives a source whose quote was on screen, if
\* the page shows that content.
LEMMA SourceOfSelection ==
    ASSUME NEW s, IsSelected(s), s.document = document
    PROVE  /\ NewSource(document, s.range) \in Sources
           /\ NewSource(document, s.range) # NoSource
           /\ page = selecting => NewSource(document, s.range).quote = s.seen
           /\ s.seen \in Quotes \union {NoText}
<1>1. s.document = selecting /\ s.range \in Ranges /\ s.document \in Documents /\ s.seen \in Quotes \union {NoText}
  BY DEF IsSelected, Selections
<1>2. NewSource(document, s.range) \in Sources
  BY <1>1 DEF IsSelected, NewSource, Sources
<1> QED BY <1>1, <1>2, NoSourceAssumption DEF IsSelected, NewSource

\* The record a create makes is a valid card.
LEMMA CreatedCard ==
    ASSUME NEW input \in CommentInputs,
           input.selection # NoSelection => IsSelected(input.selection)
    PROVE  /\ Created(input) \in Cards /\ CardValid(Created(input))
           /\ page = selecting /\ Created(input).source # NoSource /\ Created(input).seen # NoText
                 => Created(input).source.quote = Created(input).seen
<1>1. input.comment \in 0..MaxComments  BY DEF CommentInputs
<1>2. CASE input.selection # NoSelection /\ input.selection.document = document
  <2>1. Created(input) = Card(input.comment, "open", NewSource(document, input.selection.range),
                              FALSE, input.selection.seen)
    BY <1>2 DEF Created
  <2> QED BY <1>1, <1>2, <2>1, SourceOfSelection DEF Card, Cards, CardValid, Statuses
<1>3. CASE ~(input.selection # NoSelection /\ input.selection.document = document)
  <2>1. Created(input) = Card(input.comment, "open", NoSource, input.selection # NoSelection, NoText)
    BY <1>3 DEF Created
  <2>2. (input.selection # NoSelection) \in BOOLEAN  OBVIOUS
  <2> QED BY <1>1, <2>1, <2>2 DEF Card, Cards, CardValid, Statuses
<1> QED BY <1>2, <1>3

\* So is the one a reattachment makes.
LEMMA ReattachedCard ==
    ASSUME NEW card \in Cards, NEW s, IsSelected(s), s.document = document
    PROVE  /\ Reattached(card, s) \in Cards /\ CardValid(Reattached(card, s))
           /\ page = selecting => Reattached(card, s).source.quote = Reattached(card, s).seen
  BY SourceOfSelection DEF Reattached, Card, Cards, CardValid

\* A selection gives a sidecar a source only of the content it was made in, so what
\* CardsQuoted says holds of the next sidecar.
Quoted(review) ==
    \A id \in DOMAIN review :
       review[id].seen # NoText /\ page = selecting /\ review[id].source # NoSource
          => review[id].source.quote = review[id].seen

\* A mutation that is not refused makes a sidecar of the one there is.
LEMMA SuccessorFits ==
    ASSUME TabInv, opening = "ready", NEW q \in requests, q.element.name # "view",
           Refusal(q.element.name, q.input) = 200
    PROVE  LET s == Successor(q.element.name, q.input)
           IN  s \in Reviews /\ DOMAIN Current \subseteq DOMAIN s /\ Quoted(s)
<1> DEFINE s == Successor(q.element.name, q.input)
<1>1. RequestFits(q) /\ InputFits(q) /\ HistoryGrows /\ CardsQuoted
  BY DEF TabInv, TabFits, RequestFits
<1>2. Current \in Reviews /\ Len(history) \in Nat \ {0}
  BY <1>1, CurrentReview
<1>a. /\ DOMAIN Current \in SUBSET (Int \ {PageLevel})
      /\ Current \in [DOMAIN Current -> Cards]
      /\ \A id \in DOMAIN Current : CardValid(Current[id])
  BY <1>2, CardsOfReview
<1>3. q.element.name \in {"create", "reply", "move", "reattach"} /\ q.seen.revision \in 1..Len(history)
  BY <1>1, <1>2 DEF TabInv, TypeOK, Elements, RequestFits, Contents, Revisions
<1>4. DOMAIN history[q.seen.revision] \subseteq DOMAIN Current
  BY <1>1, <1>3, CurrentReview
<1>5. Quoted(Current)  BY <1>1 DEF CardsQuoted, Quoted
<1>6. CASE q.element.name = "create"
  <2> DEFINE n == Len(history) + 1
  <2>1. n \in Int \ {PageLevel} /\ n \in Nat  BY <1>2 DEF PageLevel
  <2>2. q.input \in CommentInputs /\ (q.input.selection # NoSelection => IsSelected(q.input.selection))
    BY <1>1, <1>6 DEF InputFits
  <2>3. s = [id \in DOMAIN Current \union {n} |->
                IF id \in DOMAIN Current THEN Current[id] ELSE Created(q.input)]
    BY <1>6 DEF Successor
  <2>4. Created(q.input) \in Cards /\ CardValid(Created(q.input))  BY <2>2, CreatedCard
  <2> HIDE DEF n, s
  <2> DEFINE D == DOMAIN Current \union {n}
  <2>a. D \in SUBSET (Int \ {PageLevel})  BY <1>a, <2>1
  <2>b. s \in [D -> Cards] /\ \A id \in D : CardValid(s[id])  BY <1>a, <2>3, <2>4
  <2>5. s \in Reviews /\ DOMAIN s = D
    <3> HIDE DEF D
    <3> QED BY <2>a, <2>b, ReviewOfCards
  <2>6. Quoted(s)  BY <2>2, <2>3, <1>5, CreatedCard DEF Quoted
  <2> QED BY <2>5, <2>6 DEF s
<1>7. CASE q.element.name = "move"
  <2>1. q.input.id \in DOMAIN Current /\ q.input.to \in Statuses
    BY <1>1, <1>4, <1>7 DEF InputFits
  <2> DEFINE c == [Current[q.input.id] EXCEPT !.status = q.input.to]
  <2>2. Current[q.input.id] \in Cards /\ CardValid(Current[q.input.id])  BY <1>2, <2>1, CardOfReview
  <2>3. c \in Cards /\ CardValid(c) /\ c.source = Current[q.input.id].source /\ c.seen = Current[q.input.id].seen
    BY <2>1, <2>2 DEF Cards, CardValid
  <2>4. s = [Current EXCEPT ![q.input.id] = c]  BY <1>7 DEF Successor
  <2> HIDE DEF c, s
  <2>a. s \in [DOMAIN Current -> Cards] /\ \A id \in DOMAIN Current : CardValid(s[id])
    BY <1>a, <2>1, <2>3, <2>4
  <2>5. s \in Reviews /\ DOMAIN s = DOMAIN Current  BY <1>a, <2>a, ReviewOfCards
  <2>6. Quoted(s)  BY <2>1, <2>3, <2>4, <2>5, <1>5 DEF Quoted
  <2> QED BY <2>5, <2>6 DEF s
<1>8. CASE q.element.name = "reattach"
  <2>1. q.input.id \in DOMAIN Current /\ IsSelected(q.input.selection)
    BY <1>1, <1>4, <1>8 DEF InputFits
  <2>2. q.input.selection.document = document  BY <1>8 DEF Refusal
  <2> DEFINE c == Reattached(Current[q.input.id], q.input.selection)
  <2>3. Current[q.input.id] \in Cards  BY <1>2, <2>1, CardOfReview
  <2>4. c \in Cards /\ CardValid(c) /\ (page = selecting => c.source.quote = c.seen)
    BY <2>1, <2>2, <2>3, ReattachedCard
  <2>5. s = [Current EXCEPT ![q.input.id] = c]  BY <1>8 DEF Successor
  <2> HIDE DEF c, s
  <2>a. s \in [DOMAIN Current -> Cards] /\ \A id \in DOMAIN Current : CardValid(s[id])
    BY <1>a, <2>1, <2>4, <2>5
  <2>6. s \in Reviews /\ DOMAIN s = DOMAIN Current  BY <1>a, <2>a, ReviewOfCards
  <2>7. Quoted(s)  BY <2>1, <2>4, <2>5, <2>6, <1>5 DEF Quoted
  <2> QED BY <2>6, <2>7 DEF s
<1>9. CASE q.element.name = "reply"
  BY <1>9, <1>2, <1>5 DEF Successor
<1> QED BY <1>3, <1>6, <1>7, <1>8, <1>9

-----------------------------------------------------------------------------
(* What a step leaves alone *)

\* The sidecar of a step: the same, or one more revision.
HistoryKept ==
    /\ Len(history) <= Len(history')
    /\ \A i \in 1..Len(history) : history'[i] = history[i]

TabKept == page' = page /\ selecting' = selecting

\* A request fits while the history goes on and its panel stays, or is replaced.
LEMMA RequestKept ==
    ASSUME TypeOK, Len(history) \in Nat, Len(history') \in Nat, NEW q \in requests, RequestFits(q),
           HistoryKept, TabKept, sent \in Nat, sent' \in Nat, sent <= sent',
           shown'.number \in Nat,
           shown' = shown \/ shown.number < shown'.number
    PROVE  RequestFits(q)'
<1>1. q.seen.revision \in 1..Len(history) /\ q.target \in Nat /\ shown.number \in Nat /\ q.number \in Nat
  BY DEF TypeOK, RequestFits, Contents, Revisions
<1>2. history'[q.seen.revision] = history[q.seen.revision]  BY <1>1 DEF HistoryKept
<1>3. InputFits(q)'  BY <1>2 DEF RequestFits, InputFits, IsSelected, TabKept
<1>4. HasContent(q) <=> HasContent(q)'  BY DEF HasContent
<1>5. HasContent(q) => q.answer.content.revision \in Nat
  BY DEF HasContent, TypeOK, Answers, Contents, Revisions
<1>6. q.number <= sent' /\ q.seen.revision <= Len(history') /\ q.target <= shown'.number
  BY <1>1 DEF RequestFits, HistoryKept
<1>7. HasContent(q) => q.answer.content.revision <= Len(history')
  BY <1>5 DEF RequestFits, HistoryKept
<1>8. HasContent(q) /\ q.target = shown'.number => shown'.content.revision <= q.answer.content.revision
  BY <1>1 DEF RequestFits
<1> QED BY <1>3, <1>4, <1>6, <1>7, <1>8 DEF RequestFits

\* The same for the selection of the form and the cards.
LEMMA RestKept ==
    ASSUME TabInv, opening' = opening, TabKept
    PROVE  /\ form'.selection \in {form.selection, NoSelection}
                 => (form.selection # NoSelection => IsSelected(form.selection) /\ opening = "ready")'
           /\ history' = history => CardsQuoted'
           /\ opening = "ready" /\ Quoted(Current') => CardsQuoted'
<1>1. form'.selection \in {form.selection, NoSelection}
         => (form.selection # NoSelection => IsSelected(form.selection) /\ opening = "ready")'
  BY DEF TabInv, TabFits, TabKept, IsSelected
<1>2. history' = history => CardsQuoted'
  BY DEF TabInv, TabKept, CardsQuoted, Current
<1>3. opening = "ready" /\ Quoted(Current') => CardsQuoted'
  BY DEF TabKept, CardsQuoted, Quoted
<1> QED BY <1>1, <1>2, <1>3

\* The sidecar an action leaves.
LEMMA HistoryStep ==
    ASSUME TabInv,
           \/ history' = history
           \/ \E r \in Reviews : DOMAIN Current \subseteq DOMAIN r /\ history' = Append(history, r)
    PROVE  /\ HistoryGrows' /\ HistoryKept
           /\ Len(history) \in Nat \ {0} /\ Len(history') \in Nat \ {0}
           /\ \A i \in 1..Len(history') : IsReview(history'[i])
           /\ history' # history => Len(history') = Len(history) + 1
<1>1. HistoryGrows /\ Len(history) \in Nat \ {0}  BY CurrentReview DEF TabInv
<1>2. CASE history' = history
  <2>1. HistoryGrows'  BY <1>1, <1>2 DEF HistoryGrows
  <2> QED BY <1>1, <1>2, <2>1, ReviewIsReview DEF HistoryKept, HistoryGrows
<1>3. CASE \E r \in Reviews : DOMAIN Current \subseteq DOMAIN r /\ history' = Append(history, r)
  <2>1. PICK r \in Reviews : DOMAIN Current \subseteq DOMAIN r /\ history' = Append(history, r)
    BY <1>3
  <2>2. HistoryGrows' /\ Len(history') = Len(history) + 1 /\ \A i \in 1..Len(history) : history'[i] = history[i]
    BY <1>1, <2>1, HistoryExtended
  <2> QED BY <1>1, <2>2, ReviewIsReview DEF HistoryKept, HistoryGrows
<1> QED BY <1>2, <1>3

-----------------------------------------------------------------------------
(* The initial state and the steps *)

LEMMA TabInit == Init => TabInv
<1> SUFFICES ASSUME Init  PROVE TabInv  OBVIOUS
<1>1. InitialReview \in Reviews  BY InitialIsReview
<1>2. Len(history) = 1 /\ history[1] = InitialReview /\ Current = InitialReview
  BY DEF Init, Current
<1>3. HistoryGrows  BY <1>1, <1>2 DEF Init, HistoryGrows
<1>a. /\ 1 \in Revisions /\ 0 \in 0..MaxComments /\ 0 \in 0..MaxEdits
      /\ 0 \in 0..MaxRequests /\ 1 \in 0..MaxRequests
  BY TabBoundsAssumption DEF Revisions
<1>b. \A i \in 1..Len(history) : IsReview(history[i])
  BY <1>2, InitialReviewAssumption
<1>c. shown \in [number: Nat, by: {"page", "get", "post"}, content: Contents]
  BY <1>2, <1>a DEF Init, Fragment, Content, Contents
<1>d. form \in [comment: 0..MaxComments, selection: Selections \union {NoSelection},
                showInactive: BOOLEAN]
  BY <1>a DEF Init, NoComment
<1>e. shown.content.revision <= Len(history) /\ known \in 1..Len(history)
  BY <1>2 DEF Init, Fragment, Content
<1>4. TypeOK
  BY <1>2, <1>a, <1>b, <1>c, <1>d, <1>e DEF Init, TypeOK, NoMarks
<1>5. TabFits  BY DEF Init, TabFits
<1>6. CardsQuoted  BY <1>2, InitialReviewAssumption DEF CardsQuoted
<1> QED BY <1>3, <1>4, <1>5, <1>6 DEF TabInv

\* Until the page is ready the tab sends nothing and no card quotes a selection of it.
LEMMA OpenStep == TabInv /\ Open => TabInv'
<1> SUFFICES ASSUME TabInv, Open  PROVE TabInv'  OBVIOUS
<1>1. opening # "ready" /\ UNCHANGED <<worldVars, controlVars>>
  BY DEF Open, RenderDocument, RenderPanel, LoadSource, LoadAnnotations
<1>2. HistoryGrows' /\ Len(history) \in Nat \ {0} /\ Len(history) \in Revisions
  BY <1>1, HistoryStep DEF worldVars, TabInv, TypeOK
<1>3. TypeOK'
  <2>1. shown' = shown \/ shown' = Fragment(0, "page", Content(FALSE))
    BY DEF Open, RenderDocument, RenderPanel, LoadSource, LoadAnnotations
  <2>2. /\ shown' \in [number: Nat, by: {"page", "get", "post"}, content: Contents]
        /\ shown'.content.revision <= Len(history)
    <3>1. CASE shown' = shown  BY <3>1 DEF TabInv, TypeOK
    <3>2. CASE shown' = Fragment(0, "page", Content(FALSE))
      <4>1. document \in Documents  BY DEF TabInv, TypeOK
      <4>2. Content(FALSE) \in Contents /\ Content(FALSE).revision = Len(history)
        BY <4>1, <1>2 DEF Content, Contents
      <4>3. shown' = [number |-> 0, by |-> "page", content |-> Content(FALSE)]  BY <3>2 DEF Fragment
      <4>4. shown' \in [number: Nat, by: {"page", "get", "post"}, content: Contents]
        BY <4>2, <4>3
      <4>5. Len(history) <= Len(history)  BY <1>2
      <4> QED BY <4>2, <4>3, <4>4, <4>5
    <3> QED BY <2>1, <3>1, <3>2
  <2>3. known' = known \/ known' = Len(history)
    BY DEF Open, RenderDocument, RenderPanel, LoadSource, LoadAnnotations
  <2>4. /\ page' \in Documents /\ selecting' \in Documents
        /\ opening' \in {"document", "panel", "source", "annotations", "ready"}
    BY DEF Open, RenderDocument, RenderPanel, LoadSource, LoadAnnotations, TabInv, TypeOK
  <2> QED BY <1>1, <1>2, <2>2, <2>3, <2>4 DEF TabInv, TypeOK, worldVars, controlVars
<1>4. TabFits'  BY <1>1 DEF TabInv, TabFits, controlVars, worldVars
<1>5. CardsQuoted'  BY <1>1 DEF TabInv, CardsQuoted, Current, worldVars
<1> QED BY <1>2, <1>3, <1>4, <1>5 DEF TabInv

\* A control of the page or of its panel sends what it was rendered for.
Sends ==
    \E kind \in {"none", "create", "reattach", "other"}, method \in {"get", "post"},
       element \in Elements, input \in Inputs :
          SendRequest(kind, method, element, input) /\ InputFits(Request(element, input))

FormTyped(f) ==
    f \in [comment: 0..MaxComments, selection: Selections \union {NoSelection}, showInactive: BOOLEAN]

LEMMA SendStep ==
    ASSUME TabInv, Sends, FormTyped(form'), form'.selection = form.selection
    PROVE  TabInv'
<1>1. PICK kind \in {"none", "create", "reattach", "other"}, method \in {"get", "post"},
           element \in Elements, input \in Inputs :
              SendRequest(kind, method, element, input) /\ InputFits(Request(element, input))
  BY DEF Sends
<1>2. /\ opening = "ready" /\ UNCHANGED <<worldVars, pageVars, shown, known, refreshes, searching, missed>>
      /\ sent < MaxRequests /\ sent' = sent + 1
      /\ marks' = [kind |-> kind, method |-> method]
      /\ requests' = requests \union {Request(element, input)}
      /\ waited' = (waited /\ Quiet)
  BY <1>1 DEF SendRequest, Acts
<1>3. history' = history /\ shown' = shown /\ TabKept /\ opening' = opening
  BY <1>2 DEF worldVars, pageVars, TabKept
<1>4. HistoryGrows' /\ HistoryKept /\ Len(history) \in Nat \ {0} /\ Len(history') \in Nat \ {0}
  BY <1>3, HistoryStep
<1>5. sent \in Nat /\ sent' \in 1..MaxRequests /\ shown.number \in Nat
  BY <1>2, TabBoundsAssumption DEF TabInv, TypeOK
<1>d. PICK new : new = Request(element, input)  OBVIOUS
<1>6. new \in [number: 1..MaxRequests, element: Elements, input: Inputs, ifMatch: Revisions,
               target: Nat, seen: Contents, answer: Answers]
  <2>1. known \in Revisions /\ shown.content \in Contents  BY <1>4, TabBoundsAssumption DEF TabInv, TypeOK, Revisions
  <2>2. NoAnswer \in Answers  BY DEF Answers
  <2> QED BY <1>2, <1>5, <1>d, <2>1, <2>2 DEF Request
<1>7. new.number = sent' /\ new.target = shown.number /\ new.seen = shown.content /\ new.answer = NoAnswer
  BY <1>2, <1>d DEF Request
<1>8. TypeOK'
  <2>1. waited' \in BOOLEAN  BY <1>2 DEF TabInv, TypeOK
  <2>2. marks' \in [kind: {"none", "create", "reattach", "other"}, method: {"none", "get", "post"}]
    BY <1>2
  <2>3. (requests \subseteq [number: 1..MaxRequests, element: Elements, input: Inputs,
                             ifMatch: Revisions, target: Nat, seen: Contents, answer: Answers])'
    BY <1>2, <1>6, <1>d DEF TabInv, TypeOK
  <2>4. sent' \in 0..MaxRequests  BY <1>5
  <2> QED BY <1>2, <2>1, <2>2, <2>3, <2>4 DEF TabInv, TypeOK, FormTyped, worldVars, pageVars
<1>9. RequestFits(new)'
  <2>1. InputFits(new)  BY <1>1, <1>d
  <2>2. ~HasContent(new)'  BY <1>7 DEF HasContent
  <2>3. new.seen.revision <= Len(history)  BY <1>7 DEF TabInv, TypeOK
  <2>4. new.number \in Nat /\ new.target \in Nat  BY <1>5, <1>7
  <2>5. new.number <= sent' /\ new.target <= shown'.number  BY <2>4, <1>3, <1>7
  <2>6. InputFits(new)'  BY <2>1, <1>3 DEF InputFits, IsSelected, TabKept
  <2> QED BY <2>2, <2>3, <2>5, <2>6, <1>3 DEF RequestFits
<1>10. TabFits'
  <2>1. \A q \in requests : RequestFits(q)'
    BY <1>3, <1>4, <1>5, <1>2, RequestKept DEF TabInv, TabFits
  <2>2. \A q \in requests : q.number # sent'
    BY <1>2, <1>5 DEF TabInv, TabFits, RequestFits, TypeOK
  <2>3. \A q \in requests' : RequestFits(q)'  BY <1>2, <1>d, <1>9, <2>1
  <2>4. \A q, r \in requests' : q.number = r.number => q = r
    BY <1>2, <1>d, <1>7, <2>2 DEF TabInv, TabFits
  <2>6. (form.selection # NoSelection => IsSelected(form.selection) /\ opening = "ready")'
    BY <1>3, RestKept
  <2>7. \A f \in refreshes' : f.revision <= Len(history')  BY <1>2, <1>3 DEF TabInv, TabFits
  <2> QED BY <1>2, <1>3, <2>3, <2>4, <2>6, <2>7 DEF TabFits
<1>11. CardsQuoted'  BY <1>3, RestKept
<1> QED BY <1>4, <1>8, <1>10, <1>11 DEF TabInv

Marks == [kind: {"none", "create", "reattach", "other"}, method: {"none", "get", "post"}]

\* A step that leaves requests and history alone keeps most of the invariant.
LEMMA FormStep ==
    ASSUME TabInv, UNCHANGED <<worldVars, pageVars, shown, known, requests, refreshes, missed>>,
           marks' \in Marks, searching' \in BOOLEAN, sent' \in 0..MaxRequests, sent <= sent',
           waited' \in BOOLEAN, FormTyped(form'),
           (form.selection # NoSelection => IsSelected(form.selection) /\ opening = "ready")'
    PROVE  TabInv'
<1>1. history' = history /\ shown' = shown /\ TabKept /\ opening' = opening /\ requests' = requests
  BY DEF worldVars, pageVars, TabKept
<1>2. HistoryGrows' /\ HistoryKept /\ Len(history) \in Nat \ {0} /\ Len(history') \in Nat \ {0}
  BY <1>1, HistoryStep
<1>3. TypeOK'  BY DEF TabInv, TypeOK, FormTyped, Marks, worldVars, pageVars
<1>4. sent \in Nat /\ sent' \in Nat /\ shown.number \in Nat  BY TabBoundsAssumption DEF TabInv, TypeOK
<1>5. \A q \in requests : RequestFits(q)'
  BY <1>1, <1>2, <1>4, RequestKept DEF TabInv, TabFits
<1>6. TabFits'  BY <1>1, <1>5 DEF TabInv, TabFits
<1>7. CardsQuoted'  BY <1>1, RestKept
<1> QED BY <1>2, <1>3, <1>6, <1>7 DEF TabInv

LEMMA ReviewerStep == TabInv /\ Reviewer => TabInv'
<1> SUFFICES ASSUME TabInv, Reviewer  PROVE TabInv'  OBVIOUS
<1>1. FormTyped(form) /\ page \in Documents /\ selecting \in Documents /\ waited \in BOOLEAN
  BY DEF TabInv, TypeOK, FormTyped
<1>a. marks \in Marks /\ searching \in BOOLEAN /\ sent \in 0..MaxRequests /\ sent <= sent
  BY TabBoundsAssumption DEF TabInv, TypeOK, Marks
<1>2. ASSUME NEW r \in Ranges, Select(r)  PROVE TabInv'
  <2>1. IsSelected(Selected(r)) /\ opening = "ready"
    BY <1>1, <1>2, SelectedIsSelected DEF Select, Acts
  <2>2. form' = [form EXCEPT !.selection = Selected(r)]  BY <1>2 DEF Select
  <2>3. Selected(r) \in Selections  BY <2>1 DEF IsSelected
  <2>4. FormTyped(form') /\ form'.selection = Selected(r)  BY <1>1, <2>2, <2>3 DEF FormTyped
  <2>5. UNCHANGED <<worldVars, pageVars, shown, known, marks, requests, refreshes, searching, sent, missed>>
    BY <1>2 DEF Select, Acts
  <2>6. waited' \in BOOLEAN  BY <1>2, <1>1 DEF Select, Acts
  <2>7. IsSelected(form.selection)' /\ opening' = "ready"
    BY <2>1, <2>4, <2>5 DEF IsSelected, pageVars
  <2> QED BY <1>a, <2>4, <2>5, <2>6, <2>7, FormStep
<1>3. ASSUME NEW n \in 1..MaxComments, Type(n)  PROVE TabInv'
  <2>1. form' = [form EXCEPT !.comment = n]  BY <1>3 DEF Type
  <2>2. FormTyped(form') /\ form'.selection = form.selection
    BY <1>1, <2>1, TabBoundsAssumption DEF FormTyped
  <2>3. UNCHANGED <<worldVars, pageVars, shown, known, marks, requests, refreshes, searching, sent, missed>>
    BY <1>3 DEF Type, Acts
  <2>4. waited' \in BOOLEAN  BY <1>3, <1>1 DEF Type, Acts
  <2>5. (form.selection # NoSelection => IsSelected(form.selection) /\ opening = "ready")'
    BY <2>2, <2>3, RestKept DEF pageVars, TabKept
  <2> QED BY <1>a, <2>2, <2>3, <2>4, <2>5, FormStep
<1>4. ASSUME SubmitCreate  PROVE TabInv'
  <2> DEFINE e == Element("create", PageLevel)
             i == [comment |-> form.comment, selection |-> form.selection]
  <2>1. e \in Elements  BY DEF Element, Elements, PageLevel
  <2>2. i \in CommentInputs
    BY <1>1, <1>4, TabBoundsAssumption DEF SubmitCreate, FormTyped, CommentInputs, NoComment
  <2>3. i \in Inputs  BY <2>2 DEF Inputs
  <2>4. InputFits(Request(e, i))
    BY <2>2 DEF InputFits, Request, Element, TabInv, TabFits
  <2>5. SendRequest("create", "post", e, i) /\ form' = form  BY <1>4 DEF SubmitCreate
  <2> HIDE DEF e, i
  <2>6. Sends  BY <2>1, <2>3, <2>4, <2>5 DEF Sends
  <2> QED BY <1>1, <2>5, <2>6, SendStep
<1>5. ASSUME NEW id \in ShownCards  PROVE SubmitReply(id) \/ SubmitMove(id) \/ SubmitReattach(id) => TabInv'
  <2>1. id \in DOMAIN ShownReview /\ id \in Int
    <3>1. HistoryGrows /\ shown.content.revision \in 1..Len(history)
      BY DEF TabInv, TypeOK, Contents, Revisions
    <3>2. ShownReview \in Reviews  BY <3>1, CurrentReview DEF ShownReview
    <3> QED BY <3>2, CardsOfReview DEF ShownCards, CardsShown
  <2>2. ASSUME SubmitReply(id)  PROVE TabInv'
    <3> DEFINE e == Element("reply", id)  i == [id |-> id]
    <3>1. e \in Elements /\ i \in [id: Int]  BY <2>1 DEF Element, Elements
    <3>2. i \in Inputs  BY <3>1 DEF Inputs, TargetInputs
    <3>3. InputFits(Request(e, i))
      BY <2>1, <3>1 DEF InputFits, Request, Element, ShownReview
    <3>4. SendRequest("other", "post", e, i) /\ form' = form  BY <2>2 DEF SubmitReply
    <3> HIDE DEF e, i
    <3>5. Sends  BY <3>1, <3>2, <3>3, <3>4 DEF Sends
    <3> QED BY <1>1, <3>4, <3>5, SendStep
  <2>3. ASSUME SubmitMove(id)  PROVE TabInv'
    <3>1. PICK action \in Offered(ShownReview[id]) :
              SendRequest("other", "post", Element("move", id),
                          [id |-> id, to |-> action[1], role |-> action[2]])
      BY <2>3 DEF SubmitMove
    <3> DEFINE e == Element("move", id)  i == [id |-> id, to |-> action[1], role |-> action[2]]
    <3>2. action[1] \in Statuses /\ action[2] \in Roles /\ action = <<action[1], action[2]>>
      BY DEF Offered, LifecycleActions, Statuses, Roles
    <3>3. e \in Elements /\ i \in [id: Int, to: Statuses, role: Roles]
      BY <2>1, <3>2 DEF Element, Elements
    <3>4. i \in Inputs  BY <3>3 DEF Inputs, TargetInputs
    <3>5. InputFits(Request(e, i))
      BY <2>1, <3>2, <3>3 DEF InputFits, Request, Element, ShownReview
    <3>6. SendRequest("other", "post", e, i) /\ form' = form  BY <2>3, <3>1 DEF SubmitMove
    <3> HIDE DEF e, i
    <3>7. Sends  BY <3>3, <3>4, <3>5, <3>6 DEF Sends
    <3> QED BY <1>1, <3>6, <3>7, SendStep
  <2>4. ASSUME SubmitReattach(id)  PROVE TabInv'
    <3> DEFINE e == Element("reattach", id)  i == [id |-> id, selection |-> form.selection]
    <3>1. form.selection \in Selections /\ IsSelected(form.selection)
      BY <1>1, <2>4 DEF SubmitReattach, FormTyped, TabInv, TabFits
    <3>2. e \in Elements /\ i \in [id: Int, selection: Selections]
      BY <2>1, <3>1 DEF Element, Elements
    <3>3. i \in Inputs  BY <3>2 DEF Inputs, TargetInputs
    <3>4. CanReattach(shown.content.document, ShownReview[id])  BY <2>4 DEF SubmitReattach
    <3>5. InputFits(Request(e, i))
      BY <2>1, <3>1, <3>2, <3>4 DEF InputFits, Request, Element, ShownReview
    <3>6. SendRequest("reattach", "post", e, i) /\ form' = form  BY <2>4 DEF SubmitReattach
    <3> HIDE DEF e, i
    <3>7. Sends  BY <3>2, <3>3, <3>5, <3>6 DEF Sends
    <3> QED BY <1>1, <3>6, <3>7, SendStep
  <2> QED BY <2>2, <2>3, <2>4
<1>6. ASSUME ToggleInactive  PROVE TabInv'
  <2> DEFINE e == Element("view", PageLevel)  i == [showInactive |-> ~form.showInactive]
  <2>1. e \in Elements  BY DEF Element, Elements, PageLevel
  <2>2. i \in [showInactive: BOOLEAN]  BY <1>1 DEF FormTyped
  <2>3. i \in Inputs  BY <2>2 DEF Inputs
  <2>4. InputFits(Request(e, i))  BY <2>2 DEF InputFits, Request, Element
  <2>5. SendRequest("none", "get", e, i)  BY <1>6 DEF ToggleInactive
  <2>6. FormTyped(form') /\ form'.selection = form.selection
    BY <1>1, <1>6 DEF ToggleInactive, FormTyped
  <2> HIDE DEF e, i
  <2>7. Sends  BY <2>1, <2>3, <2>4, <2>5 DEF Sends
  <2> QED BY <2>6, <2>7, SendStep
<1>7. ASSUME SearchDocuments  PROVE TabInv'
  <2>1. /\ UNCHANGED <<worldVars, pageVars, shown, known, form, marks, requests, refreshes, missed>>
        /\ searching' = TRUE /\ sent < MaxRequests /\ sent' = sent + 1
        /\ waited' = (waited /\ Quiet)
    BY <1>7 DEF SearchDocuments, Acts
  <2>2. waited' \in BOOLEAN  BY <1>1, <2>1
  <2>3. sent' \in 0..MaxRequests /\ sent <= sent'  BY <1>a, <2>1, TabBoundsAssumption
  <2>4. (form.selection # NoSelection => IsSelected(form.selection) /\ opening = "ready")'
    BY <2>1, RestKept DEF pageVars, TabKept
  <2> QED BY <1>1, <1>a, <2>1, <2>2, <2>3, <2>4, FormStep
<1> QED BY <1>2, <1>3, <1>4, <1>5, <1>6, <1>7 DEF Reviewer

\* A request of the document panel overwrites the marks and nothing else.
LEMMA SearchStep == TabInv /\ SearchGoesOut => TabInv'
<1> SUFFICES ASSUME TabInv, SearchGoesOut  PROVE TabInv'  OBVIOUS
<1>1. /\ UNCHANGED <<worldVars, pageVars, shown, known, form, requests, refreshes, sent, waited, missed>>
      /\ searching' \in BOOLEAN /\ marks' \in Marks
  BY DEF SearchGoesOut, Marks
<1>2. waited' \in BOOLEAN /\ FormTyped(form') /\ sent' \in 0..MaxRequests /\ sent <= sent'
  BY <1>1, TabBoundsAssumption DEF TabInv, TypeOK, FormTyped
<1>3. (form.selection # NoSelection => IsSelected(form.selection) /\ opening = "ready")'
  BY <1>1, RestKept DEF pageVars, TabKept
<1> QED BY <1>1, <1>2, <1>3, FormStep

\* A request is answered with nothing, or with a panel of the newest sidecar.
Answered(q) ==
    \E status \in {200, 409, 422, 500}, content \in Contents \union {NoContent} :
       /\ Answer(q, status, content)
       /\ content # NoContent => Len(history) <= content.revision /\ content.revision <= Len(history')

\* Its handler saves a new sidecar, or none.
Saved ==
    \/ history' = history
    \/ \E r \in Reviews : /\ DOMAIN Current \subseteq DOMAIN r
                          /\ Quoted(r)
                          /\ Len(history) < MaxRevision
                          /\ history' = Append(history, r)

\* What is true of the sidecar a handler or another client saves.
LEMMA SavedStep ==
    ASSUME TabInv, opening = "ready", opening' = opening, TabKept, Saved
    PROVE  /\ HistoryGrows' /\ HistoryKept /\ CardsQuoted'
           /\ Len(history) \in Nat \ {0} /\ Len(history') \in Nat \ {0} /\ Len(history') \in Revisions
           /\ \A j \in 1..Len(history') : IsReview(history'[j])
<1>1. /\ HistoryGrows' /\ HistoryKept
      /\ Len(history) \in Nat \ {0} /\ Len(history') \in Nat \ {0}
      /\ \A j \in 1..Len(history') : IsReview(history'[j])
      /\ history' # history => Len(history') = Len(history) + 1
  BY HistoryStep DEF Saved
<1>2. Len(history') \in Revisions
  BY <1>1, TabBoundsAssumption DEF Saved, TabInv, TypeOK, Revisions
<1>3. CASE history' = history  BY <1>1, <1>2, <1>3, RestKept
<1>4. CASE \E r \in Reviews : /\ DOMAIN Current \subseteq DOMAIN r
                              /\ Quoted(r)
                              /\ history' = Append(history, r)
  <2>1. PICK r \in Reviews : DOMAIN Current \subseteq DOMAIN r /\ Quoted(r) /\ history' = Append(history, r)
    BY <1>4
  <2>2. Current' = r  BY <2>1, HistoryExtended DEF TabInv
  <2>3. Quoted(Current')  BY <2>1, <2>2
  <2> QED BY <1>1, <1>2, <2>3, RestKept
<1> QED BY <1>3, <1>4 DEF Saved

LEMMA AnswerStep ==
    ASSUME TabInv, NEW q \in requests, Answered(q), Saved,
           UNCHANGED <<document, edits, pageVars, shown, known, form, marks, refreshes, searching, sent,
                       waited, missed>>
    PROVE  TabInv'
<1>1. PICK status \in {200, 409, 422, 500}, content \in Contents \union {NoContent} :
         /\ Answer(q, status, content)
         /\ content # NoContent => Len(history) <= content.revision /\ content.revision <= Len(history')
  BY DEF Answered
<1>2. opening = "ready" /\ opening' = opening /\ TabKept /\ shown' = shown /\ sent' = sent
  BY DEF TabInv, TabFits, pageVars, TabKept
<1>3. /\ HistoryGrows' /\ HistoryKept /\ CardsQuoted'
      /\ Len(history) \in Nat \ {0} /\ Len(history') \in Nat \ {0} /\ Len(history') \in Revisions
      /\ \A j \in 1..Len(history') : IsReview(history'[j])
  BY <1>2, SavedStep
<1>4. sent \in Nat /\ shown.number \in Nat  BY TabBoundsAssumption DEF TabInv, TypeOK
<1>5. PICK new : new = [q EXCEPT !.answer = [status |-> status, content |-> content]]  OBVIOUS
<1>6. requests' = (requests \ {q}) \union {new}  BY <1>1, <1>5 DEF Answer
<1>7. /\ q \in [number: 1..MaxRequests, element: Elements, input: Inputs, ifMatch: Revisions,
                target: Nat, seen: Contents, answer: Answers]
      /\ RequestFits(q)
  BY DEF TabInv, TypeOK, TabFits
<1>8. /\ new \in [number: 1..MaxRequests, element: Elements, input: Inputs, ifMatch: Revisions,
                  target: Nat, seen: Contents, answer: Answers]
      /\ new.number = q.number /\ new.element = q.element /\ new.input = q.input
      /\ new.target = q.target /\ new.seen = q.seen
      /\ new.answer = [status |-> status, content |-> content]
  BY <1>1, <1>5, <1>7 DEF Answers
<1>9. TypeOK'
  <2>1. (requests \subseteq [number: 1..MaxRequests, element: Elements, input: Inputs,
                             ifMatch: Revisions, target: Nat, seen: Contents, answer: Answers])'
    BY <1>6, <1>8 DEF TabInv, TypeOK
  <2>2. shown.content.revision \in Nat /\ shown.content.revision <= Len(history')
    BY <1>3 DEF TabInv, TypeOK, Contents, Revisions, HistoryKept
  <2>3. known \in 1..Len(history')  BY <1>3 DEF TabInv, TypeOK, HistoryKept
  <2> QED BY <1>3, <2>1, <2>2, <2>3 DEF TabInv, TypeOK, pageVars
<1>10. \A r \in requests : RequestFits(r)'
  BY <1>2, <1>3, <1>4, RequestKept DEF TabInv, TabFits
<1>11. RequestFits(new)'
  <2>1. InputFits(new)' <=> InputFits(q)'  BY <1>8 DEF InputFits
  <2>2. RequestFits(q)'  BY <1>10
  <2>3. HasContent(new)' => new.answer.content = content /\ content # NoContent
    BY <1>8 DEF HasContent
  <2>4. shown.content.revision \in Nat /\ shown.content.revision <= Len(history)
    BY DEF TabInv, TypeOK, Contents, Revisions
  <2>5. content # NoContent => content.revision \in Nat  BY DEF Contents, Revisions
  <2>6. HasContent(new)' => /\ new.answer.content.revision <= Len(history')
                            /\ shown'.content.revision <= new.answer.content.revision
    BY <1>1, <1>2, <1>3, <2>3, <2>4, <2>5
  <2>7. InputFits(new)' /\ new.number <= sent' /\ new.seen.revision <= Len(history') /\ new.target <= shown'.number
    BY <2>1, <2>2, <1>8 DEF RequestFits
  <2> QED BY <2>6, <2>7 DEF RequestFits
<1>12. TabFits'
  <2>1. \A r \in requests' : RequestFits(r)'  BY <1>6, <1>10, <1>11
  <2>2. \A r1, r2 \in requests' : r1.number = r2.number => r1 = r2
    BY <1>6, <1>8 DEF TabInv, TabFits
  <2>3. (form.selection # NoSelection => IsSelected(form.selection) /\ opening = "ready")'
    BY <1>2, RestKept
  <2>4. \A f \in refreshes : f.revision \in Nat /\ f.revision <= Len(history)
    BY TabBoundsAssumption DEF TabInv, TypeOK, TabFits
  <2>5. \A f \in refreshes' : f.revision <= Len(history')  BY <2>4, <1>3 DEF HistoryKept
  <2> QED BY <1>2, <2>1, <2>2, <2>3, <2>5 DEF TabFits
<1> QED BY <1>3, <1>9, <1>12 DEF TabInv

\* Every handler, for every request, saves a sidecar or none and answers for it.
LEMMA ServerStep == ASSUME TabInv, NEW q \in requests, Server(q)  PROVE TabInv'
<1>1. UNCHANGED <<document, edits, pageVars, shown, known, form, marks, refreshes, searching, sent,
                       waited, missed>>
  BY DEF Server
<1>2. opening = "ready" /\ document \in Documents /\ Len(history) \in Nat \ {0} /\ Len(history) \in Revisions
      /\ q.element \in Elements /\ InputFits(q) /\ HistoryGrows
  BY CurrentReview DEF TabInv, TabFits, TypeOK, RequestFits
<1>3. \A b \in BOOLEAN : Content(b) \in Contents /\ Content(b).revision = Len(history)
  BY <1>2 DEF Content, Contents
<1>4. ASSUME q.element.name # "view", Refusal(q.element.name, q.input) = 200, Len(history) < MaxRevision,
             history' = Append(history, Successor(q.element.name, q.input))
      PROVE  Saved /\ Len(history') = Len(history) + 1
  <2>1. PICK s : s = Successor(q.element.name, q.input)  OBVIOUS
  <2>2. s \in Reviews /\ DOMAIN Current \subseteq DOMAIN s /\ Quoted(s)
    BY <1>2, <1>4, <2>1, SuccessorFits
  <2> QED BY <1>2, <1>4, <2>1, <2>2, HistoryExtended DEF Saved
<1>5. ASSUME ServeRead(q)  PROVE Answered(q) /\ Saved
  <2>1. q.input.showInactive \in BOOLEAN  BY <1>2, <1>5 DEF ServeRead, InputFits
  <2>2. Answer(q, 200, Content(q.input.showInactive)) /\ history' = history
    BY <1>5 DEF ServeRead
  <2>3. Content(q.input.showInactive) \in Contents /\ Content(q.input.showInactive).revision = Len(history)
    BY <1>3, <2>1
  <2>4. Len(history) <= Len(history)  BY <1>2
  <2> QED BY <2>2, <2>3, <2>4 DEF Answered, Saved
<1>6. ASSUME ServeMutation(q)  PROVE Answered(q) /\ Saved
  <2>1. CASE Refusal(q.element.name, q.input) # 200
    <3>1. Refusal(q.element.name, q.input) \in {409, 422}  BY <2>1 DEF Refusal
    <3>2. Answer(q, Refusal(q.element.name, q.input), NoContent) /\ history' = history
      BY <1>6, <2>1 DEF ServeMutation
    <3> QED BY <3>1, <3>2 DEF Answered, Saved
  <2>2. CASE Refusal(q.element.name, q.input) = 200 /\ q.ifMatch # Len(history)
    <3>1. Answer(q, 409, NoContent) /\ history' = history  BY <1>6, <2>2 DEF ServeMutation
    <3> QED BY <3>1 DEF Answered, Saved
  <2>3. CASE Refusal(q.element.name, q.input) = 200 /\ q.ifMatch = Len(history)
    <3> DEFINE c == [revision |-> Len(history) + 1, document |-> document, showInactive |-> FALSE]
    <3>1. Len(history) < MaxRevision /\ Answer(q, 200, c)
          /\ history' = Append(history, Successor(q.element.name, q.input)) /\ q.element.name # "view"
      BY <1>6, <2>3 DEF ServeMutation
    <3>2. Saved /\ Len(history') = Len(history) + 1  BY <1>4, <2>3, <3>1
    <3>3. c \in Contents /\ c.revision = Len(history) + 1
      BY <1>2, <3>1, TabBoundsAssumption DEF Contents, Revisions
    <3> HIDE DEF c
    <3>4. Len(history) <= c.revision /\ c.revision <= Len(history')  BY <1>2, <3>2, <3>3
    <3> QED BY <3>1, <3>2, <3>3, <3>4 DEF Answered
  <2> QED BY <2>1, <2>2, <2>3
<1>7. ASSUME ServeFails(q)  PROVE Answered(q) /\ Saved
  <2>1. Answered(q)  BY <1>7 DEF ServeFails, Answered
  <2>2. Saved  BY <1>4, <1>7 DEF ServeFails, Saved
  <2> QED BY <2>1, <2>2
<1>8. ASSUME RenderFeedback(q)  PROVE Answered(q) /\ Saved
  <2>a. PICK status \in {409, 422} : status = q.answer.status  BY <1>8 DEF RenderFeedback
  <2>b. PICK content : content = Content(FALSE)  OBVIOUS
  <2>1. Answer(q, status, content) /\ history' = history
    BY <1>8, <2>a, <2>b DEF RenderFeedback
  <2>2. content \in Contents /\ content.revision = Len(history)  BY <1>3, <2>b
  <2>3. Len(history) <= content.revision /\ content.revision <= Len(history')  BY <1>2, <2>1, <2>2
  <2> QED BY <2>1, <2>2, <2>3 DEF Answered, Saved
<1> QED BY <1>1, <1>5, <1>6, <1>7, <1>8, AnswerStep DEF Server

\* A lost connection only ends its request.
LEMMA LoseStep == ASSUME TabInv, NEW q \in requests, Lose(q)  PROVE TabInv'
<1>1. /\ UNCHANGED <<worldVars, pageVars, shown, known, form, marks, refreshes, searching, sent,
                      waited, missed>>
      /\ requests' \subseteq requests /\ history' = history /\ opening' = opening /\ TabKept
  BY DEF Lose, worldVars, pageVars, TabKept
<1>2. HistoryGrows' /\ HistoryKept /\ Len(history) \in Nat \ {0} /\ Len(history') \in Nat \ {0}
  BY <1>1, HistoryStep
<1>3. TypeOK'
  <2>1. (requests \subseteq [number: 1..MaxRequests, element: Elements, input: Inputs,
                             ifMatch: Revisions, target: Nat, seen: Contents, answer: Answers])'
    BY <1>1 DEF TabInv, TypeOK
  <2> QED BY <1>1, <2>1 DEF TabInv, TypeOK, worldVars, pageVars
<1>4. sent \in Nat /\ shown.number \in Nat  BY TabBoundsAssumption DEF TabInv, TypeOK
<1>5. \A r \in requests : RequestFits(r)'
  BY <1>1, <1>2, <1>4, RequestKept DEF TabInv, TabFits
<1>6. (form.selection # NoSelection => IsSelected(form.selection) /\ opening = "ready")' /\ CardsQuoted'
  BY <1>1, RestKept
<1>7. TabFits'  BY <1>1, <1>5, <1>6 DEF TabInv, TabFits
<1> QED BY <1>2, <1>3, <1>6, <1>7 DEF TabInv

\* An answer replaces the panel only by one that is no older.
LEMMA ReceiveStep ==
    ASSUME TabInv, NEW q \in requests, Receive(q)
    PROVE  TabInv' /\ shown.content.revision <= shown'.content.revision
<1>1. /\ UNCHANGED <<worldVars, pageVars, known, form, searching, sent, waited, missed>>
      /\ requests' \subseteq requests /\ history' = history /\ opening' = opening /\ TabKept /\ sent' = sent
  BY DEF Receive, worldVars, pageVars, TabKept
<1>2. HistoryGrows' /\ HistoryKept /\ Len(history) \in Nat \ {0} /\ Len(history') \in Nat \ {0}
  BY <1>1, HistoryStep
<1>3. sent \in Nat /\ shown.number \in Nat /\ shown.content.revision \in Nat
  BY TabBoundsAssumption DEF TabInv, TypeOK, Contents, Revisions
<1>4. q.answer \in Answers /\ q.number \in 1..MaxRequests /\ RequestFits(q)
  BY DEF TabInv, TypeOK, TabFits
<1>5. /\ shown' \in [number: Nat, by: {"page", "get", "post"}, content: Contents]
      /\ shown'.content.revision <= Len(history)
      /\ shown' = shown \/ shown.number < shown'.number
      /\ shown.content.revision <= shown'.content.revision
  <2>1. CASE ~Swapped(q)
    <3>1. shown' = shown  BY <2>1 DEF Receive
    <3> QED BY <3>1, <1>3 DEF TabInv, TypeOK
  <2>2. CASE Swapped(q)
    <3>1. shown' = [number |-> shown.number + 1, by |-> Verb(q), content |-> q.answer.content]
      BY <2>2 DEF Receive, Fragment
    <3>2. HasContent(q) /\ q.target = shown.number  BY <2>2 DEF Swapped, Attached
    <3>3. q.answer.content \in Contents  BY <3>2, <1>4 DEF HasContent, Answers
    <3>4. q.answer.content.revision <= Len(history) /\ shown.content.revision <= q.answer.content.revision
      BY <3>2, <1>4 DEF RequestFits
    <3>5. Verb(q) \in {"page", "get", "post"}  BY DEF Verb
    <3> QED BY <3>1, <3>3, <3>4, <3>5, <1>3
  <2> QED BY <2>1, <2>2
<1>6. /\ marks' \in [kind: {"none", "create", "reattach", "other"}, method: {"none", "get", "post"}]
      /\ refreshes' \subseteq [number: 1..MaxRequests, kind: {"none", "create", "reattach", "other"},
                               successful: BOOLEAN, revision: 0..MaxRevision]
      /\ \A f \in refreshes' : f.revision <= Len(history)
  <2>1. CASE ~AfterSwap(q)
    <3>1. UNCHANGED <<marks, refreshes>>  BY <2>1 DEF Receive
    <3> QED BY <3>1 DEF TabInv, TypeOK, TabFits
  <2>2. CASE AfterSwap(q)
    <3> DEFINE new == [number |-> q.number, kind |-> marks.kind,
                       successful |-> q.answer.status = 200, revision |-> 0]
    <3>1. marks' = NoMarks /\ refreshes' \subseteq refreshes \union {new}
      BY <2>2 DEF Receive
    <3>2. new \in [number: 1..MaxRequests, kind: {"none", "create", "reattach", "other"},
                   successful: BOOLEAN, revision: 0..MaxRevision]
      BY <1>4, TabBoundsAssumption DEF TabInv, TypeOK
    <3>3. new.revision = 0  OBVIOUS
    <3> HIDE DEF new
    <3>4. \A f \in refreshes' : f.revision <= Len(history)
      BY <3>1, <3>3, <1>2 DEF TabInv, TabFits
    <3>5. marks' \in [kind: {"none", "create", "reattach", "other"}, method: {"none", "get", "post"}]
      BY <3>1 DEF NoMarks
    <3> QED BY <3>1, <3>2, <3>4, <3>5 DEF TabInv, TypeOK
  <2> QED BY <2>1, <2>2
<1>7. TypeOK'
  <2>1. (requests \subseteq [number: 1..MaxRequests, element: Elements, input: Inputs,
                             ifMatch: Revisions, target: Nat, seen: Contents, answer: Answers])'
    BY <1>1 DEF TabInv, TypeOK
  <2> QED BY <1>1, <1>5, <1>6, <2>1 DEF TabInv, TypeOK, worldVars, pageVars
<1>8. \A r \in requests : RequestFits(r)'
  BY <1>1, <1>2, <1>3, <1>5, RequestKept DEF TabInv, TabFits
<1>9. (form.selection # NoSelection => IsSelected(form.selection) /\ opening = "ready")' /\ CardsQuoted'
  BY <1>1, RestKept
<1>10. TabFits'  BY <1>1, <1>6, <1>8, <1>9 DEF TabInv, TabFits
<1> QED BY <1>2, <1>5, <1>7, <1>9, <1>10 DEF TabInv

\* The viewer states the tab waits for.
LEMMA StateStep ==
    ASSUME TabInv, NEW f \in refreshes, FetchState(f) \/ DeliverState(f) \/ LoseState(f)
    PROVE  TabInv'
<1>1. /\ UNCHANGED <<worldVars, pageVars, shown, marks, requests, sent, waited>>
      /\ history' = history /\ opening' = opening /\ TabKept /\ sent' = sent /\ shown' = shown /\ requests' = requests
  BY DEF FetchState, DeliverState, LoseState, worldVars, pageVars, TabKept
<1>2. /\ HistoryGrows' /\ HistoryKept /\ Len(history) \in Nat \ {0} /\ Len(history') \in Nat \ {0}
      /\ Len(history) \in 0..MaxRevision
  BY <1>1, HistoryStep, TabBoundsAssumption DEF TabInv, TypeOK, Revisions
<1>3. f \in [number: 1..MaxRequests, kind: {"none", "create", "reattach", "other"},
             successful: BOOLEAN, revision: 0..MaxRevision] /\ f.revision <= Len(history)
  BY DEF TabInv, TypeOK, TabFits
<1>4. PICK new : new = [f EXCEPT !.revision = Len(history)]  OBVIOUS
<1>5. /\ refreshes' \subseteq refreshes \union {new}
      /\ new \in [number: 1..MaxRequests, kind: {"none", "create", "reattach", "other"},
                  successful: BOOLEAN, revision: 0..MaxRevision]
      /\ new.revision = Len(history)
  BY <1>2, <1>3, <1>4 DEF FetchState, DeliverState, LoseState
<1>6. known' \in 1..Len(history) /\ missed' \in BOOLEAN
  <2>1. known \in 1..Len(history) /\ missed \in BOOLEAN  BY DEF TabInv, TypeOK
  <2>2. f.revision # 0 => f.revision \in 1..Len(history)  BY <1>2, <1>3
  <2> QED BY <2>1, <2>2 DEF FetchState, DeliverState, LoseState
<1>7. FormTyped(form') /\ form'.selection \in {form.selection, NoSelection}
  <2>1. FormTyped(form)  BY DEF TabInv, TypeOK, FormTyped
  <2>2. CASE form' = form  BY <2>1, <2>2
  <2>3. CASE form' = FormAfter(f)
    BY <2>1, <2>3, TabBoundsAssumption DEF FormTyped, FormAfter, NoComment
  <2> QED BY <2>2, <2>3 DEF FetchState, DeliverState, LoseState
<1>8. TypeOK'
  <2>1. refreshes' \subseteq [number: 1..MaxRequests, kind: {"none", "create", "reattach", "other"},
                              successful: BOOLEAN, revision: 0..MaxRevision]
    BY <1>5 DEF TabInv, TypeOK
  <2>2. searching' \in BOOLEAN
    BY <1>3 DEF FetchState, DeliverState, LoseState, TabInv, TypeOK
  <2> QED BY <1>1, <1>6, <1>7, <2>1, <2>2 DEF TabInv, TypeOK, FormTyped, worldVars, pageVars
<1>9. sent \in Nat /\ shown.number \in Nat  BY TabBoundsAssumption DEF TabInv, TypeOK
<1>10. \A r \in requests : RequestFits(r)'
  BY <1>1, <1>2, <1>9, RequestKept DEF TabInv, TabFits
<1>11. (form.selection # NoSelection => IsSelected(form.selection) /\ opening = "ready")' /\ CardsQuoted'
  BY <1>1, <1>7, RestKept
<1>12. \A g \in refreshes' : g.revision <= Len(history)
  BY <1>2, <1>5 DEF TabInv, TabFits
<1>13. TabFits'  BY <1>1, <1>10, <1>11, <1>12 DEF TabInv, TabFits
<1> QED BY <1>2, <1>8, <1>11, <1>13 DEF TabInv

\* What others do to the document and the sidecar.
LEMMA WorldStep ==
    ASSUME TabInv, (\E d \in Documents : EditDocument(d)) \/ OtherSaves
    PROVE  TabInv'
<1>1. /\ UNCHANGED <<pageVars, shown, known, controlVars>> /\ document' \in Documents /\ edits' \in 0..MaxEdits
      /\ opening' = opening /\ TabKept /\ sent' = sent /\ shown' = shown /\ requests' = requests
  BY TabBoundsAssumption DEF EditDocument, OtherSaves, pageVars, controlVars, TabKept, TabInv, TypeOK
<1>2. Current \in Reviews /\ HistoryGrows  BY CurrentReview DEF TabInv
<1>a. /\ DOMAIN Current \in SUBSET (Int \ {PageLevel})
      /\ Current \in [DOMAIN Current -> Cards]
      /\ \A id \in DOMAIN Current : CardValid(Current[id])
  BY <1>2, CardsOfReview
<1>3. \/ history' = history
      \/ Len(history) < MaxRevision /\ \E r \in Reviews :
            /\ DOMAIN r = DOMAIN Current /\ history' = Append(history, r)
            /\ \A id \in DOMAIN r : r[id].seen = Current[id].seen /\ r[id].source = Current[id].source
  <2>1. CASE \E d \in Documents : EditDocument(d)  BY <2>1 DEF EditDocument
  <2>2. CASE OtherSaves
    <3>1. CASE history' = Append(history, Current)  BY <3>1, <2>2, <1>2 DEF OtherSaves
    <3>2. CASE \E id \in DOMAIN Current, action \in LifecycleActions :
                  history' = Append(history, [Current EXCEPT ![id].status = action[1]])
      <4>1. PICK id \in DOMAIN Current, action \in LifecycleActions :
                  history' = Append(history, [Current EXCEPT ![id].status = action[1]])
        BY <3>2
      <4>2. action[1] \in Statuses  BY DEF LifecycleActions, Statuses
      <4> DEFINE c == [Current[id] EXCEPT !.status = action[1]]
                 r == [Current EXCEPT ![id].status = action[1]]
      <4>3. c \in Cards /\ CardValid(c) /\ c.seen = Current[id].seen /\ c.source = Current[id].source
        BY <1>a, <4>2 DEF Cards, CardValid
      <4>4. r = [Current EXCEPT ![id] = c]  OBVIOUS
      <4>5. history' = Append(history, r)  BY <4>1
      <4> HIDE DEF c, r
      <4>6. r \in [DOMAIN Current -> Cards] /\ \A x \in DOMAIN Current : CardValid(r[x])
        BY <1>a, <4>3, <4>4
      <4>7. r \in Reviews /\ DOMAIN r = DOMAIN Current  BY <1>a, <4>6, ReviewOfCards
      <4>8. \A x \in DOMAIN r : r[x].seen = Current[x].seen /\ r[x].source = Current[x].source
        BY <1>a, <4>3, <4>4, <4>7
      <4> QED BY <4>5, <4>7, <4>8, <2>2 DEF OtherSaves
    <3> QED BY <2>2, <3>1, <3>2 DEF OtherSaves
  <2> QED BY <2>1, <2>2
<1>4. /\ HistoryGrows' /\ HistoryKept
      /\ Len(history) \in Nat \ {0} /\ Len(history') \in Nat \ {0}
      /\ \A i \in 1..Len(history') : IsReview(history'[i])
      /\ history' # history => Len(history') = Len(history) + 1
  <2>1. \/ history' = history
        \/ \E r \in Reviews : DOMAIN Current \subseteq DOMAIN r /\ history' = Append(history, r)
    BY <1>3
  <2> QED BY <2>1, HistoryStep
<1>5. Len(history') \in Revisions
  BY <1>3, <1>4, TabBoundsAssumption DEF TabInv, TypeOK, Revisions
<1>6. TypeOK'
  <2>1. shown'.content.revision <= Len(history')
    BY <1>1, <1>4 DEF TabInv, TypeOK, Contents, Revisions, HistoryKept
  <2>2. known' \in 1..Len(history')
    BY <1>1, <1>4 DEF TabInv, TypeOK, HistoryKept
  <2> QED BY <1>1, <1>4, <1>5, <2>1, <2>2 DEF TabInv, TypeOK, pageVars, controlVars
<1>7. sent \in Nat /\ shown.number \in Nat  BY TabBoundsAssumption DEF TabInv, TypeOK
<1>8. \A r \in requests : RequestFits(r)'
  BY <1>1, <1>4, <1>7, RequestKept DEF TabInv, TabFits
<1>9. CardsQuoted'
  <2>1. CASE history' = history  BY <1>1, <2>1, RestKept
  <2>2. CASE \E r \in Reviews :
            /\ DOMAIN r = DOMAIN Current /\ history' = Append(history, r)
            /\ \A id \in DOMAIN r : r[id].seen = Current[id].seen /\ r[id].source = Current[id].source
    <3>1. PICK r \in Reviews :
            /\ DOMAIN r = DOMAIN Current /\ history' = Append(history, r)
            /\ \A id \in DOMAIN r : r[id].seen = Current[id].seen /\ r[id].source = Current[id].source
      BY <2>2
    <3>2. Current' = r  BY <1>2, <3>1, HistoryExtended
    <3> QED BY <1>1, <3>1, <3>2 DEF TabInv, CardsQuoted, TabKept
  <2> QED BY <1>3, <2>1, <2>2
<1>10. \A f \in refreshes' : f.revision <= Len(history')
  <2>1. \A f \in refreshes : f.revision \in Nat /\ f.revision <= Len(history)
    BY TabBoundsAssumption DEF TabInv, TypeOK, TabFits
  <2> QED BY <1>1, <1>4, <2>1 DEF controlVars, HistoryKept
<1>11. form' = form  BY <1>1 DEF controlVars
<1>12. (form.selection # NoSelection => IsSelected(form.selection) /\ opening = "ready")'
  BY <1>1, <1>11, RestKept
<1>13. TabFits'  BY <1>1, <1>8, <1>10, <1>12 DEF TabInv, TabFits
<1> QED BY <1>4, <1>6, <1>9, <1>13 DEF TabInv

LEMMA TabNext == TabInv /\ [Next]_vars => TabInv'
<1> SUFFICES ASSUME TabInv, [Next]_vars  PROVE TabInv'  OBVIOUS
<1>1. CASE UNCHANGED vars
  BY <1>1 DEF vars, TabInv, TypeOK, HistoryGrows, TabFits, RequestFits, InputFits, IsSelected,
              HasContent, CardsQuoted, Current
<1>2. CASE Open  BY <1>2, OpenStep
<1>3. CASE Reviewer  BY <1>3, ReviewerStep
<1>4. CASE \E q \in requests : Server(q) \/ Receive(q) \/ Lose(q)
  BY <1>4, ServerStep, ReceiveStep, LoseStep
<1>5. CASE \E f \in refreshes : FetchState(f) \/ DeliverState(f) \/ LoseState(f)
  BY <1>5, StateStep
<1>6. CASE (\E d \in Documents : EditDocument(d)) \/ OtherSaves  BY <1>6, WorldStep
<1>7. CASE SearchGoesOut  BY <1>7, SearchStep
<1> QED BY <1>1, <1>2, <1>3, <1>4, <1>5, <1>6, <1>7 DEF Next

LEMMA TabAlways == Spec => []TabInv
<1> QED BY TabInit, TabNext, PTL DEF Spec

\* The forms of a tab leave the sidecar one the loader accepts, and everything the tab
\* holds refers to revisions there are.
THEOREM ReviewTabTypeCorrect == Spec => []TypeOK
<1>1. TabInv => TypeOK  BY DEF TabInv
<1> QED BY <1>1, TabAlways, PTL

\* If the page and the source map are of one content, a comment quotes the text its
\* reviewer saw.
THEOREM QuotesWereSeen == Spec => []SeenIsQuoted
<1>1. TabInv => SeenIsQuoted  BY DEF TabInv, CardsQuoted, SeenIsQuoted
<1> QED BY <1>1, TabAlways, PTL

\* However answers overtake each other, the panel is never replaced by an older one.
THEOREM PanelOnlyAdvances == Spec => PanelNeverGoesBack
<1>1. TabInv /\ [Next]_vars => [shown.content.revision <= shown'.content.revision]_vars
  <2> SUFFICES ASSUME TabInv, Next  PROVE shown.content.revision <= shown'.content.revision
    OBVIOUS
  <2>1. /\ shown.content.revision \in Nat /\ shown.content.revision <= Len(history)
        /\ Len(history) \in Nat
    BY CurrentReview DEF TabInv, TypeOK, Contents, Revisions
  <2>2. CASE Open
    <3>1. shown' = shown \/ shown'.content.revision = Len(history)
      BY <2>2 DEF Open, RenderDocument, RenderPanel, LoadSource, LoadAnnotations, Fragment, Content
    <3> QED BY <2>1, <3>1
  <2>3. CASE Reviewer
    <3>1. Acts
      BY <2>3 DEF Reviewer, Select, Type, SubmitCreate, SubmitReply, SubmitMove, SubmitReattach,
                  ToggleInactive, SendRequest, SearchDocuments
    <3> QED BY <2>1, <3>1 DEF Acts
  <2>4. CASE \E q \in requests : Server(q) \/ Receive(q) \/ Lose(q)
    <3>1. PICK q \in requests : Server(q) \/ Receive(q) \/ Lose(q)  BY <2>4
    <3>2. CASE Receive(q)  BY <3>2, ReceiveStep
    <3>3. CASE Server(q) \/ Lose(q)  BY <2>1, <3>3 DEF Server, Lose
    <3> QED BY <3>1, <3>2, <3>3
  <2>5. CASE \E f \in refreshes : FetchState(f) \/ DeliverState(f) \/ LoseState(f)
    BY <2>1, <2>5 DEF FetchState, DeliverState, LoseState
  <2>6. CASE (\E d \in Documents : EditDocument(d)) \/ OtherSaves
    BY <2>1, <2>6 DEF EditDocument, OtherSaves
  <2>7. CASE SearchGoesOut  BY <2>1, <2>7 DEF SearchGoesOut
  <2> QED BY <2>2, <2>3, <2>4, <2>5, <2>6, <2>7 DEF Next
<1> QED BY <1>1, TabAlways, PTL DEF Spec, PanelNeverGoesBack

\* A form of an up-to-date panel is never refused.
LEMMA OfferNotRefused ==
    ASSUME TabInv, NEW q \in requests, q.element.name \in {"move", "reply", "reattach"},
           q.seen.revision = Len(history), q.seen.document = document,
           q.element.name = "reattach" => q.input.selection.document = document
    PROVE  Refusal(q.element.name, q.input) = 200
<1>1. InputFits(q) /\ history[q.seen.revision] = Current  BY DEF TabInv, TabFits, RequestFits, Current
<1>2. CASE q.element.name = "move"
  <2>1. <<q.input.to, q.input.role>> \in Offered(Current[q.input.id])  BY <1>1, <1>2 DEF InputFits
  <2>2. ValidateTransition(Current[q.input.id].status, q.input.to, q.input.role)
    BY <2>1 DEF Offered, CanQuickClose, ValidateTransition, ReviewerMoves
  <2> QED BY <1>2, <2>2 DEF Refusal
<1>3. CASE q.element.name = "reattach"
  <2>1. CanReattach(document, Current[q.input.id])  BY <1>1, <1>3 DEF InputFits
  <2>2. Current \in Reviews /\ q.input.id \in DOMAIN Current
    BY <1>1, <1>3, CurrentReview DEF InputFits, TabInv
  <2>3. CardValid(Current[q.input.id])  BY <2>2, CardsOfReview
  <2> QED BY <1>3, <2>1, <2>3 DEF Refusal, CanReattach, AnchorStale, CardValid
<1>4. CASE q.element.name = "reply"  BY <1>4 DEF Refusal
<1> QED BY <1>2, <1>3, <1>4

\* What a panel offers, the handlers accept while nothing has changed.
THEOREM OffersNeverRefused == Spec => OffersAreAccepted
<1> DEFINE Accepted ==
      \A q \in requests, r \in requests' :
          /\ q.number = r.number /\ q.answer = NoAnswer /\ r.answer # NoAnswer
          /\ q.element.name \in {"move", "reply", "reattach"}
          /\ q.seen.revision = Len(history) /\ q.ifMatch = Len(history)
          /\ q.seen.document = document
          /\ q.element.name = "reattach" => q.input.selection.document = document
          => r.answer.status \in {200, 500}
<1>1. TabInv /\ [Next]_vars => [Accepted]_vars
  <2> SUFFICES ASSUME TabInv, Next  PROVE Accepted  OBVIOUS
  <2> SUFFICES ASSUME NEW q \in requests, NEW r \in requests',
                      q.number = r.number, q.answer = NoAnswer, r.answer # NoAnswer,
                      q.element.name \in {"move", "reply", "reattach"},
                      q.seen.revision = Len(history), q.ifMatch = Len(history),
                      q.seen.document = document,
                      q.element.name = "reattach" => q.input.selection.document = document
               PROVE  r.answer.status \in {200, 500}
    OBVIOUS
  <2>1. \A x \in requests : x.number = r.number => x = q  BY DEF TabInv, TabFits
  <2>2. r \notin requests  BY <2>1
  <2>3. \E x \in requests : Server(x)
    <3>1. ASSUME requests' \subseteq requests  PROVE FALSE  BY <2>2, <3>1
    <3>2. ASSUME NEW kind, NEW method, NEW element, NEW input, SendRequest(kind, method, element, input)
          PROVE  FALSE
      <4>1. r = Request(element, input)  BY <2>2, <3>2 DEF SendRequest
      <4> QED BY <4>1 DEF Request
    <3>3. ~Open  BY <3>1 DEF Open, RenderDocument, RenderPanel, LoadSource, LoadAnnotations, controlVars
    <3>4. ~Reviewer
      BY <3>1, <3>2 DEF Reviewer, Select, Type, SubmitCreate, SubmitReply, SubmitMove,
                        SubmitReattach, ToggleInactive, SearchDocuments
    <3>5. \A x \in requests : ~Receive(x) /\ ~Lose(x)  BY <3>1 DEF Receive, Lose
    <3>6. \A f \in refreshes : ~(FetchState(f) \/ DeliverState(f) \/ LoseState(f))
      BY <3>1 DEF FetchState, DeliverState, LoseState
    <3>7. ~((\E d \in Documents : EditDocument(d)) \/ OtherSaves)
      BY <3>1 DEF EditDocument, OtherSaves, controlVars
    <3>8. ~SearchGoesOut  BY <3>1 DEF SearchGoesOut
    <3> QED BY <3>3, <3>4, <3>5, <3>6, <3>7, <3>8 DEF Next
  <2>4. PICK x \in requests : Server(x)  BY <2>3
  <2>5. x = q /\ (ServeRead(q) \/ ServeMutation(q) \/ ServeFails(q))
    <3>1. requests \ {x} \subseteq requests /\ \A y \in requests' : y \in requests \/ y.number = x.number
      <4>1. x \in [number: 1..MaxRequests, element: Elements, input: Inputs, ifMatch: Revisions,
                   target: Nat, seen: Contents, answer: Answers]
        BY DEF TabInv, TypeOK
      <4>2. \A status, content : Answer(x, status, content) =>
               \A y \in requests' : y \in requests \/ y.number = x.number
        BY <4>1 DEF Answer
      <4>3. \E status, content : Answer(x, status, content)
        BY <2>4 DEF Server, ServeRead, ServeMutation, ServeFails, RenderFeedback
      <4> QED BY <4>2, <4>3
    <3>2. x = q  BY <2>1, <2>2, <3>1
    <3>3. ~RenderFeedback(q)
      <4>1. q.answer.status = 0  BY DEF NoAnswer
      <4> QED BY <4>1 DEF RenderFeedback
    <3> QED BY <2>4, <3>2, <3>3 DEF Server
  <2>6. Refusal(q.element.name, q.input) = 200  BY OfferNotRefused
  <2>7. q \in [number: 1..MaxRequests, element: Elements, input: Inputs, ifMatch: Revisions,
               target: Nat, seen: Contents, answer: Answers]
    BY DEF TabInv, TypeOK
  <2>8. \A status, content : Answer(q, status, content) => r.answer.status = status
    BY <2>2, <2>7 DEF Answer
  <2> QED BY <2>5, <2>6, <2>8 DEF ServeRead, ServeMutation, ServeFails
<1> QED BY <1>1, TabAlways, PTL DEF Spec, OffersAreAccepted

-----------------------------------------------------------------------------
(* A reviewer who waits *)

Kept(comment) ==
    \E j \in 1..Len(history) : \E id \in DOMAIN history[j] : history[j][id].comment = comment

\* While the reviewer waits, at most one request or one viewer state is under way, the
\* document panel sends nothing beside a request, and the marks are about it.
WaitFits ==
    waited =>
       /\ \A q, r \in requests : q = r
       /\ \A f, g \in refreshes : f = g
       /\ requests # {} => refreshes = {} /\ ~searching
       /\ \A q \in requests : q.element.name # "view" => marks.method = "post"
       /\ shown.by = "post" =>
             /\ \A f \in refreshes : f.revision = 0 \/ shown.content.revision <= f.revision
             /\ ~missed /\ refreshes = {} => shown.content.revision <= known
       /\ marks.kind = "create" => \A q \in requests :
             /\ q.element.name = "create" /\ q.input.comment = form.comment
             /\ q.answer # NoAnswer /\ q.answer.status = 200 => Kept(form.comment)
       /\ \A f \in refreshes : f.kind = "create" /\ f.successful => Kept(form.comment)

\* A comment once stored stays in the history.
LEMMA KeptStays ==
    ASSUME TabInv, TabInv', HistoryKept, form'.comment = form.comment, Kept(form.comment)
    PROVE  Kept(form.comment)'
<1>1. PICK j \in 1..Len(history) : \E id \in DOMAIN history[j] : history[j][id].comment = form.comment
  BY DEF Kept
<1>2. j \in 1..Len(history') /\ history'[j] = history[j]
  BY CurrentReview DEF TabInv, HistoryGrows, HistoryKept
<1> QED BY <1>1, <1>2 DEF Kept

\* Every step goes on with the history.
LEMMA NextKeepsHistory ==
    ASSUME TabInv, [Next]_vars
    PROVE  HistoryKept
<1>1. HistoryGrows /\ Len(history) \in Nat  BY CurrentReview DEF TabInv
<1>2. ASSUME \E r : history' = Append(history, r)  PROVE HistoryKept
  <2>1. PICK r : history' = Append(history, r)  BY <1>2
  <2> QED BY <1>1, <2>1 DEF HistoryKept, HistoryGrows
<1>3. ASSUME history' = history  PROVE HistoryKept  BY <1>1, <1>3 DEF HistoryKept
<1>4. CASE UNCHANGED vars  BY <1>3, <1>4 DEF vars
<1>5. CASE Open
  BY <1>3, <1>5 DEF Open, RenderDocument, RenderPanel, LoadSource, LoadAnnotations, worldVars
<1>6. CASE Reviewer
  <2>1. Acts
    BY <1>6 DEF Reviewer, Select, Type, SubmitCreate, SubmitReply, SubmitMove, SubmitReattach,
                ToggleInactive, SendRequest, SearchDocuments
  <2> QED BY <1>3, <2>1 DEF Acts, worldVars
<1>7. CASE \E q \in requests : Server(q) \/ Receive(q) \/ Lose(q)
  <2>1. history' = history \/ \E r : history' = Append(history, r)
    BY <1>7 DEF Server, ServeRead, ServeMutation, ServeFails, RenderFeedback, Receive, Lose, worldVars
  <2> QED BY <1>2, <1>3, <2>1
<1>8. CASE \E f \in refreshes : FetchState(f) \/ DeliverState(f) \/ LoseState(f)
  BY <1>3, <1>8 DEF FetchState, DeliverState, LoseState, worldVars
<1>9. CASE (\E d \in Documents : EditDocument(d)) \/ OtherSaves
  BY <1>2, <1>3, <1>9 DEF EditDocument, OtherSaves
<1>10. CASE SearchGoesOut  BY <1>3, <1>10 DEF SearchGoesOut, worldVars
<1> QED BY <1>4, <1>5, <1>6, <1>7, <1>8, <1>9, <1>10 DEF Next

\* A new comment has a number no comment has.
Numbered == \A id \in DOMAIN Current : id <= Len(history)

\* A new comment is the only annotation a mutation adds.
LEMMA SuccessorDomain ==
    ASSUME TabInv, NEW q \in requests, q.element.name # "view"
    PROVE  DOMAIN Successor(q.element.name, q.input) \subseteq DOMAIN Current \union {Len(history) + 1}
<1>1. q.element.name \in {"create", "reply", "move", "reattach"}
  BY DEF TabInv, TypeOK, Elements
<1>2. Current \in Reviews  BY CurrentReview DEF TabInv
<1>3. Current \in [DOMAIN Current -> Cards]  BY <1>2, CardsOfReview
<1> QED BY <1>1, <1>3 DEF Successor

LEMMA NumberedInit == Init => Numbered
<1> SUFFICES ASSUME Init  PROVE Numbered  OBVIOUS
<1>1. Current = InitialReview /\ Len(history) = 1  BY DEF Init, Current
<1>2. \A id \in DOMAIN InitialReview : id \in Int /\ id < 0
  BY InitialReviewAssumption DEF IsReview
<1> QED BY <1>1, <1>2 DEF Numbered

LEMMA NumberedNext == TabInv /\ Numbered /\ [Next]_vars => Numbered'
<1> SUFFICES ASSUME TabInv, Numbered, [Next]_vars  PROVE Numbered'  OBVIOUS
<1>1. HistoryGrows /\ Current \in Reviews /\ Len(history) \in Nat  BY CurrentReview DEF TabInv
<1>2. DOMAIN Current \subseteq Int /\ Current \in [DOMAIN Current -> Cards]  BY <1>1, CardsOfReview
<1>3. CASE history' = history  BY <1>3 DEF Numbered, Current
<1>4. ASSUME NEW r, history' = Append(history, r), DOMAIN r \subseteq DOMAIN Current \union {Len(history) + 1}
      PROVE  Numbered'
  <2>1. Len(history') = Len(history) + 1 /\ history'[Len(history) + 1] = r
    BY <1>1, <1>4 DEF HistoryGrows
  <2>2. Current' = r  BY <2>1 DEF Current
  <2> QED BY <1>1, <1>2, <1>4, <2>1, <2>2 DEF Numbered
<1>5. CASE Open
  BY <1>3, <1>5 DEF Open, RenderDocument, RenderPanel, LoadSource, LoadAnnotations, worldVars
<1>6. CASE Reviewer
  <2>1. Acts
    BY <1>6 DEF Reviewer, Select, Type, SubmitCreate, SubmitReply, SubmitMove, SubmitReattach,
                ToggleInactive, SendRequest, SearchDocuments
  <2> QED BY <1>3, <2>1 DEF Acts, worldVars
<1>7. CASE \E q \in requests : Server(q) \/ Receive(q) \/ Lose(q)
  <2>1. \/ history' = history
        \/ \E q \in requests : q.element.name # "view" /\ history' = Append(history, Successor(q.element.name, q.input))
    BY <1>7 DEF Server, ServeRead, ServeMutation, ServeFails, RenderFeedback, Receive, Lose, worldVars
  <2> QED BY <1>3, <1>4, <2>1, SuccessorDomain
<1>8. CASE \E f \in refreshes : FetchState(f) \/ DeliverState(f) \/ LoseState(f)
  BY <1>3, <1>8 DEF FetchState, DeliverState, LoseState, worldVars
<1>9. CASE (\E d \in Documents : EditDocument(d)) \/ OtherSaves
  <2>1. \/ history' = history \/ history' = Append(history, Current)
        \/ \E id \in DOMAIN Current, action \in LifecycleActions :
              history' = Append(history, [Current EXCEPT ![id].status = action[1]])
    BY <1>9 DEF EditDocument, OtherSaves
  <2>2. \A id \in DOMAIN Current : \A to : DOMAIN [Current EXCEPT ![id].status = to] = DOMAIN Current
    BY <1>2
  <2> QED BY <1>3, <1>4, <2>1, <2>2
<1>10. CASE SearchGoesOut  BY <1>3, <1>10 DEF SearchGoesOut, worldVars
<1> QED BY <1>3, <1>5, <1>6, <1>7, <1>8, <1>9, <1>10 DEF Next, vars

\* Requests are only sent, and the form only changed, when nothing is under way.
LEMMA WaitReviewer == ASSUME TabInv, WaitFits, Reviewer  PROVE WaitFits'
<1>1. Acts
  BY DEF Reviewer, Select, Type, SubmitCreate, SubmitReply, SubmitMove, SubmitReattach,
         ToggleInactive, SendRequest, SearchDocuments
<1> SUFFICES ASSUME waited'  PROVE WaitFits'  BY DEF WaitFits
<1>2. waited /\ requests = {} /\ refreshes' = {} /\ refreshes = {} /\ ~searching
      /\ UNCHANGED <<shown, known, missed>>
  BY <1>1 DEF Acts, Quiet, NothingUnderWay
<1>3. CASE \E kind, method, element, input :
              /\ SendRequest(kind, method, element, input)
              /\ element.name # "view" => method = "post"
              /\ kind = "create" => element.name = "create" /\ input.comment = form'.comment
  <2>1. PICK kind, method, element, input :
              /\ SendRequest(kind, method, element, input)
              /\ element.name # "view" => method = "post"
              /\ kind = "create" => element.name = "create" /\ input.comment = form'.comment
    BY <1>3
  <2>2. PICK new : new = Request(element, input)  OBVIOUS
  <2>3. requests' = {new} /\ marks'.kind = kind /\ marks'.method = method /\ ~searching'
    BY <1>2, <2>1, <2>2 DEF SendRequest
  <2>4. new.element = element /\ new.input = input /\ new.answer = NoAnswer  BY <2>2 DEF Request
  <2> QED BY <1>2, <2>1, <2>3, <2>4 DEF WaitFits
<1>4. CASE requests' = requests  BY <1>2, <1>4 DEF WaitFits
<1>5. \/ requests' = requests
      \/ \E kind, method, element, input :
              /\ SendRequest(kind, method, element, input)
              /\ element.name # "view" => method = "post"
              /\ kind = "create" => element.name = "create" /\ input.comment = form'.comment
  <2>1. CASE \E r \in Ranges : Select(r)  BY <2>1 DEF Select
  <2>2. CASE \E n \in 1..MaxComments : Type(n)  BY <2>2 DEF Type
  <2>3. CASE SubmitCreate
    <3> DEFINE i == [comment |-> form.comment, selection |-> form.selection]
    <3>1. SendRequest("create", "post", Element("create", PageLevel), i) /\ form' = form
      BY <2>3 DEF SubmitCreate
    <3>2. Element("create", PageLevel).name = "create" /\ i.comment = form.comment  BY DEF Element
    <3> HIDE DEF i
    <3> QED BY <3>1, <3>2
  <2>4. CASE \E id \in ShownCards : SubmitReply(id) \/ SubmitMove(id) \/ SubmitReattach(id)
    <3>1. \E kind \in {"other", "reattach"} : \E element, input : SendRequest(kind, "post", element, input)
      BY <2>4 DEF SubmitReply, SubmitMove, SubmitReattach
    <3> QED BY <3>1
  <2>5. CASE ToggleInactive
    <3>1. \E method, input : SendRequest("none", method, Element("view", PageLevel), input)
      BY <2>5 DEF ToggleInactive
    <3>2. Element("view", PageLevel).name = "view"  BY DEF Element
    <3> QED BY <3>1, <3>2
  <2>6. CASE SearchDocuments  BY <2>6 DEF SearchDocuments
  <2> QED BY <2>1, <2>2, <2>3, <2>4, <2>5, <2>6 DEF Reviewer
<1> QED BY <1>3, <1>4, <1>5

\* A create that is answered with success is in the history.
LEMMA WaitServer ==
    ASSUME TabInv, TabInv', HistoryKept, Numbered, WaitFits, NEW q \in requests, Server(q)
    PROVE  WaitFits'
<1> SUFFICES ASSUME waited'  PROVE WaitFits'  BY DEF WaitFits
<1>1. UNCHANGED <<shown, known, form, marks, refreshes, searching, waited, missed>>  BY DEF Server
<1>2. waited /\ requests = {q} /\ refreshes = {} /\ ~searching
  BY <1>1 DEF WaitFits
<1>3. q \in [number: 1..MaxRequests, element: Elements, input: Inputs, ifMatch: Revisions,
             target: Nat, seen: Contents, answer: Answers]
  BY DEF TabInv, TypeOK
<1>4. ASSUME NEW status, NEW content, Answer(q, status, content),
             status # 200 \/ q.element.name # "create" \/ Kept(q.input.comment)'
      PROVE  WaitFits'
  <2>1. PICK new : new = [q EXCEPT !.answer = [status |-> status, content |-> content]]  OBVIOUS
  <2>2. requests' = {new} /\ new.element = q.element /\ new.input = q.input /\ new.answer.status = status
    BY <1>2, <1>3, <1>4, <2>1 DEF Answer
  <2>3. marks'.kind = "create" => new.element.name = "create" /\ new.input.comment = form'.comment
    BY <1>1, <1>2, <2>2 DEF WaitFits
  <2>4. marks'.kind = "create" /\ status = 200 => Kept(form.comment)'
    BY <1>4, <2>2, <2>3 DEF Kept
  <2> QED BY <1>1, <1>2, <2>2, <2>3, <2>4 DEF WaitFits
<1>5. CASE ServeRead(q)  BY <1>4, <1>5 DEF ServeRead
<1>6. CASE ServeMutation(q)
  <2>1. CASE history' = history
    <3>1. Refusal(q.element.name, q.input) # 200 \/ q.ifMatch # Len(history)
      <4>1. Len(history') = Len(history) /\ Len(history) \in Nat  BY <2>1, CurrentReview DEF TabInv
      <4>2. Len(Append(history, Successor(q.element.name, q.input))) = Len(history) + 1
        BY DEF TabInv, HistoryGrows
      <4> QED BY <1>6, <2>1, <4>1, <4>2 DEF ServeMutation
    <3>2. \E status : status # 200 /\ Answer(q, status, NoContent)
      BY <1>6, <3>1 DEF ServeMutation
    <3> QED BY <1>4, <3>2
  <2>2. CASE history' # history
    <3>1. /\ history' = Append(history, Successor(q.element.name, q.input))
          /\ \E content : Answer(q, 200, content)
          /\ Refusal(q.element.name, q.input) = 200 /\ q.element.name # "view"
      BY <1>6, <2>2 DEF ServeMutation
    <3>2. q.element.name = "create" => Kept(q.input.comment)'
      <4> SUFFICES ASSUME q.element.name = "create"  PROVE Kept(q.input.comment)'
        OBVIOUS
      <4> DEFINE n == Len(history) + 1
      <4>1. Len(history) \in Nat  BY CurrentReview DEF TabInv
      <4>2. n \notin DOMAIN Current  BY <4>1 DEF Numbered
      <4>3. PICK s : s = Successor(q.element.name, q.input)  OBVIOUS
      <4>4. n \in DOMAIN s /\ s[n].comment = q.input.comment
        BY <4>2, <4>3 DEF Successor, Created, Card
      <4>5. n \in 1..Len(history') /\ history'[n] = s
        BY <3>1, <4>1, <4>3 DEF TabInv, HistoryGrows
      <4>6. \E id \in DOMAIN history'[n] : history'[n][id].comment = q.input.comment
        BY <4>4, <4>5
      <4> QED BY <4>5, <4>6 DEF Kept
    <3> QED BY <1>4, <3>1, <3>2
  <2> QED BY <2>1, <2>2
<1>7. CASE ServeFails(q)  BY <1>4, <1>7 DEF ServeFails
<1>8. CASE RenderFeedback(q)
  <2>1. PICK status \in {409, 422} : status = q.answer.status  BY <1>8 DEF RenderFeedback
  <2>2. PICK content : content = Content(FALSE)  OBVIOUS
  <2>3. Answer(q, status, content)  BY <1>8, <2>1, <2>2 DEF RenderFeedback
  <2> QED BY <1>4, <2>1, <2>3
<1> QED BY <1>5, <1>6, <1>7, <1>8 DEF Server

\* The only request's answer takes its place by the only refresh.
LEMMA WaitReceive ==
    ASSUME TabInv, TabInv', WaitFits, NEW q \in requests, Receive(q)
    PROVE  WaitFits'
<1> SUFFICES ASSUME waited'  PROVE WaitFits'  BY DEF WaitFits
<1>1. UNCHANGED <<worldVars, pageVars, known, form, searching, sent, waited, missed>>  BY DEF Receive
<1>2. waited /\ requests = {q} /\ refreshes = {} /\ requests' = {}
  BY <1>1 DEF WaitFits, Receive
<1>3. CASE AfterSwap(q) /\ marks.method = "post"
  <2> DEFINE new == [number |-> q.number, kind |-> marks.kind,
                     successful |-> q.answer.status = 200, revision |-> 0]
  <2>1. refreshes' = {new}  BY <1>2, <1>3 DEF Receive, Refreshes
  <2>2. new.revision = 0 /\ new.kind = marks.kind /\ (new.successful <=> q.answer.status = 200)
    OBVIOUS
  <2>3. q.answer # NoAnswer  BY <1>3 DEF AfterSwap, HasContent
  <2> HIDE DEF new
  <2>4. new.kind = "create" /\ new.successful => Kept(form.comment)
    BY <1>2, <2>2, <2>3 DEF WaitFits
  <2>5. Kept(form.comment) => Kept(form.comment)'  BY <1>1 DEF Kept, worldVars
  <2> QED BY <1>1, <1>2, <2>1, <2>2, <2>4, <2>5 DEF WaitFits
<1>4. CASE ~(AfterSwap(q) /\ marks.method = "post")
  <2>1. refreshes' = {}  BY <1>2, <1>4 DEF Receive, Refreshes
  <2>2. shown' = shown \/ shown'.by # "post"
    <3>1. CASE q.element.name = "view"
      <4>1. Verb(q) = "get"  BY <3>1 DEF Verb
      <4> QED BY <4>1 DEF Receive, Fragment
    <3>2. CASE q.element.name # "view"
      <4>1. marks.method = "post"  BY <1>2, <3>2 DEF WaitFits
      <4> QED BY <1>4, <4>1 DEF Receive, Swapped, AfterSwap
    <3> QED BY <3>1, <3>2
  <2> QED BY <1>1, <1>2, <2>1, <2>2 DEF WaitFits
<1> QED BY <1>3, <1>4

\* The only viewer state under way is no older than the panel it follows.
LEMMA WaitState ==
    ASSUME TabInv, TabInv', WaitFits, NEW f \in refreshes, FetchState(f) \/ DeliverState(f) \/ LoseState(f)
    PROVE  WaitFits'
<1> SUFFICES ASSUME waited'  PROVE WaitFits'  BY DEF WaitFits
<1>1. UNCHANGED <<worldVars, shown, marks, requests, waited>>
  BY DEF FetchState, DeliverState, LoseState
<1>2. waited /\ requests = {} /\ refreshes = {f}  BY <1>1 DEF WaitFits
<1>3. shown.content.revision \in Nat /\ shown.content.revision <= Len(history)
  BY DEF TabInv, TypeOK, Contents, Revisions
<1>4. Kept(form.comment) => Kept(form.comment)' \/ form'.comment # form.comment
  BY <1>1 DEF Kept, worldVars
<1>5. CASE FetchState(f)
  <2>1. PICK new : new = [f EXCEPT !.revision = Len(history)]  OBVIOUS
  <2>2. f \in [number: 1..MaxRequests, kind: {"none", "create", "reattach", "other"},
               successful: BOOLEAN, revision: 0..MaxRevision]
    BY DEF TabInv, TypeOK
  <2>3. refreshes' = {new} /\ new.revision = Len(history) /\ new.kind = f.kind /\ new.successful = f.successful
    BY <1>2, <1>5, <2>1, <2>2 DEF FetchState
  <2>4. form' = form  BY <1>5 DEF FetchState
  <2> QED BY <1>1, <1>2, <1>3, <1>4, <2>3, <2>4 DEF WaitFits
<1>6. CASE DeliverState(f)
  <2>1. refreshes' = {} /\ known' = f.revision /\ f.revision # 0  BY <1>2, <1>6 DEF DeliverState
  <2> QED BY <1>1, <1>2, <2>1 DEF WaitFits
<1>7. CASE LoseState(f)
  <2>1. refreshes' = {} /\ missed' = TRUE  BY <1>2, <1>7 DEF LoseState
  <2> QED BY <1>1, <1>2, <2>1 DEF WaitFits
<1> QED BY <1>5, <1>6, <1>7

LEMMA WaitInit == Init => WaitFits
  BY DEF Init, WaitFits, Fragment, NoMarks

LEMMA WaitNext == TabInv /\ TabInv' /\ Numbered /\ WaitFits /\ [Next]_vars => WaitFits'
<1> SUFFICES ASSUME TabInv, TabInv', Numbered, WaitFits, [Next]_vars  PROVE WaitFits'  OBVIOUS
<1>1. HistoryKept  BY NextKeepsHistory
<1>2. form'.comment = form.comment /\ Kept(form.comment) => Kept(form.comment)'
  BY <1>1, KeptStays
<1>3. ASSUME UNCHANGED <<shown, known, form, marks, refreshes, searching, waited, missed>>,
             requests' \subseteq requests
      PROVE  WaitFits'
  BY <1>2, <1>3 DEF WaitFits
<1>4. CASE UNCHANGED vars  BY <1>3, <1>4 DEF vars
<1>5. CASE Open
  <2>1. requests = {} /\ refreshes' = refreshes /\ requests' = requests /\ UNCHANGED <<form, marks, waited, missed>>
    BY <1>5 DEF Open, RenderDocument, RenderPanel, LoadSource, LoadAnnotations, controlVars, TabInv, TabFits
  <2>2. shown'.by # "post" \/ (shown' = shown /\ (known' = known \/ known' = Len(history)))
    <3>1. CASE RenderPanel
      <4>1. shown' = Fragment(0, "page", Content(FALSE))  BY <3>1 DEF RenderPanel
      <4>2. shown'.by = "page"  BY <4>1 DEF Fragment
      <4> QED BY <4>2
    <3>2. CASE RenderDocument \/ LoadSource \/ LoadAnnotations
      BY <3>2 DEF RenderDocument, LoadSource, LoadAnnotations
    <3> QED BY <1>5, <3>1, <3>2 DEF Open
  <2>3. shown.content.revision <= Len(history)  BY DEF TabInv, TypeOK
  <2> QED BY <1>2, <2>1, <2>2, <2>3 DEF WaitFits
<1>6. CASE Reviewer  BY <1>6, WaitReviewer
<1>7. CASE \E q \in requests : Server(q) \/ Receive(q) \/ Lose(q)
  <2>1. PICK q \in requests : Server(q) \/ Receive(q) \/ Lose(q)  BY <1>7
  <2>2. CASE Lose(q)  BY <1>3, <2>2 DEF Lose
  <2> QED BY <1>1, <2>1, <2>2, WaitServer, WaitReceive
<1>8. CASE \E f \in refreshes : FetchState(f) \/ DeliverState(f) \/ LoseState(f)
  BY <1>8, WaitState
<1>9. CASE (\E d \in Documents : EditDocument(d)) \/ OtherSaves
  BY <1>3, <1>9 DEF EditDocument, OtherSaves, controlVars
<1>10. CASE SearchGoesOut
  <2>1. /\ UNCHANGED <<shown, known, form, requests, refreshes, waited, missed>> /\ searching
        /\ marks'.kind = "none"
    BY <1>10 DEF SearchGoesOut
  <2>2. waited => requests' = {}  BY <2>1 DEF WaitFits
  <2> QED BY <1>2, <2>1, <2>2 DEF WaitFits
<1> QED BY <1>4, <1>5, <1>6, <1>7, <1>8, <1>9, <1>10 DEF Next

LEMMA WaitAlways == Spec => [](TabInv /\ Numbered /\ WaitFits)
<1>1. Init => TabInv /\ Numbered /\ WaitFits  BY TabInit, NumberedInit, WaitInit
<1>2. TabInv /\ Numbered /\ WaitFits /\ [Next]_vars => (TabInv /\ Numbered /\ WaitFits)'
  BY TabNext, NumberedNext, WaitNext
<1> QED BY <1>1, <1>2, PTL DEF Spec

\* After a mutation's answer, a refusal's included, the tab of a reviewer who waits, for
\* the document panel's requests too, sends the revision of the panel on screen or a
\* newer one.
THEOREM RetryIsCurrent == Spec => []RetryCarriesPanelRevision
<1>1. WaitFits => RetryCarriesPanelRevision  BY DEF WaitFits, RetryCarriesPanelRevision, NothingUnderWay
<1> QED BY <1>1, WaitAlways, PTL

\* A reviewer who waits loses a comment from the form only to the sidecar.
THEOREM DraftIsKept == Spec => WaitingKeepsDraft
<1> DEFINE Keeps ==
      /\ waited
      /\ form.comment # NoComment /\ form'.comment = NoComment
      => \E i \in 1..Len(history) : \E id \in DOMAIN history[i] :
            history[i][id].comment = form.comment
<1>1. TabInv /\ WaitFits /\ [Next]_vars => [Keeps]_vars
  <2> SUFFICES ASSUME TabInv, WaitFits, Next, waited, form.comment # NoComment, form'.comment = NoComment
               PROVE  Kept(form.comment)
    BY DEF Kept
  <2>1. form \in [comment: 0..MaxComments, selection: Selections \union {NoSelection}, showInactive: BOOLEAN]
    BY DEF TabInv, TypeOK
  <2>2. ASSUME form' = form  PROVE FALSE  BY <2>2
  <2>3. CASE Open
    BY <2>2, <2>3 DEF Open, RenderDocument, RenderPanel, LoadSource, LoadAnnotations, controlVars
  <2>4. CASE Reviewer
    <3>1. ~\E r \in Ranges : Select(r)  BY <2>1 DEF Select
    <3>2. ~\E n \in 1..MaxComments : Type(n)  BY <2>1 DEF Type, NoComment
    <3>3. ~SubmitCreate /\ \A id \in ShownCards : ~(SubmitReply(id) \/ SubmitMove(id) \/ SubmitReattach(id))
      BY <2>2 DEF SubmitCreate, SubmitReply, SubmitMove, SubmitReattach
    <3>4. ~ToggleInactive  BY <2>1 DEF ToggleInactive
    <3>5. ~SearchDocuments  BY <2>2 DEF SearchDocuments
    <3> QED BY <2>4, <3>1, <3>2, <3>3, <3>4, <3>5 DEF Reviewer
  <2>5. CASE \E q \in requests : Server(q) \/ Receive(q) \/ Lose(q)
    BY <2>2, <2>5 DEF Server, Receive, Lose
  <2>6. CASE \E f \in refreshes : FetchState(f) \/ DeliverState(f) \/ LoseState(f)
    <3>1. PICK f \in refreshes : FetchState(f) \/ DeliverState(f) \/ LoseState(f)  BY <2>6
    <3>2. DeliverState(f)  BY <2>2, <3>1 DEF FetchState, LoseState
    <3>3. f.successful /\ f.kind = "create"
      <4>1. form' = FormAfter(f)  BY <3>2 DEF DeliverState
      <4> QED BY <2>2, <4>1 DEF FormAfter
    <3> QED BY <3>3 DEF WaitFits
  <2>7. CASE (\E d \in Documents : EditDocument(d)) \/ OtherSaves
    BY <2>2, <2>7 DEF EditDocument, OtherSaves, controlVars
  <2>8. CASE SearchGoesOut  BY <2>2, <2>8 DEF SearchGoesOut
  <2> QED BY <2>3, <2>4, <2>5, <2>6, <2>7, <2>8 DEF Next
<1> QED BY <1>1, WaitAlways, PTL DEF Spec, WaitingKeepsDraft

=============================================================================
