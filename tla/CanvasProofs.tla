---------------------------- MODULE CanvasProofs -----------------------------
(***************************************************************************)
(* The canvas of the page: its tabs and layers, and the pane of terminals, *)
(* for any bounds and any number of steps.                                 *)
(***************************************************************************)
EXTENDS CanvasTabs, CanvasTerminals, SequenceTheorems, FiniteSetTheorems, TLAPS

-----------------------------------------------------------------------------
(* Sequences without one element.                                          *)

LEMMA Removed ==
  ASSUME NEW S, NEW s \in Seq(S), NEW k \in 1 .. Len(s)
  PROVE  /\ RemoveAt(s, k) \in Seq(S) /\ Len(RemoveAt(s, k)) = Len(s) - 1
         /\ \A i \in 1 .. Len(s) - 1 : RemoveAt(s, k)[i] = IF i < k THEN s[i] ELSE s[i + 1]
<1> DEFINE a == SubSeq(s, 1, k - 1)  b == SubSeq(s, k + 1, Len(s))
<1>0. Len(s) \in Nat /\ k \in Nat /\ \A i \in 1 .. Len(s) : s[i] \in S
  BY LenProperties, ElementOfSeq
<1>1. /\ a \in Seq(S) /\ Len(a) = k - 1 /\ \A i \in 1 .. k - 1 : a[i] = s[i]
  <2>1. \A i \in 1 .. k - 1 : s[i] \in S
    BY <1>0
  <2>2. /\ a \in Seq(S) /\ Len(a) = IF 1 <= k - 1 THEN k - 1 - 1 + 1 ELSE 0
        /\ \A i \in 1 .. k - 1 - 1 + 1 : a[i] = s[1 + i - 1]
    BY <1>0, <2>1, SubSeqProperties
  <2> HIDE DEF a
  <2>3. \A i \in 1 .. k - 1 : a[i] = s[i]
    BY <1>0, <2>2
  <2>4. QED BY <1>0, <2>2, <2>3
<1>2. /\ b \in Seq(S) /\ Len(b) = Len(s) - k /\ \A i \in 1 .. Len(s) - k : b[i] = s[k + i]
  <2>1. \A i \in k + 1 .. Len(s) : s[i] \in S
    BY <1>0
  <2>2. /\ b \in Seq(S) /\ Len(b) = IF k + 1 <= Len(s) THEN Len(s) - (k + 1) + 1 ELSE 0
        /\ \A i \in 1 .. Len(s) - (k + 1) + 1 : b[i] = s[k + 1 + i - 1]
    BY <1>0, <2>1, SubSeqProperties
  <2> HIDE DEF b
  <2>3. \A i \in 1 .. Len(s) - k : b[i] = s[k + i]
    BY <1>0, <2>2
  <2>4. QED BY <1>0, <2>2, <2>3
<1>3. RemoveAt(s, k) = a \o b
  BY DEF RemoveAt
<1> HIDE DEF a, b
<1>4. /\ a \o b \in Seq(S) /\ Len(a \o b) = Len(s) - 1
      /\ \A i \in 1 .. Len(s) - 1 : (a \o b)[i] = IF i <= k - 1 THEN a[i] ELSE b[i - (k - 1)]
  BY <1>0, <1>1, <1>2, ConcatProperties
<1>5. ASSUME NEW i \in 1 .. Len(s) - 1
      PROVE  (a \o b)[i] = IF i < k THEN s[i] ELSE s[i + 1]
  <2>1. CASE i < k
    BY <1>0, <1>1, <1>4, <2>1
  <2>2. CASE ~(i < k)
    <3>1. i - (k - 1) \in 1 .. Len(s) - k /\ k + (i - (k - 1)) = i + 1 /\ ~(i <= k - 1)
      BY <1>0, <2>2
    <3>2. QED BY <1>2, <1>4, <2>2, <3>1
  <2>3. QED BY <2>1, <2>2
<1>6. QED BY <1>3, <1>4, <1>5

-----------------------------------------------------------------------------
(* The tabs of the canvas.                                                 *)

Frames == {"none", "asked", "other", "rests"}
Websites == [url : Addresses, loadedUrl : Addresses, loading : BOOLEAN, showPrompt : BOOLEAN,
             frame : Frames, again : BOOLEAN]
AnyTab == [id : Nat, type : {"topology", "website", "terminal"}, web : Websites]

\* A website that has no frame yet was not sent anywhere.
Turns(w) ==
  /\ w.frame = "none" => ~w.loadedUrl.scheme
  /\ w.frame = "asked" => w.loading
  /\ w.loading /\ ~w.again => w.frame \in {"asked", "other"}

TabTypes ==
  /\ canvasTabs \in Seq(AnyTab) /\ canvasTabs # <<>>
  /\ tabCounter \in Nat /\ activeTab \in Nat /\ activeTab <= tabCounter
  /\ abandoned \in BOOLEAN

\* No two tabs have an id, and the active one is one of theirs, unless it was
\* abandoned: an id given later is another.
TabsApart ==
  /\ \A i \in DOMAIN canvasTabs : canvasTabs[i].id <= tabCounter
  /\ \A i, j \in DOMAIN canvasTabs : canvasTabs[i].id = canvasTabs[j].id => i = j

FrontTab == abandoned <=> activeTab \notin OpenIds
AllTurn == \A i \in DOMAIN canvasTabs : Turns(canvasTabs[i].web)

CanvasInv == TabTypes /\ TabsApart /\ FrontTab /\ AllTurn

LEMMA FirstSite == NewSite \in Websites /\ Turns(NewSite)
  BY DEF NewSite, Websites, Frames, Addresses, NoAddress, Turns

\* Where the tab with an id is.
LEMMA TabFound ==
  ASSUME CanvasInv, NEW id \in OpenIds
  PROVE  At(id) \in 1 .. Len(canvasTabs) /\ canvasTabs[At(id)].id = id
<1>0. canvasTabs \in Seq(AnyTab) /\ Len(canvasTabs) \in Nat /\ DOMAIN canvasTabs = 1 .. Len(canvasTabs)
  BY LenProperties DEF CanvasInv, TabTypes
<1>1. PICK k \in 1 .. Len(canvasTabs) : canvasTabs[k].id = id
  BY <1>0 DEF OpenIds
<1> DEFINE I == {i \in 1 .. Len(canvasTabs) : canvasTabs[i].id = id}
<1>2. I = {k}
  BY <1>0, <1>1 DEF CanvasInv, TabsApart
<1>3. At(id) = IF I # {} THEN Min(I) ELSE 0
  BY DEF At, SelectInSeq
<1>4. Min({k}) = k
  BY <1>0, <1>1 DEF Min
<1>5. QED BY <1>1, <1>2, <1>3, <1>4

\* What is said of the tabs holds when only a website changes.
LEMMA WebChanges ==
  ASSUME CanvasInv, NEW k \in 1 .. Len(canvasTabs), NEW w \in Websites, Turns(w),
         canvasTabs' = [canvasTabs EXCEPT ![k].web = w],
         UNCHANGED <<activeTab, tabCounter, abandoned>>
  PROVE  CanvasInv'
<1>0. /\ canvasTabs \in Seq(AnyTab) /\ Len(canvasTabs) \in Nat
      /\ DOMAIN canvasTabs = 1 .. Len(canvasTabs) /\ canvasTabs[k] \in AnyTab
  BY LenProperties, ElementOfSeq DEF CanvasInv, TabTypes
<1> DEFINE x == [canvasTabs[k] EXCEPT !.web = w]
<1>1. canvasTabs' = [canvasTabs EXCEPT ![k] = x]
  OBVIOUS
<1>2. x \in AnyTab /\ x.id = canvasTabs[k].id /\ x.web = w
  BY <1>0 DEF AnyTab
<1> HIDE DEF x
<1>3. /\ canvasTabs' \in Seq(AnyTab) /\ Len(canvasTabs') = Len(canvasTabs)
      /\ \A j \in 1 .. Len(canvasTabs) : canvasTabs'[j] = IF j = k THEN x ELSE canvasTabs[j]
  BY <1>0, <1>1, <1>2, ExceptSeq
<1>4. DOMAIN canvasTabs' = 1 .. Len(canvasTabs)
  BY <1>3, LenProperties
<1>5. \A j \in 1 .. Len(canvasTabs) : canvasTabs'[j].id = canvasTabs[j].id
  BY <1>2, <1>3
<1>6. TabTypes'
  <2>1. canvasTabs' # <<>>
    BY <1>0, <1>3, EmptySeq DEF CanvasInv, TabTypes
  <2>2. QED BY <1>3, <2>1 DEF CanvasInv, TabTypes
<1>7. TabsApart'
  BY <1>0, <1>4, <1>5 DEF CanvasInv, TabsApart
<1>8. FrontTab'
  BY <1>0, <1>4, <1>5 DEF CanvasInv, FrontTab, OpenIds
<1>9. AllTurn'
  BY <1>0, <1>2, <1>3, <1>4 DEF CanvasInv, AllTurn
<1>10. QED BY <1>6, <1>7, <1>8, <1>9 DEF CanvasInv

\* The website in front is one of the tabs.
LEMMA WebInFront ==
  ASSUME CanvasInv, InFront
  PROVE  /\ At(activeTab) \in 1 .. Len(canvasTabs) /\ Web \in Websites /\ Turns(Web)
<1>0. DOMAIN canvasTabs = 1 .. Len(canvasTabs) /\ canvasTabs \in Seq(AnyTab)
  BY LenProperties DEF CanvasInv, TabTypes
<1>1. At(activeTab) \in 1 .. Len(canvasTabs)
  BY TabFound DEF InFront
<1>2. canvasTabs[At(activeTab)] \in AnyTab
  BY <1>0, <1>1, ElementOfSeq
<1>3. QED BY <1>0, <1>1, <1>2 DEF AnyTab, Web, CanvasInv, AllTurn

LEMMA UrlTyped ==
  ASSUME CanvasInv, NEW a \in Addresses, TypeUrl(a)
  PROVE  CanvasInv'
<1> DEFINE w == [Web EXCEPT !.url = a]
<1>1. At(activeTab) \in 1 .. Len(canvasTabs) /\ Web \in Websites /\ Turns(Web)
  BY WebInFront DEF TypeUrl
<1>2. w \in Websites /\ Turns(w)
  BY <1>1 DEF Websites, Turns
<1>3. /\ canvasTabs' = [canvasTabs EXCEPT ![At(activeTab)].web = w]
      /\ UNCHANGED <<activeTab, tabCounter, abandoned>>
  BY DEF TypeUrl, SetWeb
<1>4. QED BY <1>1, <1>2, <1>3, WebChanges

LEMMA Unchanged ==
  ASSUME CanvasInv, UNCHANGED <<canvasTabs, activeTab, tabCounter, abandoned>>
  PROVE  CanvasInv'
  BY DEF CanvasInv, TabTypes, TabsApart, FrontTab, AllTurn, OpenIds

LEMMA Navigated ==
  ASSUME CanvasInv, NEW a \in Addresses, Navigate(a)
  PROVE  CanvasInv'
<1>1. At(activeTab) \in 1 .. Len(canvasTabs) /\ Web \in Websites /\ Turns(Web)
  BY WebInFront DEF Navigate
<1>2. CASE a = NoAddress
  BY <1>2, Unchanged DEF Navigate
<1>3. CASE a # NoAddress
  <2> DEFINE n == Normalized(a)  same == Web.loadedUrl = n
             w == [url |-> n, loadedUrl |-> n, loading |-> TRUE, showPrompt |-> FALSE,
                   frame |-> IF same THEN Web.frame ELSE "asked",
                   again |-> same /\ Web.frame = "rests"]
  <2>1. n \in Addresses /\ n.scheme
    BY <1>3 DEF Addresses, Normalized
  <2> HIDE DEF n
  <2>2. w \in Websites
    BY <1>1, <2>1 DEF Websites, Frames
  <2>3. same => Web.frame # "none"
    BY <1>1, <2>1 DEF Turns
  <2>4. Turns(w)
    BY <1>1, <2>1, <2>3 DEF Turns, Websites, Frames
  <2>5. /\ canvasTabs' = [canvasTabs EXCEPT ![At(activeTab)].web = w]
        /\ UNCHANGED <<activeTab, tabCounter, abandoned>>
    BY <1>3 DEF Navigate, n
  <2> HIDE DEF w
  <2>6. QED BY <1>1, <2>2, <2>4, <2>5, WebChanges
<1>4. QED BY <1>2, <1>3

LEMMA LinkFollowed ==
  ASSUME CanvasInv, FollowLink
  PROVE  CanvasInv'
<1> DEFINE w == [Web EXCEPT !.frame = "other"]
<1>1. At(activeTab) \in 1 .. Len(canvasTabs) /\ Web \in Websites /\ Turns(Web)
  BY WebInFront DEF FollowLink
<1>2. w \in Websites /\ Turns(w)
  BY <1>1 DEF Websites, Turns, Frames
<1>3. /\ canvasTabs' = [canvasTabs EXCEPT ![At(activeTab)].web = w]
      /\ UNCHANGED <<activeTab, tabCounter, abandoned>>
  <2>1. canvasTabs' = [canvasTabs EXCEPT ![At(activeTab)].web.frame = "other"]
    BY DEF FollowLink
  <2>2. QED BY <2>1 DEF FollowLink, Web
<1>4. QED BY <1>1, <1>2, <1>3, WebChanges

LEMMA FrameLoaded ==
  ASSUME CanvasInv, NEW i, OnLoad(i)
  PROVE  CanvasInv'
<1> DEFINE v == canvasTabs[i].web
           w == [v EXCEPT !.loading = FALSE, !.frame = "rests", !.again = FALSE]
<1>0. DOMAIN canvasTabs = 1 .. Len(canvasTabs) /\ canvasTabs \in Seq(AnyTab)
  BY LenProperties DEF CanvasInv, TabTypes
<1>1. i \in 1 .. Len(canvasTabs)
  BY <1>0 DEF OnLoad
<1>2. v \in Websites
  <2>1. canvasTabs[i] \in AnyTab
    BY <1>0, <1>1, ElementOfSeq
  <2>2. QED BY <2>1 DEF AnyTab
<1>3. w \in Websites /\ Turns(w)
  BY <1>2 DEF Websites, Turns, Frames
<1>4. /\ canvasTabs' = [canvasTabs EXCEPT ![i].web = w]
      /\ UNCHANGED <<activeTab, tabCounter, abandoned>>
  BY DEF OnLoad
<1>5. QED BY <1>1, <1>3, <1>4, WebChanges

\* A tab is added, with an id no tab has, and comes in front.
LEMMA TabAdded ==
  ASSUME CanvasInv, NEW type \in {"website", "terminal"}, AddTab(type)
  PROVE  CanvasInv'
<1> DEFINE x == Tab(tabCounter + 1, type)  n == Len(canvasTabs)
<1>0. /\ canvasTabs \in Seq(AnyTab) /\ Len(canvasTabs) \in Nat
      /\ DOMAIN canvasTabs = 1 .. Len(canvasTabs) /\ tabCounter \in Nat
  BY LenProperties DEF CanvasInv, TabTypes
<1>1. x \in AnyTab /\ x.id = tabCounter + 1 /\ x.web = NewSite
  BY <1>0, FirstSite DEF Tab, AnyTab
<1>2. /\ canvasTabs' = Append(canvasTabs, x) /\ tabCounter' = tabCounter + 1
      /\ activeTab' = tabCounter + 1 /\ abandoned' = FALSE
  BY DEF AddTab
<1> HIDE DEF x
<1>3. /\ canvasTabs' \in Seq(AnyTab) /\ Len(canvasTabs') = n + 1
      /\ \A j \in 1 .. n : canvasTabs'[j] = canvasTabs[j]
      /\ canvasTabs'[n + 1] = x
  BY <1>0, <1>1, <1>2, AppendProperties
<1>4. DOMAIN canvasTabs' = 1 .. n + 1 /\ canvasTabs' # <<>>
  BY <1>0, <1>3, LenProperties, EmptySeq
<1>5. TabTypes'
  <2>1. tabCounter' \in Nat /\ activeTab' \in Nat /\ activeTab' <= tabCounter' /\ abandoned' \in BOOLEAN
    <3>1. tabCounter \in Nat
      BY <1>0
    <3>2. tabCounter' = tabCounter + 1 /\ activeTab' = tabCounter + 1 /\ abandoned' = FALSE
      BY <1>2
    <3>3. abandoned' \in BOOLEAN
      BY <3>2
    <3>4. tabCounter' \in Nat /\ activeTab' \in Nat /\ activeTab' <= tabCounter'
      BY <3>1, <3>2
    <3>5. QED BY <3>3, <3>4
  <2>2. QED BY <1>3, <1>4, <2>1 DEF TabTypes
<1>6. \A j \in 1 .. n : canvasTabs[j].id <= tabCounter /\ canvasTabs[j].id \in Nat
  <2>1. \A j \in 1 .. n : canvasTabs[j] \in AnyTab
    BY <1>0, ElementOfSeq
  <2>2. QED BY <1>0, <2>1 DEF CanvasInv, TabsApart, AnyTab
<1>7. TabsApart'
  <2>1. \A j \in 1 .. n : canvasTabs'[j].id <= tabCounter /\ canvasTabs'[j].id # tabCounter + 1
                          /\ canvasTabs'[j].id <= tabCounter + 1
    BY <1>0, <1>3, <1>6
  <2>2. \A i, j \in 1 .. n : canvasTabs'[i].id = canvasTabs'[j].id => i = j
    BY <1>0, <1>3 DEF CanvasInv, TabsApart
  <2>3. QED BY <1>0, <1>1, <1>2, <1>3, <1>4, <2>1, <2>2 DEF TabsApart
<1>8. FrontTab'
  BY <1>0, <1>1, <1>2, <1>3, <1>4 DEF FrontTab, OpenIds
<1>9. AllTurn'
  BY <1>0, <1>1, <1>3, <1>4, FirstSite DEF CanvasInv, AllTurn
<1>10. QED BY <1>5, <1>7, <1>8, <1>9 DEF CanvasInv

\* A tab is closed: the front is lost only with the leftmost one.
LEMMA TabClosed ==
  ASSUME CanvasInv, NEW id \in OpenIds, CloseTab(id)
  PROVE  CanvasInv'
<1> DEFINE n == Len(canvasTabs)  k == At(id)
<1>0. /\ canvasTabs \in Seq(AnyTab) /\ n \in Nat /\ n >= 1
      /\ DOMAIN canvasTabs = 1 .. n /\ tabCounter \in Nat /\ activeTab \in Nat
      /\ activeTab <= tabCounter /\ abandoned \in BOOLEAN
  BY LenProperties, EmptySeq DEF CanvasInv, TabTypes
<1>1. k \in 1 .. n /\ canvasTabs[k].id = id
  BY TabFound
<1>2. \A j \in 1 .. n : /\ canvasTabs[j].id <= tabCounter /\ canvasTabs[j].id \in Nat
                        /\ canvasTabs[j] \in AnyTab /\ Turns(canvasTabs[j].web)
  <2>1. \A j \in 1 .. n : canvasTabs[j] \in AnyTab
    BY <1>0, ElementOfSeq
  <2>2. QED BY <1>0, <2>1 DEF CanvasInv, TabsApart, AllTurn, AnyTab
<1>3. \A i, j \in 1 .. n : canvasTabs[i].id = canvasTabs[j].id => i = j
  BY <1>0 DEF CanvasInv, TabsApart
<1>4. abandoned <=> \A j \in 1 .. n : canvasTabs[j].id # activeTab
  BY <1>0 DEF CanvasInv, FrontTab, OpenIds
<1>5. abandoned' = (abandoned \/ (activeTab = id /\ k = 1))
  BY DEF CloseTab
<1>6. /\ activeTab # id => activeTab' = activeTab
      /\ activeTab = id /\ k = 1 => activeTab' = canvasTabs[1].id
      /\ activeTab = id /\ k > 1 => activeTab' = canvasTabs[k - 1].id
  <2>1. Max({1, k - 1}) = IF k = 1 THEN 1 ELSE k - 1
    <3>1. CASE k = 1
      <4>1. \A y \in {1, k - 1} : 1 >= y /\ (y >= 1 => y = 1)  BY <3>1
      <4>2. QED BY <3>1, <4>1 DEF Max
    <3>2. CASE k > 1
      <4>1. \A y \in {1, k - 1} : k - 1 >= y  BY <1>0, <1>1, <3>2
      <4>2. \A x \in {1, k - 1} : (\A y \in {1, k - 1} : x >= y) => x = k - 1
        BY <1>0, <1>1, <3>2
      <4>3. QED BY <3>2, <4>1, <4>2 DEF Max
    <3>3. QED BY <1>0, <1>1, <3>1, <3>2
  <2>2. activeTab' = IF activeTab = id THEN canvasTabs[Max({1, k - 1})].id ELSE activeTab
    BY DEF CloseTab
  <2>3. QED BY <1>0, <1>1, <2>1, <2>2
<1>7. CASE n > 1
  <2>1. canvasTabs' = RemoveAt(canvasTabs, k) /\ tabCounter' = tabCounter
    BY <1>7 DEF CloseTab, WithoutTab
  <2>2. /\ canvasTabs' \in Seq(AnyTab) /\ Len(canvasTabs') = n - 1
        /\ \A j \in 1 .. n - 1 : canvasTabs'[j] = IF j < k THEN canvasTabs[j] ELSE canvasTabs[j + 1]
    BY <1>0, <1>1, <2>1, Removed
  <2>3. DOMAIN canvasTabs' = 1 .. n - 1 /\ canvasTabs' # <<>>
    BY <1>0, <1>7, <2>2, LenProperties, EmptySeq
  <2>4. ASSUME NEW j \in 1 .. n - 1
        PROVE  \E i \in 1 .. n : i # k /\ canvasTabs'[j] = canvasTabs[i]
    BY <1>0, <1>1, <2>2
  <2>5. ASSUME NEW i \in 1 .. n, i # k
        PROVE  \E j \in 1 .. n - 1 : canvasTabs'[j] = canvasTabs[i]
    <3>1. CASE i < k
      BY <1>0, <1>1, <2>2, <3>1
    <3>2. CASE i > k
      <4>1. i - 1 \in 1 .. n - 1 /\ ~(i - 1 < k) /\ i - 1 + 1 = i
        BY <1>0, <1>1, <3>2
      <4>2. QED BY <2>2, <4>1
    <3>3. QED BY <1>0, <1>1, <2>5, <3>1, <3>2
  <2>6. activeTab' \in Nat /\ activeTab' <= tabCounter
    BY <1>0, <1>1, <1>2, <1>6
  <2>7. TabTypes'
    BY <1>0, <1>5, <2>1, <2>2, <2>3, <2>6 DEF TabTypes
  <2>8. TabsApart'
    <3>1. \A j \in 1 .. n - 1 : canvasTabs'[j].id <= tabCounter
      BY <1>2, <2>4
    <3>2. ASSUME NEW i \in 1 .. n - 1, NEW j \in 1 .. n - 1, canvasTabs'[i].id = canvasTabs'[j].id
          PROVE  i = j
      <4> DEFINE f(m) == IF m < k THEN m ELSE m + 1
      <4>1. f(i) \in 1 .. n /\ f(j) \in 1 .. n
        BY <1>0, <1>1
      <4>2. canvasTabs'[i] = canvasTabs[f(i)] /\ canvasTabs'[j] = canvasTabs[f(j)]
        BY <2>2
      <4>3. f(i) = f(j)
        BY <1>3, <3>2, <4>1, <4>2
      <4>4. QED BY <1>0, <1>1, <4>3
    <3>3. QED BY <2>1, <2>3, <3>1, <3>2 DEF TabsApart
  <2>9. FrontTab'
    <3>1. (abandoned)' <=> \A j \in 1 .. n - 1 : canvasTabs'[j].id # activeTab'
      <4>1. CASE activeTab # id
        <5>1. abandoned' = abandoned /\ activeTab' = activeTab
          BY <1>0, <1>5, <1>6, <4>1
        <5>2. QED BY <1>1, <1>4, <2>4, <2>5, <4>1, <5>1
      <4>2. CASE activeTab = id /\ k = 1
        <5>1. abandoned' /\ activeTab' = id
          BY <1>0, <1>1, <1>5, <1>6, <4>2
        <5>2. QED BY <1>1, <1>3, <2>4, <5>1
      <4>3. CASE activeTab = id /\ k > 1
        <5>1. ~abandoned
          BY <1>1, <1>4, <4>3
        <5>2. /\ ~abandoned' /\ activeTab' = canvasTabs[k - 1].id
              /\ k - 1 \in 1 .. n /\ k - 1 # k
          BY <1>0, <1>1, <1>5, <1>6, <4>3, <5>1
        <5>3. QED BY <2>5, <5>2
      <4>4. QED BY <1>0, <1>1, <4>1, <4>2, <4>3
    <3>2. QED BY <2>3, <3>1 DEF FrontTab, OpenIds
  <2>10. AllTurn'
    BY <1>2, <2>3, <2>4 DEF AllTurn
  <2>11. QED BY <2>7, <2>8, <2>9, <2>10 DEF CanvasInv
<1>8. CASE n = 1
  <2> DEFINE x == Tab(tabCounter + 1, "topology")
  <2>1. canvasTabs' = <<x>> /\ tabCounter' = tabCounter + 1
    BY <1>8 DEF CloseTab
  <2>2. x \in AnyTab /\ x.id = tabCounter + 1 /\ Turns(x.web)
    BY <1>0, FirstSite DEF Tab, AnyTab
  <2> HIDE DEF x
  <2>3. /\ canvasTabs' \in Seq(AnyTab) /\ canvasTabs' # <<>> /\ DOMAIN canvasTabs' = {1}
        /\ canvasTabs'[1] = x
    BY <2>1, <2>2
  <2>4. activeTab' \in Nat /\ activeTab' <= tabCounter
    BY <1>0, <1>1, <1>2, <1>6
  <2>5. abandoned'
    <3>1. k = 1
      BY <1>1, <1>8
    <3>2. activeTab # id => abandoned
      BY <1>1, <1>4, <1>8, <3>1
    <3>3. QED BY <1>5, <3>1, <3>2
  <2>6. TabTypes'
    BY <1>0, <1>5, <2>1, <2>3, <2>4 DEF TabTypes
  <2>7. TabsApart'
    BY <1>0, <2>1, <2>2, <2>3 DEF TabsApart
  <2>8. FrontTab'
    BY <1>0, <2>2, <2>3, <2>4, <2>5 DEF FrontTab, OpenIds
  <2>9. AllTurn'
    BY <2>2, <2>3 DEF AllTurn
  <2>10. QED BY <2>6, <2>7, <2>8, <2>9 DEF CanvasInv
<1>9. QED BY <1>0, <1>7, <1>8

LEMMA CanvasInitInv == CanvasInit => CanvasInv
<1> SUFFICES ASSUME CanvasInit PROVE CanvasInv
  OBVIOUS
<1>1. Tab(0, "topology") \in AnyTab /\ Tab(0, "topology").id = 0 /\ Turns(Tab(0, "topology").web)
  BY FirstSite DEF Tab, AnyTab
<1>2. /\ canvasTabs \in Seq(AnyTab) /\ canvasTabs # <<>> /\ DOMAIN canvasTabs = {1}
      /\ canvasTabs[1] = Tab(0, "topology")
  BY <1>1 DEF CanvasInit
<1>3. TabTypes
  <2>1. tabCounter = 0 /\ activeTab = 0 /\ abandoned = FALSE
    BY DEF CanvasInit
  <2>2. abandoned \in BOOLEAN
    BY <2>1
  <2>3. tabCounter \in Nat /\ activeTab \in Nat /\ activeTab <= tabCounter
    BY <2>1
  <2>4. QED BY <1>2, <2>2, <2>3 DEF TabTypes
<1>4. TabsApart /\ FrontTab /\ AllTurn
  BY <1>1, <1>2 DEF CanvasInit, TabsApart, FrontTab, OpenIds, AllTurn
<1>5. QED BY <1>3, <1>4 DEF CanvasInv

LEMMA CanvasStepInv == CanvasInv /\ [CanvasNext]_panelVars => CanvasInv'
<1> SUFFICES ASSUME CanvasInv, [CanvasNext]_panelVars PROVE CanvasInv'
  OBVIOUS
<1>1. CASE UNCHANGED panelVars \/ ClickPlus \/ ClickElsewhere
  BY <1>1, Unchanged DEF panelVars, ClickPlus, ClickElsewhere
<1>2. ASSUME NEW id \in OpenIds, ClickTab(id) PROVE CanvasInv'
  <2>1. UNCHANGED <<canvasTabs, tabCounter>> /\ activeTab' = id /\ abandoned' = FALSE
    BY <1>2 DEF ClickTab
  <2>2. id \in Nat /\ id <= tabCounter
    <3>1. PICK k \in DOMAIN canvasTabs : canvasTabs[k].id = id
      BY DEF OpenIds
    <3>2. canvasTabs[k] \in AnyTab
      BY <3>1, LenProperties, ElementOfSeq DEF CanvasInv, TabTypes
    <3>3. QED BY <3>1, <3>2 DEF AnyTab, CanvasInv, TabsApart
  <2>3. QED BY <2>1, <2>2 DEF CanvasInv, TabTypes, TabsApart, FrontTab, AllTurn, OpenIds
<1>3. ASSUME NEW a \in Addresses, GoToPrompted(a) PROVE CanvasInv'
  BY <1>3, Navigated DEF GoToPrompted
<1>4. CASE GoToUrl
  <2>1. Web.url \in Addresses
    BY <1>4, WebInFront DEF GoToUrl, Websites
  <2>2. QED BY <1>4, <2>1, Navigated DEF GoToUrl
<1>5. QED
  BY <1>1, <1>2, <1>3, <1>4, TabAdded, TabClosed, UrlTyped, LinkFollowed, FrameLoaded
     DEF CanvasNext

LEMMA CanvasInvariant == CanvasSpec => []CanvasInv
  BY CanvasInitInv, CanvasStepInv, PTL DEF CanvasSpec

\* One tab's layer is in front, and none only when the leftmost tab was closed in
\* front, however tabs are added, chosen and closed.
THEOREM FrontLayer == CanvasSpec => []OneLayer
<1>1. CanvasInv => OneLayer
  <2> SUFFICES ASSUME CanvasInv PROVE OneLayer
    OBVIOUS
  <2>1. CASE abandoned
    <3>1. Layers = {}
      BY <2>1 DEF Layers, ToSet, CanvasInv, FrontTab, OpenIds
    <3>2. QED BY <2>1, <3>1, FS_EmptySet DEF OneLayer
  <2>2. CASE ~abandoned
    <3>1. PICK k \in DOMAIN canvasTabs : canvasTabs[k].id = activeTab
      BY <2>2 DEF CanvasInv, FrontTab, OpenIds
    <3>2. Layers = {canvasTabs[k]}
      BY <3>1 DEF Layers, ToSet, CanvasInv, TabsApart
    <3>3. QED BY <2>2, <3>2, FS_Singleton DEF OneLayer
  <2>3. QED BY <2>1, <2>2
<1>2. QED BY <1>1, CanvasInvariant, PTL

\* The reload button turns while the frame loads, and ends, for any websites.
THEOREM SpinnersEnd == CanvasSpec => []SpinnerEnds
<1>1. CanvasInv => SpinnerEnds
  BY DEF CanvasInv, AllTurn, Turns, SpinnerEnds, ToSet
<1>2. QED BY <1>1, CanvasInvariant, PTL

-----------------------------------------------------------------------------
(* The terminal pane.                                                      *)

Piece(t) == {t} \X Nat
Pieces == Terms \X Nat
SomeTerm == Terms \cup {NoTerminal}
PaneTabs == [id : Terms, status : {"active", "closed"}]
Reads == [id : Terms, got : Seq(Pieces)]
Closes == [id : Terms, activeId : SomeTerm, click : Nat, done : BOOLEAN]

ShellTypes ==
  /\ counter \in Nat /\ counter <= MaxTerms /\ (creating = Asked => counter < MaxTerms)
  /\ clicks \in Nat
  /\ open \subseteq Terms /\ printed \in [Terms -> Nat]
  /\ \A t \in Terms : buffer[t] \in Seq(Piece(t))
  /\ DOMAIN buffer = Terms
PaneTypes ==
  /\ tabs \in Seq(PaneTabs)
  /\ active \in SomeTerm /\ poller \in SomeTerm /\ creating \in SomeTerm \cup {Asked}
  /\ polls \in Seq(Reads) /\ \A i \in 1..Len(polls) : polls[i].got \in Seq(Piece(polls[i].id))
  /\ closing \subseteq Closes
  /\ listing.ids \in Seq(Terms)

\* Below its first piece the screen shows the session polled.
ScreenInv ==
  /\ screen \in Seq(Pieces)
  /\ "answeredLate" \notin lapses => \A i \in 1..Len(screen) : i > 1 => screen[i][1] = poller

\* A close knows the active tab; that tab is open.
CloseInv ==
  "closing" \notin lapses =>
    /\ \A c \in closing : c.activeId = active
    /\ active # NoTerminal => IsOpenTab(active)
Rest == mounts \in Nat

\* A tab drawn open has its session, or that was closed by others or is being closed.
Living == open \cup gone \cup {c.id : c \in closing}
LiveInv ==
  Mounted /\ "closing" \notin lapses /\ "listCrossed" \notin lapses =>
    /\ \A i \in DOMAIN tabs : tabs[i].status = "active" => tabs[i].id \in Living
    /\ \A c \in closing : c.id \in TabIds
    /\ creating \in Terms => creating \in Living \/ creating \in TabIds

\* A session that is not being made has a tab, or is in the list that was read, or
\* was made by others since.
TabInv ==
  "listCrossed" \notin lapses =>
    /\ \A i, j \in DOMAIN tabs : tabs[i].id = tabs[j].id => i = j
    /\ Mounted /\ listing.at # "asked" => open \ (unseen \cup {creating}) \subseteq TabIds \cup ToSet(listing.ids)
ListInv ==
  /\ \A i, j \in DOMAIN listing.ids : listing.ids[i] = listing.ids[j] => i = j
  /\ listing.at # "read" => listing.ids = <<>>

TermInv == ShellTypes /\ PaneTypes /\ ScreenInv /\ CloseInv /\ Rest /\ LiveInv /\ TabInv /\ ListInv

LEMMA TermRange ==
  /\ Terms \subseteq Nat \ {0} /\ NoTerminal \notin Terms /\ Asked \notin Terms
  /\ NoTerminal # Asked /\ IsFiniteSet(Terms) /\ 1 \in Terms
  /\ \A n \in Nat : n < MaxTerms => n + 1 \in Terms
<1>1. MaxTerms \in Nat \ {0}
  BY TerminalConstants
<1>2. IsFiniteSet(Terms)
  BY <1>1, FS_Interval DEF Terms
<1>3. QED BY <1>1, <1>2 DEF Terms, NoTerminal, Asked

LEMMA PieceTypes ==
  ASSUME NEW t \in Terms, NEW s \in Seq(Piece(t))
  PROVE  s \in Seq(Pieces) /\ \A i \in 1 .. Len(s) : s[i][1] = t
<1>1. Piece(t) \subseteq Pieces
  BY DEF Piece, Pieces
<1>2. s \in Seq(Pieces)
  BY <1>1, SeqMonotonic
<1>3. \A i \in 1 .. Len(s) : s[i] \in Piece(t)
  BY ElementOfSeq
<1>4. QED BY <1>2, <1>3 DEF Piece

\* The list answers with every open session, once.
LEMMA EveryOne ==
  ASSUME open \subseteq Terms, NEW ids \in SetToSeqs(open)
  PROVE  /\ ids \in Seq(Terms) /\ ToSet(ids) = open
         /\ \A i, j \in DOMAIN ids : ids[i] = ids[j] => i = j
<1> DEFINE n == Cardinality(open)
<1>1. IsFiniteSet(open) /\ n \in Nat
  BY TermRange, FS_Subset, FS_CardinalityType
<1>2. ids \in [1 .. n -> open] /\ \A i, j \in 1 .. n : ids[i] = ids[j] => i = j
  BY DEF SetToSeqs
<1>3. Cardinality(1 .. n) = n
  BY <1>1, FS_Interval
<1>4. ids \in Injection(1 .. n, open)
  BY <1>2 DEF Injection, IsInjective
<1>5. ids \in Surjection(1 .. n, open)
  BY <1>1, <1>3, <1>4, FS_Injection
<1>6. ToSet(ids) = open
  BY <1>2, <1>5 DEF ToSet, Surjection
<1>7. ids \in Seq(Terms)
  BY <1>1, <1>2
<1>8. QED BY <1>2, <1>6, <1>7

-----------------------------------------------------------------------------
(* The parts of the invariant that a step leaves alone.                    *)

LEMMA MountsAlternate == ASSUME mounts \in Nat, mounts' = mounts + 1 PROVE Mounted' <=> ~Mounted
  BY DEF Mounted

LEMMA CloseKept ==
  ASSUME TermInv, UNCHANGED <<tabs, active>>, closing' \subseteq closing,
         "closing" \in lapses' <=> "closing" \in lapses
  PROVE  CloseInv'
  BY DEF TermInv, CloseInv, IsOpenTab

LEMMA TabKept ==
  ASSUME TermInv, UNCHANGED <<tabs, mounts, listing>>,
         "listCrossed" \in lapses' <=> "listCrossed" \in lapses,
         open' \ (unseen' \cup {creating'}) \subseteq open \ (unseen \cup {creating})
  PROVE  TabInv' /\ ListInv'
  BY DEF TermInv, TabInv, ListInv, TabIds, Mounted

LEMMA LiveKept ==
  ASSUME TermInv, UNCHANGED <<tabs, mounts>>, "closing" \in lapses' <=> "closing" \in lapses,
         "listCrossed" \in lapses' <=> "listCrossed" \in lapses,
         Living \subseteq Living',
         \A d \in closing' : d.id \in TabIds \/ \E c \in closing : c.id = d.id,
         creating' = creating \/ (creating' \in Terms => creating' \in Living')
  PROVE  LiveInv'
<1> SUFFICES ASSUME Mounted, "closing" \notin lapses, "listCrossed" \notin lapses
             PROVE  /\ \A i \in DOMAIN tabs : tabs[i].status = "active" => tabs[i].id \in Living'
                    /\ \A d \in closing' : d.id \in TabIds
                    /\ creating' \in Terms => creating' \in Living' \/ creating' \in TabIds
  BY DEF LiveInv, Mounted, TabIds
<1>1. /\ \A i \in DOMAIN tabs : tabs[i].status = "active" => tabs[i].id \in Living
      /\ \A c \in closing : c.id \in TabIds
      /\ creating \in Terms => creating \in Living \/ creating \in TabIds
  BY DEF TermInv, LiveInv
<1>2. QED BY <1>1

LEMMA LiveSame ==
  ASSUME TermInv, UNCHANGED <<tabs, mounts, creating, open, gone>>, closing \subseteq closing',
         \A d \in closing' : d \in closing \/ d.id \in TabIds,
         "closing" \in lapses' <=> "closing" \in lapses,
         "listCrossed" \in lapses' <=> "listCrossed" \in lapses
  PROVE  LiveInv'
<1>1. Living \subseteq Living'
  BY DEF Living
<1>2. QED BY <1>1, LiveKept

LEMMA ScreenKept ==
  ASSUME TermInv, UNCHANGED <<screen, poller>>, lapses \subseteq lapses'
  PROVE  ScreenInv'
  BY DEF TermInv, ScreenInv

-----------------------------------------------------------------------------
(* The sessions.                                                           *)

LEMMA PrintInv == ASSUME TermInv, NEW t \in Terms, Prints(t) PROVE TermInv'
<1>0. /\ printed \in [Terms -> Nat] /\ buffer[t] \in Seq(Piece(t))
  BY DEF TermInv, ShellTypes
<1>1. /\ printed' = [printed EXCEPT ![t] = @ + 1]
      /\ buffer' = [buffer EXCEPT ![t] = Append(buffer[t], <<t, printed[t] + 1>>)]
      /\ UNCHANGED <<counter, open, tabs, active, poller, polls, creating, closing, listing,
                     mounts, clicks, screen, lapses, unseen, gone>>
  BY DEF Prints, paneVars, historyVars
<1>2. Append(buffer[t], <<t, printed[t] + 1>>) \in Seq(Piece(t))
  BY <1>0, AppendProperties DEF Piece
<1>3. ShellTypes'
  BY <1>0, <1>1, <1>2 DEF TermInv, ShellTypes
<1>4. PaneTypes' /\ Rest'
  BY <1>1 DEF TermInv, PaneTypes, Rest, Mounted
<1>5. QED BY <1>1, <1>3, <1>4, ScreenKept, CloseKept, TabKept, LiveSame DEF TermInv

LEMMA ReadElsewhereInv == ASSUME TermInv, NEW t \in Terms, ReadElsewhere(t) PROVE TermInv'
<1>1. /\ buffer' = [buffer EXCEPT ![t] = <<>>]
      /\ UNCHANGED <<counter, open, printed, tabs, active, poller, polls, creating, closing,
                     listing, mounts, clicks, screen, lapses, unseen, gone>>
  BY DEF ReadElsewhere, paneVars
<1>2. ShellTypes'
  BY <1>1, EmptySeq DEF TermInv, ShellTypes
<1>3. PaneTypes' /\ Rest'
  BY <1>1 DEF TermInv, PaneTypes, Rest, Mounted
<1>4. QED BY <1>1, <1>2, <1>3, ScreenKept, CloseKept, TabKept, LiveSame DEF TermInv

\* Another pane's sessions: unknown to this one, or known and gone.
LEMMA OtherCreatesInv == ASSUME TermInv, OtherCreates PROVE TermInv'
<1>0. counter \in Nat /\ counter <= MaxTerms /\ open \subseteq Terms /\ MaxTerms \in Nat
  BY TerminalConstants DEF TermInv, ShellTypes
<1>1. /\ counter' = counter + 1 /\ open' = open \cup {counter + 1}
      /\ unseen' = unseen \cup {counter + 1}
      /\ counter < MaxTerms /\ (creating = Asked => counter + 1 < MaxTerms)
      /\ UNCHANGED <<printed, buffer, tabs, active, poller, polls, creating, closing, listing,
                     mounts, clicks, screen, lapses, gone>>
  BY <1>0 DEF OtherCreates, paneVars
<1>2. counter + 1 \in Terms /\ counter' \in Nat /\ counter' <= MaxTerms
  BY <1>0, <1>1, TermRange
<1>3. ShellTypes'
  BY <1>0, <1>1, <1>2 DEF TermInv, ShellTypes
<1>4. PaneTypes' /\ Rest'
  BY <1>1 DEF TermInv, PaneTypes, Rest, Mounted
<1>5. LiveInv'
  <2>1. Living \subseteq Living'
    BY <1>1 DEF Living
  <2>2. QED BY <1>1, <2>1, LiveKept
<1>6. open' \ (unseen' \cup {creating'}) \subseteq open \ (unseen \cup {creating})
  BY <1>1
<1>7. QED BY <1>1, <1>3, <1>4, <1>5, <1>6, ScreenKept, CloseKept, TabKept DEF TermInv

LEMMA OtherClosesInv == ASSUME TermInv, NEW t \in Terms, OtherCloses(t) PROVE TermInv'
<1>1. /\ buffer' = [buffer EXCEPT ![t] = <<>>]
      /\ open' = open \ {t} /\ gone' = gone \cup {t}
      /\ UNCHANGED <<counter, printed, tabs, active, poller, polls, creating, closing,
                     listing, mounts, clicks, screen, lapses, unseen>>
  BY DEF OtherCloses, paneVars
<1>2. ShellTypes'
  BY <1>1, EmptySeq DEF TermInv, ShellTypes
<1>3. PaneTypes' /\ Rest'
  BY <1>1 DEF TermInv, PaneTypes, Rest, Mounted
<1>4. LiveInv'
  <2>1. Living \subseteq Living'
    BY <1>1 DEF Living
  <2>2. QED BY <1>1, <2>1, LiveKept
<1>5. QED BY <1>1, <1>2, <1>3, <1>4, ScreenKept, CloseKept, TabKept DEF TermInv

LEMMA PollInv == ASSUME TermInv, Poll PROVE TermInv'
<1> DEFINE x == [id |-> poller, got |-> buffer[poller]]
<1>0. poller \in Terms /\ polls \in Seq(Reads) /\ Len(polls) \in Nat
  BY LenProperties DEF Poll, TermInv, PaneTypes, SomeTerm
<1>1. buffer[poller] \in Seq(Piece(poller)) /\ buffer[poller] \in Seq(Pieces)
  BY <1>0, PieceTypes DEF TermInv, ShellTypes
<1>2. x \in Reads /\ x.got \in Seq(Piece(x.id))
  BY <1>0, <1>1 DEF Reads
<1>3. /\ polls' = Append(polls, x) /\ buffer' = [buffer EXCEPT ![poller] = <<>>]
      /\ UNCHANGED <<counter, open, printed, tabs, active, poller, creating, closing,
                     listing, mounts, clicks, screen, lapses, unseen, gone>>
  BY DEF Poll, historyVars
<1> HIDE DEF x
<1>4. /\ polls' \in Seq(Reads) /\ Len(polls') = Len(polls) + 1
      /\ \A i \in 1..Len(polls) : polls'[i] = polls[i]
      /\ polls'[Len(polls) + 1] = x
  BY <1>0, <1>2, <1>3, AppendProperties
<1>5. \A i \in 1..Len(polls') : polls'[i].got \in Seq(Piece(polls'[i].id))
  <2>1. \A i \in 1..Len(polls) : polls'[i].got \in Seq(Piece(polls'[i].id))
    BY <1>4 DEF TermInv, PaneTypes
  <2>2. polls'[Len(polls) + 1].got \in Seq(Piece(polls'[Len(polls) + 1].id))
    BY <1>2, <1>4
  <2>3. \A i \in 1..Len(polls') : i \in 1..Len(polls) \/ i = Len(polls) + 1
    BY <1>0, <1>4
  <2>4. QED BY <2>1, <2>2, <2>3
<1>6. ShellTypes'
  BY <1>3, EmptySeq DEF TermInv, ShellTypes
<1>7. PaneTypes'
  <2>1. /\ tabs' \in Seq(PaneTabs) /\ active' \in SomeTerm /\ poller' \in SomeTerm
        /\ creating' \in SomeTerm \cup {Asked} /\ closing' \subseteq Closes
        /\ listing'.ids \in Seq(Terms)
    BY <1>3 DEF TermInv, PaneTypes
  <2>2. QED BY <1>4, <1>5, <2>1 DEF PaneTypes
<1>8. Rest'
  BY <1>3 DEF TermInv, Rest, Mounted
<1>9. QED BY <1>3, <1>6, <1>7, <1>8, ScreenKept, CloseKept, TabKept, LiveSame DEF TermInv

\* An answer is written below what the screen shows.
LEMMA AnswerShown == ASSUME TermInv, NEW k, PollAnswered(k) PROVE TermInv'
<1> DEFINE q == polls[k]  got == q.got
<1>0. /\ polls \in Seq(Reads) /\ DOMAIN polls = 1..Len(polls) /\ Len(polls) \in Nat
      /\ screen \in Seq(Pieces) /\ Len(screen) \in Nat
  BY LenProperties DEF TermInv, PaneTypes, ScreenInv
<1>1. k \in 1..Len(polls)
  BY <1>0 DEF PollAnswered
<1>2. q \in Reads /\ got \in Seq(Piece(q.id))
  BY <1>0, <1>1, ElementOfSeq DEF TermInv, PaneTypes
<1>3. /\ got \in Seq(Pieces) /\ Len(got) \in Nat
      /\ \A i \in 1..Len(got) : got[i][1] = q.id
  BY <1>2, PieceTypes, LenProperties DEF Reads
<1>4. /\ screen' = screen \o got /\ polls' = RemoveAt(polls, k)
      /\ lapses' = lapses \cup (IF q.id # poller THEN {"answeredLate"} ELSE {})
      /\ UNCHANGED <<counter, open, printed, buffer, tabs, active, poller, creating, closing,
                     listing, mounts, clicks, unseen, gone>>
  BY DEF PollAnswered, shellVars
<1> HIDE DEF q, got
<1>5. /\ screen' \in Seq(Pieces) /\ Len(screen') = Len(screen) + Len(got)
      /\ \A i \in 1..Len(screen) + Len(got) : screen'[i] =
           IF i <= Len(screen) THEN screen[i] ELSE got[i - Len(screen)]
  BY <1>0, <1>3, <1>4, ConcatProperties
<1>6. ScreenInv'
  <2> SUFFICES ASSUME "answeredLate" \notin lapses', NEW i \in 1..Len(screen'), i > 1
               PROVE  screen'[i][1] = poller'
    BY <1>5 DEF ScreenInv
  <2>1. q.id = poller /\ "answeredLate" \notin lapses
    BY <1>4
  <2>2. CASE i <= Len(screen)
    BY <1>0, <1>4, <1>5, <2>1, <2>2 DEF TermInv, ScreenInv
  <2>3. CASE ~(i <= Len(screen))
    <3>1. i - Len(screen) \in 1..Len(got)
      BY <1>0, <1>3, <1>5, <2>3
    <3>2. QED BY <1>3, <1>4, <1>5, <2>1, <2>3, <3>1
  <2>4. QED BY <2>2, <2>3
<1>7. /\ polls' \in Seq(Reads) /\ Len(polls') = Len(polls) - 1
      /\ \A i \in 1..Len(polls) - 1 : polls'[i] = IF i < k THEN polls[i] ELSE polls[i + 1]
  BY <1>0, <1>1, <1>4, Removed
<1>8. PaneTypes'
  <2>1. ASSUME NEW i \in 1..Len(polls') PROVE polls'[i].got \in Seq(Piece(polls'[i].id))
    <3>1. i \in 1..Len(polls) - 1 /\ i \in 1..Len(polls) /\ i + 1 \in 1..Len(polls)
      BY <1>0, <1>7
    <3>2. polls'[i] = polls[i] \/ polls'[i] = polls[i + 1]
      BY <1>7, <3>1
    <3>3. QED BY <3>1, <3>2 DEF TermInv, PaneTypes
  <2>2. /\ tabs' \in Seq(PaneTabs) /\ active' \in SomeTerm /\ poller' \in SomeTerm
        /\ creating' \in SomeTerm \cup {Asked} /\ closing' \subseteq Closes
        /\ listing'.ids \in Seq(Terms)
    BY <1>4 DEF TermInv, PaneTypes
  <2>3. QED BY <1>7, <2>1, <2>2 DEF PaneTypes
<1>9. ShellTypes' /\ Rest'
  BY <1>4 DEF TermInv, ShellTypes, Rest, Mounted
<1>10. "closing" \in lapses' <=> "closing" \in lapses
  BY <1>4
<1>11. "listCrossed" \in lapses' <=> "listCrossed" \in lapses
  BY <1>4
<1>12. CloseInv'
  BY <1>4, <1>10 DEF TermInv, CloseInv, IsOpenTab
<1>13. TabInv' /\ ListInv'
  BY <1>4, <1>11 DEF TermInv, TabInv, ListInv, TabIds, Mounted
<1>14. LiveInv'
  BY <1>4, <1>10, <1>11, LiveSame
<1>15. QED BY <1>6, <1>8, <1>9, <1>12, <1>13, <1>14 DEF TermInv

\* The effects on activeId.
LEMMA SwitchInv == ASSUME TermInv, Switch PROVE TermInv'
<1>0. screen \in Seq(Pieces) /\ Len(screen) \in Nat
  BY LenProperties DEF TermInv, ScreenInv
<1>1. /\ UNCHANGED <<counter, open, printed, buffer, tabs, active, polls, creating, closing,
                     listing, mounts, clicks, unseen, gone>>
      /\ poller' = active /\ lapses' = lapses \ {"answeredLate"}
      /\ screen' = <<>> \/ (screen # <<>> /\ screen' = <<Last(screen)>>)
  BY DEF Switch, shellVars
<1>2. screen' \in Seq(Pieces) /\ Len(screen') <= 1
  <2>1. CASE screen' = <<>>
    BY <2>1, EmptySeq
  <2>2. CASE screen # <<>> /\ screen' = <<Last(screen)>>
    <3>1. Last(screen) \in Pieces
      BY <1>0, <2>2, EmptySeq, ElementOfSeq DEF Last
    <3>2. QED BY <2>2, <3>1
  <2>3. QED BY <1>1, <2>1, <2>2
<1>3. ScreenInv'
  <2>1. Len(screen') \in Nat
    BY <1>2, LenProperties
  <2>2. QED BY <1>2, <2>1 DEF ScreenInv
<1>4. ShellTypes' /\ PaneTypes' /\ Rest'
  BY <1>1 DEF TermInv, ShellTypes, PaneTypes, Rest, Mounted
<1>5. /\ "closing" \in lapses' <=> "closing" \in lapses
      /\ "listCrossed" \in lapses' <=> "listCrossed" \in lapses
  BY <1>1
<1>6. QED BY <1>1, <1>3, <1>4, <1>5, CloseKept, TabKept, LiveSame DEF TermInv

-----------------------------------------------------------------------------
(* The pane.                                                               *)

\* Tabs that are open have the status they were found with.
LEMMA TabTypesKnown ==
  ASSUME TermInv
  PROVE  /\ DOMAIN tabs = 1..Len(tabs) /\ Len(tabs) \in Nat
         /\ \A i \in 1..Len(tabs) : tabs[i] \in PaneTabs
         /\ TabIds \subseteq Terms
<1>1. tabs \in Seq(PaneTabs)
  BY DEF TermInv, PaneTypes
<1>2. DOMAIN tabs = 1..Len(tabs) /\ Len(tabs) \in Nat /\ \A i \in 1..Len(tabs) : tabs[i] \in PaneTabs
  BY <1>1, LenProperties, ElementOfSeq
<1>3. QED BY <1>2 DEF TabIds, PaneTabs

LEMMA MountInv == ASSUME TermInv, Mount PROVE TermInv'
<1>1. /\ UNCHANGED <<counter, open, printed, buffer, polls, clicks, lapses>>
      /\ mounts' = mounts + 1 /\ listing' = [NoList EXCEPT !.at = "asked"]
      /\ tabs' = <<>> /\ active' = NoTerminal /\ poller' = NoTerminal /\ screen' = <<>>
      /\ creating' = NoTerminal /\ closing' = {}
  BY DEF Mount, shellVars
<1>2. listing'.at = "asked" /\ listing'.ids = <<>>
  BY <1>1 DEF NoList
<1>3. ShellTypes'
  BY <1>1, TermRange DEF TermInv, ShellTypes
<1>4. CloseInv' /\ Rest'
  BY <1>1 DEF TermInv, CloseInv, Rest
<1>5. LiveInv'
  <2>1. DOMAIN tabs' = {} /\ creating' \notin Terms
    BY <1>1, TermRange
  <2>2. QED BY <1>1, <2>1 DEF LiveInv
<1>6. TabInv' /\ ListInv'
  <2>1. DOMAIN tabs' = {}
    BY <1>1
  <2>2. QED BY <1>2, <2>1 DEF TabInv, ListInv
<1>7. PaneTypes'
  <2>1. tabs' \in Seq(PaneTabs) /\ listing'.ids \in Seq(Terms)
    BY <1>1, <1>2, EmptySeq
  <2>2. QED BY <1>1, <2>1 DEF TermInv, PaneTypes, SomeTerm
<1>8. ScreenInv'
  BY <1>1, EmptySeq DEF ScreenInv
<1>9. QED BY <1>3, <1>4, <1>5, <1>6, <1>7, <1>8 DEF TermInv

LEMMA UnmountInv == ASSUME TermInv, Unmount PROVE TermInv'
<1>1. /\ UNCHANGED <<counter, open, printed, buffer, clicks>>
      /\ tabs' = <<>> /\ active' = NoTerminal /\ poller' = NoTerminal /\ screen' = <<>>
      /\ polls' = <<>> /\ creating' = NoTerminal /\ closing' = {} /\ listing' = NoList
      /\ Mounted /\ mounts' = mounts + 1
  BY DEF Unmount, shellVars
<1>2. listing'.at = "no" /\ listing'.ids = <<>>
  BY <1>1 DEF NoList
<1>3. ShellTypes'
  BY <1>1, TermRange DEF TermInv, ShellTypes
<1>4. PaneTypes'
  <2>1. tabs' \in Seq(PaneTabs) /\ listing'.ids \in Seq(Terms) /\ polls' \in Seq(Reads) /\ Len(polls') = 0
    BY <1>1, <1>2, EmptySeq
  <2>2. QED BY <1>1, <2>1 DEF PaneTypes, SomeTerm
<1>5. ScreenInv'
  BY <1>1, EmptySeq DEF ScreenInv
<1>6. CloseInv' /\ Rest'
  BY <1>1 DEF TermInv, CloseInv, Rest
<1>7. ~Mounted' /\ DOMAIN tabs' = {}
  BY <1>1, MountsAlternate DEF TermInv, Rest
<1>8. LiveInv' /\ TabInv' /\ ListInv'
  BY <1>2, <1>7 DEF LiveInv, TabInv, ListInv
<1>9. QED BY <1>3, <1>4, <1>5, <1>6, <1>8 DEF TermInv

LEMMA ListReadInv == ASSUME TermInv, ListRead PROVE TermInv'
<1>1. PICK ids \in SetToSeqs(open) : listing' = [at |-> "read", ids |-> ids]
  BY DEF ListRead
<1>2. UNCHANGED <<counter, open, printed, buffer, tabs, active, poller, polls, creating, closing,
                  mounts, clicks, screen, lapses, gone>>
  BY DEF ListRead, shellVars
<1>3. /\ ids \in Seq(Terms) /\ ToSet(ids) = open
      /\ \A i, j \in DOMAIN ids : ids[i] = ids[j] => i = j
  BY EveryOne DEF TermInv, ShellTypes
<1>4. listing'.ids = ids /\ listing'.at = "read"
  BY <1>1
<1>5. ShellTypes' /\ Rest'
  BY <1>2 DEF TermInv, ShellTypes, Rest, Mounted
<1>6. PaneTypes'
  BY <1>2, <1>3, <1>4 DEF TermInv, PaneTypes
<1>7. TabInv' /\ ListInv'
  BY <1>2, <1>3, <1>4 DEF TermInv, TabInv, ListInv, TabIds
<1>8. QED BY <1>2, <1>5, <1>6, <1>7, ScreenKept, CloseKept, LiveSame DEF TermInv

\* The list that was read becomes the tabs.
LEMMA ListedInv == ASSUME TermInv, Listed PROVE TermInv'
<1> DEFINE ids == listing.ids
<1>1. /\ UNCHANGED <<counter, open, printed, buffer, poller, polls, creating, closing,
                     mounts, clicks, screen, unseen, gone>>
      /\ listing' = NoList /\ listing.at = "read"
  BY DEF Listed, shellVars
<1>2. listing'.ids = <<>> /\ listing'.at = "no"
  BY <1>1 DEF NoList
<1>3. /\ ids \in Seq(Terms) /\ \A i, j \in DOMAIN ids : ids[i] = ids[j] => i = j
      /\ DOMAIN ids = 1..Len(ids) /\ Len(ids) \in Nat
  BY LenProperties DEF TermInv, PaneTypes, ListInv
<1>4. ShellTypes' /\ Rest'
  BY <1>1 DEF TermInv, ShellTypes, Rest, Mounted
<1>5. ListInv'
  BY <1>2 DEF ListInv
<1>6. CASE ids = <<>>
  <2>1. UNCHANGED <<tabs, active, lapses>>
    BY <1>6 DEF Listed
  <2>2. PaneTypes'
    BY <1>1, <1>2, <2>1, EmptySeq DEF TermInv, PaneTypes
  <2>3. TabInv'
    BY <1>1, <1>2, <1>6, <2>1 DEF TermInv, TabInv, TabIds, Mounted
  <2>4. QED BY <1>1, <1>4, <1>5, <2>1, <2>2, <2>3, ScreenKept, CloseKept, LiveSame DEF TermInv
<1>7. CASE ids # <<>>
  <2>1. /\ tabs' = [i \in DOMAIN ids |-> [id |-> ids[i], status |-> "active"]]
        /\ active' = ids[1]
        /\ lapses' = lapses
             \cup (IF TabIds \subseteq ToSet(ids) THEN {} ELSE {"listCrossed"})
             \cup (IF ToSet(ids) \subseteq open \cup gone THEN {} ELSE {"closing"})
             \cup MovedWhile(closing)
    BY <1>7 DEF Listed
  <2>2. /\ "listCrossed" \notin lapses' => "listCrossed" \notin lapses /\ TabIds \subseteq ToSet(ids)
        /\ "closing" \notin lapses' => /\ closing = {} /\ ToSet(ids) \subseteq open \cup gone
                                      /\ "closing" \notin lapses
        /\ lapses \subseteq lapses'
    BY <2>1 DEF MovedWhile
  <2>3. 1 \in DOMAIN ids /\ \A i \in DOMAIN ids : ids[i] \in Terms
    BY <1>3, <1>7, EmptySeq, ElementOfSeq
  <2>4. DOMAIN tabs' = DOMAIN ids /\ \A i \in DOMAIN ids : tabs'[i] = [id |-> ids[i], status |-> "active"]
    BY <2>1
  <2>12. ASSUME NEW i \in DOMAIN ids PROVE tabs'[i].id = ids[i]
    <3>1. tabs'[i] = [id |-> ids[i], status |-> "active"]
      BY <2>4
    <3>2. QED BY <3>1
  <2>5. tabs' \in Seq(PaneTabs)
    <3>1. \A i \in 1..Len(ids) : [id |-> ids[i], status |-> "active"] \in PaneTabs
      BY <1>3, <2>3 DEF PaneTabs
    <3>2. tabs' \in [1..Len(ids) -> PaneTabs]
      BY <1>3, <2>1, <3>1
    <3>3. QED BY <1>3, <3>2
  <2>6. active' \in Terms
    BY <2>1, <2>3
  <2>7. PaneTypes'
    BY <1>1, <1>2, <2>5, <2>6, EmptySeq DEF TermInv, PaneTypes, SomeTerm
  <2>8. CloseInv'
    BY <1>1, <2>1, <2>2, <2>3, <2>4 DEF CloseInv, IsOpenTab
  <2>9. TabIds' = ToSet(ids)
    BY <2>4, <2>12 DEF TabIds, ToSet
  <2>10. TabInv'
    <3> SUFFICES ASSUME "listCrossed" \notin lapses' PROVE
          /\ \A i, j \in DOMAIN tabs' : tabs'[i].id = tabs'[j].id => i = j
          /\ Mounted => open \ (unseen \cup {creating}) \subseteq ToSet(ids)
      BY <1>1, <2>9 DEF TabInv, Mounted
    <3>1. \A i, j \in DOMAIN tabs' : tabs'[i].id = tabs'[j].id => i = j
      BY <1>3, <2>4, <2>12
    <3>2. Mounted => open \ (unseen \cup {creating}) \subseteq ToSet(ids)
      BY <1>1, <2>2 DEF TermInv, TabInv
    <3>3. QED BY <3>1, <3>2
  <2>11. LiveInv'
    <3> SUFFICES ASSUME Mounted, "closing" \notin lapses', "listCrossed" \notin lapses'
                 PROVE  /\ \A i \in DOMAIN tabs' : tabs'[i].id \in Living'
                        /\ closing' = {}
                        /\ creating \in Terms => creating \in Living' \/ creating \in ToSet(ids)
      BY <1>1, <2>9 DEF LiveInv, Mounted, TabIds
    <3>1. Living \subseteq Living'
      BY <1>1 DEF Living
    <3>2. \A i \in DOMAIN ids : ids[i] \in Living
      BY <2>2 DEF ToSet, Living
    <3>3. creating \in Terms => creating \in Living \/ creating \in ToSet(ids)
      BY <2>2 DEF TermInv, LiveInv
    <3>4. \A i \in DOMAIN tabs' : tabs'[i].id \in Living'
      BY <2>4, <2>12, <3>1, <3>2
    <3>5. closing' = {}
      BY <1>1, <2>2
    <3>6. QED BY <3>1, <3>3, <3>4, <3>5
  <2>13. QED BY <1>1, <1>4, <1>5, <2>2, <2>7, <2>8, <2>10, <2>11, ScreenKept DEF TermInv
<1>8. QED BY <1>6, <1>7

LEMMA CreateInv ==
  ASSUME TermInv, CreateTerminal \/ CreateRuns
  PROVE  TermInv'
<1>0. counter \in Nat /\ counter <= MaxTerms /\ open \subseteq Terms /\ MaxTerms \in Nat
  BY TerminalConstants DEF TermInv, ShellTypes
<1>1. UNCHANGED <<printed, buffer, tabs, active, poller, polls, closing, listing, mounts, clicks,
                  screen, lapses, unseen, gone>>
  BY DEF CreateTerminal, CreateRuns, shellVars, historyVars
<1>2. /\ ShellTypes' /\ creating' \in SomeTerm \cup {Asked}
      /\ open' \ {creating'} \subseteq open \ {creating}
      /\ open \subseteq open' /\ (creating' \in Terms => creating' \in open')
  <2>1. CASE CreateTerminal
    <3>1. counter < MaxTerms /\ creating = NoTerminal /\ creating' = Asked /\ UNCHANGED <<counter, open>>
      BY <2>1 DEF CreateTerminal, shellVars
    <3>2. QED BY <1>0, <1>1, <3>1, TermRange DEF TermInv, ShellTypes
  <2>2. CASE CreateRuns
    <3>1. /\ creating = Asked /\ counter' = counter + 1
          /\ \/ open' = open \cup {counter + 1} /\ creating' = counter + 1
             \/ creating' = NoTerminal /\ open' = open
      BY <2>2 DEF CreateRuns
    <3>2. counter < MaxTerms /\ counter + 1 \in Terms
      BY <1>0, <3>1, TermRange DEF TermInv, ShellTypes
    <3>3. counter' \in Nat /\ counter' <= MaxTerms /\ open' \subseteq Terms
          /\ creating' \in SomeTerm /\ creating' # Asked
      <4>1. counter' \in Nat /\ counter' <= MaxTerms
        BY <1>0, <3>1, <3>2
      <4>2. creating' \in Terms \/ creating' = NoTerminal
        BY <3>1, <3>2
      <4>3. open' \subseteq Terms
        BY <1>0, <3>1, <3>2
      <4>4. QED BY <4>1, <4>2, <4>3, TermRange DEF SomeTerm
    <3>4. ShellTypes'
      BY <1>1, <3>3 DEF TermInv, ShellTypes
    <3>5. QED BY <1>0, <3>1, <3>3, <3>4, TermRange
  <2>3. QED BY <2>1, <2>2
<1>3. PaneTypes' /\ Rest'
  BY <1>1, <1>2 DEF TermInv, PaneTypes, Rest, Mounted
<1>4. LiveInv'
  <2>1. Living \subseteq Living' /\ open' \subseteq Living'
    BY <1>1, <1>2 DEF Living
  <2>2. QED BY <1>1, <1>2, <2>1, LiveKept
<1>5. open' \ (unseen' \cup {creating'}) \subseteq open \ (unseen \cup {creating})
  BY <1>1, <1>2
<1>6. QED BY <1>1, <1>2, <1>3, <1>4, <1>5, ScreenKept, CloseKept, TabKept DEF TermInv

\* The new session gets a tab, in front.
LEMMA CreateAnsweredInv == ASSUME TermInv, CreateAnswered PROVE TermInv'
<1> DEFINE x == [id |-> creating, status |-> "active"]  n == Len(tabs)
<1>0. /\ tabs \in Seq(PaneTabs) /\ DOMAIN tabs = 1..n /\ n \in Nat /\ creating \in Terms
  BY TabTypesKnown DEF TermInv, PaneTypes, CreateAnswered, SomeTerm
<1>1. /\ UNCHANGED <<counter, open, printed, buffer, poller, polls, closing, listing, mounts, clicks,
                     screen, unseen, gone>>
      /\ tabs' = Append(tabs, x) /\ active' = creating /\ creating' = NoTerminal
      /\ lapses' = lapses \cup (IF creating \in TabIds THEN {"listCrossed"} ELSE {})
                          \cup MovedWhile(closing)
  BY DEF CreateAnswered, shellVars
<1>2. x \in PaneTabs /\ x.id = creating
  BY <1>0 DEF PaneTabs
<1>3. /\ tabs' \in Seq(PaneTabs) /\ DOMAIN tabs' = 1..n + 1
      /\ \A i \in 1..n : tabs'[i] = tabs[i]
      /\ tabs'[n + 1] = x
  BY <1>0, <1>1, <1>2, AppendProperties, LenProperties
<1>4. /\ "listCrossed" \notin lapses' => "listCrossed" \notin lapses /\ creating \notin TabIds
      /\ "closing" \notin lapses' => closing = {} /\ "closing" \notin lapses
      /\ lapses \subseteq lapses'
  BY <1>1 DEF MovedWhile
<1>5. ShellTypes' /\ Rest' /\ ListInv'
  BY <1>1, TermRange DEF TermInv, ShellTypes, Rest, Mounted, ListInv
<1>6. PaneTypes'
  BY <1>0, <1>1, <1>3 DEF TermInv, PaneTypes, SomeTerm
<1>7. CloseInv'
  <2>1. n + 1 \in DOMAIN tabs' /\ tabs'[n + 1] = [id |-> active', status |-> "active"]
    BY <1>0, <1>1, <1>3
  <2>2. IsOpenTab(active)'
    BY <2>1 DEF IsOpenTab
  <2>3. QED BY <1>1, <1>4, <2>2 DEF CloseInv
<1>8. TabInv'
  <2> SUFFICES ASSUME "listCrossed" \notin lapses' PROVE
        /\ \A i, j \in DOMAIN tabs' : tabs'[i].id = tabs'[j].id => i = j
        /\ Mounted /\ listing.at # "asked" =>
             open \ (unseen \cup {NoTerminal}) \subseteq TabIds' \cup ToSet(listing.ids)
    BY <1>1 DEF TabInv, Mounted
  <2>1. \A i \in 1..n : tabs[i].id # creating
    BY <1>0, <1>4 DEF TabIds
  <2>2. \A i, j \in 1..n : tabs[i].id = tabs[j].id => i = j
    BY <1>0, <1>4 DEF TermInv, TabInv
  <2>3. \A i, j \in DOMAIN tabs' : tabs'[i].id = tabs'[j].id => i = j
    BY <1>0, <1>2, <1>3, <2>1, <2>2
  <2>4. TabIds' = TabIds \cup {creating}
    BY <1>0, <1>2, <1>3 DEF TabIds
  <2>5. QED BY <1>4, <2>3, <2>4 DEF TermInv, TabInv
<1>9. LiveInv'
  <2> SUFFICES ASSUME Mounted, "closing" \notin lapses', "listCrossed" \notin lapses'
               PROVE  \A i \in DOMAIN tabs' : tabs'[i].id \in Living' \/ tabs'[i].status # "active"
    <3>1. "closing" \notin lapses' => closing' = {}
      BY <1>1, <1>4
    <3>2. creating' \notin Terms
      BY <1>1, TermRange
    <3>3. QED BY <1>1, <3>1, <3>2 DEF LiveInv, Mounted
  <2>1. Living \subseteq Living'
    BY <1>1 DEF Living
  <2>2. /\ \A i \in 1..n : tabs[i].status = "active" => tabs[i].id \in Living
        /\ creating \in Living
    BY <1>0, <1>4 DEF TermInv, LiveInv
  <2>3. \A i \in 1..n + 1 : i \in 1..n \/ i = n + 1
    BY <1>0
  <2>4. QED BY <1>2, <1>3, <2>1, <2>2, <2>3
<1>10. QED BY <1>1, <1>4, <1>5, <1>6, <1>7, <1>8, <1>9, ScreenKept DEF TermInv

LEMMA ClickInv ==
  ASSUME TermInv, NEW t \in Terms, Choose(t) \/ CloseTerminal(t)
  PROVE  TermInv'
<1>1. /\ UNCHANGED <<counter, open, printed, buffer, tabs, poller, polls, creating, listing,
                     mounts, screen, unseen, gone>>
      /\ Mounted /\ clicks' = clicks + 1 /\ clicks' \in Nat
  <2>1. clicks \in Nat
    BY DEF TermInv, ShellTypes
  <2>2. QED BY <2>1 DEF Choose, CloseTerminal, shellVars, historyVars
<1>2. CASE Choose(t)
  <2>1. /\ active' = t /\ IsOpenTab(t) /\ closing' = closing
        /\ lapses' = lapses \cup MovedWhile(closing)
    BY <1>2 DEF Choose
  <2>2. /\ "closing" \notin lapses' => closing = {} /\ "closing" \notin lapses
        /\ "listCrossed" \in lapses' <=> "listCrossed" \in lapses
        /\ lapses \subseteq lapses'
    BY <2>1 DEF MovedWhile
  <2>3. ShellTypes' /\ PaneTypes' /\ Rest'
    BY <1>1, <2>1 DEF TermInv, ShellTypes, PaneTypes, SomeTerm, Rest, Mounted
  <2>4. CloseInv'
    BY <1>1, <2>1, <2>2 DEF CloseInv, IsOpenTab
  <2>5. TabInv' /\ ListInv'
    BY <1>1, <2>2 DEF TermInv, TabInv, ListInv, TabIds, Mounted
  <2>6. LiveInv'
    BY <1>1, <2>1, <2>2 DEF TermInv, LiveInv, Living, Mounted, TabIds
  <2>7. QED BY <1>1, <2>2, <2>3, <2>4, <2>5, <2>6, ScreenKept DEF TermInv
<1>3. CASE CloseTerminal(t)
  <2> DEFINE c == [id |-> t, activeId |-> active, click |-> clicks', done |-> FALSE]
  <2>1. closing' = closing \cup {c} /\ UNCHANGED <<active, lapses>>
    BY <1>3 DEF CloseTerminal, historyVars
  <2>2. c \in Closes /\ c.activeId = active /\ c.id \in TabIds
    BY <1>1, <1>3 DEF CloseTerminal, Closes, TermInv, PaneTypes
  <2> HIDE DEF c
  <2>3. ShellTypes' /\ Rest'
    BY <1>1 DEF TermInv, ShellTypes, Rest, Mounted
  <2>4. PaneTypes'
    BY <1>1, <2>1, <2>2 DEF TermInv, PaneTypes
  <2>5. CloseInv'
    BY <1>1, <2>1, <2>2 DEF TermInv, CloseInv, IsOpenTab
  <2>6. LiveInv'
    BY <1>1, <2>1, <2>2, LiveSame
  <2>7. QED BY <1>1, <2>1, <2>3, <2>4, <2>5, <2>6, ScreenKept, TabKept DEF TermInv
<1>4. QED BY <1>2, <1>3

LEMMA CloseRunsInv == ASSUME TermInv, NEW c \in closing, CloseRuns(c) PROVE TermInv'
<1> DEFINE d == [c EXCEPT !.done = TRUE]
<1>0. c \in Closes
  BY DEF TermInv, PaneTypes
<1>1. /\ UNCHANGED <<counter, printed, tabs, active, poller, polls, creating, listing,
                     mounts, clicks, screen, lapses, unseen, gone>>
      /\ closing' = (closing \ {c}) \cup {d} /\ open' = open \ {c.id}
      /\ buffer' = [buffer EXCEPT ![c.id] = <<>>]
  BY DEF CloseRuns
<1>2. d \in Closes /\ d.activeId = c.activeId /\ d.id = c.id
  BY <1>0 DEF Closes
<1> HIDE DEF d
<1>3. ShellTypes'
  BY <1>1, EmptySeq DEF TermInv, ShellTypes
<1>4. PaneTypes' /\ Rest'
  BY <1>1, <1>2 DEF TermInv, PaneTypes, Rest, Mounted
<1>5. CloseInv'
  BY <1>1, <1>2 DEF TermInv, CloseInv, IsOpenTab
<1>6. LiveInv'
  <2>1. Living \subseteq Living'
    BY <1>1, <1>2 DEF Living
  <2>2. \A e \in closing' : \E b \in closing : b.id = e.id
    BY <1>1, <1>2
  <2>3. QED BY <1>1, <2>1, <2>2, LiveKept
<1>7. QED BY <1>1, <1>3, <1>4, <1>5, <1>6, ScreenKept, TabKept DEF TermInv

\* The tab is marked; what comes in front is open.
LEMMA CloseAnsweredInv == ASSUME TermInv, NEW c \in closing, CloseAnswered(c) PROVE TermInv'
<1> DEFINE n == Len(tabs)
<1>0. c \in Closes /\ DOMAIN tabs = 1..n /\ n \in Nat /\ \A i \in 1..n : tabs[i] \in PaneTabs
  BY TabTypesKnown DEF TermInv, PaneTypes
<1>1. /\ UNCHANGED <<counter, open, printed, buffer, poller, polls, creating, listing, mounts, clicks,
                     screen, unseen, gone>>
      /\ closing' = closing \ {c} /\ tabs' = Marked(c.id)
      /\ lapses' = lapses \cup MovedWhile(IF active' = active THEN {} ELSE closing')
  BY DEF CloseAnswered, shellVars
<1>2. /\ DOMAIN tabs' = 1..n
      /\ \A i \in 1..n : /\ tabs'[i] \in PaneTabs /\ tabs'[i].id = tabs[i].id
                         /\ IF tabs[i].id # c.id THEN tabs'[i] = tabs[i]
                                                 ELSE tabs'[i].status = "closed"
  BY <1>0, <1>1 DEF Marked, PaneTabs
<1>3. tabs' \in Seq(PaneTabs)
  <2>1. tabs' \in [1..n -> PaneTabs]
    <3>1. tabs' = [i \in 1..n |-> tabs'[i]]
      BY <1>0, <1>1 DEF Marked
    <3>2. QED BY <1>2, <3>1
  <2>2. QED BY <1>0, <2>1
<1>4. /\ \A i \in 1..n : StaysOpen(i, c.id) => tabs'[i] = [id |-> tabs[i].id, status |-> "active"]
  BY <1>0, <1>2 DEF StaysOpen, PaneTabs
<1>5. \/ c.activeId # c.id /\ active' = active
      \/ c.activeId = c.id /\ active' = NoTerminal
      \/ c.activeId = c.id /\ active' \in Terms /\ IsOpenTab(active)'
  <2>1. CASE c.activeId # c.id
    BY <2>1 DEF CloseAnswered
  <2>2. CASE c.activeId = c.id /\ active' # NoTerminal
    <3>1. PICK i \in 1..n : StaysOpen(i, c.id) /\ active' = tabs[i].id
      BY <1>0, <2>2 DEF CloseAnswered
    <3>2. tabs'[i] = [id |-> active', status |-> "active"] /\ active' \in Terms
      BY <1>0, <1>4, <3>1 DEF PaneTabs
    <3>3. QED BY <1>2, <2>2, <3>2 DEF IsOpenTab
  <2>3. QED BY <2>1, <2>2
<1>6. active' \in SomeTerm
  BY <1>5 DEF TermInv, PaneTypes, SomeTerm
<1>7. /\ "closing" \notin lapses' => "closing" \notin lapses /\ (active' = active \/ closing' = {})
      /\ "listCrossed" \in lapses' <=> "listCrossed" \in lapses
      /\ lapses \subseteq lapses'
  BY <1>1 DEF MovedWhile
<1>8. ShellTypes' /\ Rest' /\ ListInv'
  BY <1>1 DEF TermInv, ShellTypes, Rest, Mounted, ListInv
<1>9. PaneTypes'
  BY <1>1, <1>3, <1>6 DEF TermInv, PaneTypes
<1>10. CloseInv'
  <2> SUFFICES ASSUME "closing" \notin lapses'
               PROVE  /\ \A e \in closing' : e.activeId = active'
                      /\ active' # NoTerminal => IsOpenTab(active)'
    BY DEF CloseInv
  <2>1. /\ "closing" \notin lapses /\ c.activeId = active
        /\ \A e \in closing : e.activeId = active
        /\ active # NoTerminal => IsOpenTab(active)
    BY <1>7 DEF TermInv, CloseInv
  <2>2. \A e \in closing' : e.activeId = active'
    BY <1>1, <1>7, <2>1
  <2>3. CASE c.activeId # c.id /\ active' = active /\ active # NoTerminal
    <3>1. PICK i \in 1..n : tabs[i] = [id |-> active, status |-> "active"]
      BY <1>0, <2>1, <2>3 DEF IsOpenTab
    <3>2. tabs'[i] = [id |-> active', status |-> "active"]
      BY <1>2, <2>1, <2>3, <3>1
    <3>3. QED BY <1>2, <2>2, <3>2 DEF IsOpenTab
  <2>4. QED BY <1>5, <2>2, <2>3
<1>11. TabInv'
  <2>1. TabIds' = TabIds
    BY <1>0, <1>2 DEF TabIds
  <2>2. QED BY <1>0, <1>1, <1>2, <1>7, <2>1 DEF TermInv, TabInv, Mounted
<1>12. LiveInv'
  <2>1. TabIds' = TabIds
    BY <1>0, <1>2 DEF TabIds
  <2> SUFFICES ASSUME Mounted, "closing" \notin lapses', "listCrossed" \notin lapses'
               PROVE  /\ \A i \in 1..n : tabs'[i].status = "active" => tabs'[i].id \in Living'
                      /\ \A e \in closing' : e.id \in TabIds
                      /\ creating \in Terms => creating \in Living' \/ creating \in TabIds
    BY <1>1, <1>2, <2>1 DEF LiveInv, Mounted
  <2>2. /\ \A i \in 1..n : tabs[i].status = "active" => tabs[i].id \in Living
        /\ \A e \in closing : e.id \in TabIds
        /\ creating \in Terms => creating \in Living \/ creating \in TabIds
    BY <1>0, <1>7 DEF TermInv, LiveInv
  <2>3. \A t : t # c.id /\ t \in Living => t \in Living'
    BY <1>1 DEF Living
  <2>4. \A i \in 1..n : tabs'[i].status = "active" => tabs'[i].id \in Living'
    BY <1>2, <2>2, <2>3
  <2>5. c.id \in TabIds /\ \A e \in closing' : e.id \in TabIds
    BY <1>1, <2>2
  <2>6. QED BY <2>2, <2>3, <2>4, <2>5
<1>13. QED BY <1>1, <1>7, <1>8, <1>9, <1>10, <1>11, <1>12, ScreenKept DEF TermInv

LEMMA TermInitInv == TerminalsInit => TermInv
<1> SUFFICES ASSUME TerminalsInit PROVE TermInv
  OBVIOUS
<1>0. MaxTerms \in Nat \ {0} /\ counter \in 0..1
  BY TerminalConstants DEF TerminalsInit
<1>1. ShellTypes
  <2>1. counter \in Nat /\ counter <= MaxTerms /\ 1..counter \subseteq Terms
    BY <1>0 DEF Terms
  <2>2. \A t \in Terms : buffer[t] \in Seq(Piece(t))
    BY EmptySeq DEF TerminalsInit
  <2>3. QED BY <2>1, <2>2, TermRange DEF TerminalsInit, ShellTypes
<1>2. PaneTypes
  BY EmptySeq DEF TerminalsInit, PaneTypes, SomeTerm, NoList
<1>3. ScreenInv
  BY EmptySeq DEF TerminalsInit, ScreenInv
<1>4. CloseInv /\ Rest /\ ListInv /\ LiveInv
  BY DEF TerminalsInit, CloseInv, Rest, ListInv, LiveInv, Mounted, NoList
<1>5. TabInv
  BY DEF TerminalsInit, TabInv, Mounted
<1>6. QED BY <1>1, <1>2, <1>3, <1>4, <1>5 DEF TermInv

LEMMA TermStepInv == TermInv /\ [TerminalsNext]_terminalVars => TermInv'
<1> SUFFICES ASSUME TermInv, [TerminalsNext]_terminalVars PROVE TermInv'
  OBVIOUS
<1>1. CASE UNCHANGED terminalVars
  <2>1. UNCHANGED <<counter, open, printed, buffer, tabs, active, poller, polls, creating, closing,
                    listing, mounts, clicks, screen, lapses, unseen, gone>>
    BY <1>1 DEF terminalVars, shellVars, paneVars, historyVars
  <2>2. ShellTypes' /\ PaneTypes' /\ Rest'
    BY <2>1 DEF TermInv, ShellTypes, PaneTypes, Rest, Mounted
  <2>3. QED BY <2>1, <2>2, ScreenKept, CloseKept, TabKept, LiveSame DEF TermInv
<1>2. QED
  BY <1>1, MountInv, UnmountInv, ListReadInv, ListedInv, CreateInv, CreateAnsweredInv, SwitchInv,
     PollInv, PrintInv, ReadElsewhereInv, OtherCreatesInv, OtherClosesInv, ClickInv,
      CloseRunsInv, CloseAnsweredInv, AnswerShown
     DEF TerminalsNext

LEMMA TermInvariant == TerminalsSpec => []TermInv
  BY TermInitInv, TermStepInv, PTL DEF TerminalsSpec

\* Below the line a switch keeps, the screen shows the session that is polled, for
\* any number of sessions, clicks, polls in flight and openings of the pane.
THEOREM ScreenFollows == TerminalsSpec => []ScreenOfActive
<1>1. TermInv => ScreenOfActive
  BY LenProperties DEF TermInv, ScreenInv, ScreenOfActive
<1>2. QED BY <1>1, TermInvariant, PTL

\* The active tab is open, a tab drawn open has its session, and a session has one
\* tab, whatever other panes make and close and however often this one is opened.
THEOREM TabsFollow == TerminalsSpec => []TabsAreSessions
<1>1. TermInv => TabsAreSessions
  <2> SUFFICES ASSUME TermInv, Mounted, "listCrossed" \notin lapses
               PROVE  /\ "closing" \notin lapses =>
                           /\ active # NoTerminal => IsOpenTab(active)
                           /\ \A t \in Terms : IsOpenTab(t) => t \in Living
                      /\ listing = NoList =>
                           \A t \in open \ (unseen \cup {creating}) :
                             Cardinality({i \in DOMAIN tabs : tabs[i].id = t}) = 1
    BY DEF TabsAreSessions, Living
  <2>1. ASSUME "closing" \notin lapses
        PROVE  /\ active # NoTerminal => IsOpenTab(active)
               /\ \A t \in Terms : IsOpenTab(t) => t \in Living
    <3>1. active # NoTerminal => IsOpenTab(active)
      BY <2>1 DEF TermInv, CloseInv
    <3>2. ASSUME NEW t \in Terms, IsOpenTab(t) PROVE t \in Living
      <4>1. PICK i \in DOMAIN tabs : tabs[i] = [id |-> t, status |-> "active"]
        BY <3>2 DEF IsOpenTab
      <4>2. tabs[i].id = t /\ tabs[i].status = "active"
        BY <4>1
      <4>3. QED BY <2>1, <4>2 DEF TermInv, LiveInv
    <3>3. QED BY <3>1, <3>2
  <2>2. ASSUME listing = NoList, NEW t \in open \ (unseen \cup {creating})
        PROVE  Cardinality({i \in DOMAIN tabs : tabs[i].id = t}) = 1
    <3>1. listing.at # "asked" /\ ToSet(listing.ids) = {}
      BY <2>2 DEF NoList, ToSet
    <3>2. t \in TabIds
      BY <2>2, <3>1 DEF TermInv, TabInv
    <3>3. PICK k \in DOMAIN tabs : tabs[k].id = t
      BY <3>2 DEF TabIds
    <3>4. {i \in DOMAIN tabs : tabs[i].id = t} = {k}
      BY <3>3 DEF TermInv, TabInv
    <3>5. QED BY <3>4, FS_Singleton
  <2>3. QED BY <2>1, <2>2
<1>2. QED BY <1>1, TermInvariant, PTL

-----------------------------------------------------------------------------
(* Where the pieces are.                                                   *)

Printed == UNION {{t} \X (1..printed[t]) : t \in Terms}
OnceIn(s) == \A i, j \in DOMAIN s : s[i] = s[j] => i = j
Apart(s, u) == ToSet(s) \cap ToSet(u) = {}

\* A list has a piece once; lists have none in common, with one another or with
\* what went elsewhere; and together they are what was printed.
OnceInv ==
  /\ seen \in Seq(Pieces) /\ OnceIn(seen) /\ ToSet(seen) \cap elsewhere = {}
  /\ \A t \in Terms : /\ OnceIn(buffer[t]) /\ ToSet(buffer[t]) \cap elsewhere = {}
                      /\ Apart(buffer[t], seen)
                      /\ \A u \in Terms : t # u => Apart(buffer[t], buffer[u])
  /\ \A k \in DOMAIN polls : /\ OnceIn(polls[k].got) /\ ToSet(polls[k].got) \cap elsewhere = {}
                             /\ Apart(polls[k].got, seen)
                             /\ \A t \in Terms : Apart(buffer[t], polls[k].got)
                             /\ \A l \in DOMAIN polls : k # l => Apart(polls[k].got, polls[l].got)
  /\ \A x : x \in Printed <=> \/ x \in elsewhere \/ x \in ToSet(seen)
                              \/ \E t \in Terms : x \in ToSet(buffer[t])
                              \/ \E k \in DOMAIN polls : x \in ToSet(polls[k].got)

LEMMA EmptyHolds == ToSet(<<>>) = {} /\ OnceIn(<<>>)
BY DEF ToSet, OnceIn

LEMMA MoreHolds ==
  ASSUME NEW S, NEW s \in Seq(S), NEW e \in S
  PROVE  /\ ToSet(Append(s, e)) = ToSet(s) \cup {e}
         /\ OnceIn(s) /\ e \notin ToSet(s) => OnceIn(Append(s, e))
<1>1. /\ Len(s) \in Nat /\ DOMAIN s = 1..Len(s)
      /\ DOMAIN Append(s, e) = 1..Len(s) + 1
      /\ \A i \in 1..Len(s) : Append(s, e)[i] = s[i]
      /\ Append(s, e)[Len(s) + 1] = e
  BY AppendProperties, LenProperties
<1>2. \A i \in 1..Len(s) + 1 : i \in 1..Len(s) \/ i = Len(s) + 1
  BY <1>1
<1>3. 1..Len(s) \subseteq 1..Len(s) + 1 /\ Len(s) + 1 \in 1..Len(s) + 1
  BY <1>1
<1>4. ToSet(Append(s, e)) = ToSet(s) \cup {e}
  BY <1>1, <1>2, <1>3 DEF ToSet
<1>5. OnceIn(s) /\ e \notin ToSet(s) => OnceIn(Append(s, e))
  BY <1>1, <1>2 DEF ToSet, OnceIn
<1>6. QED BY <1>4, <1>5

LEMMA BothHold ==
  ASSUME NEW S, NEW s \in Seq(S), NEW u \in Seq(S)
  PROVE  /\ ToSet(s \o u) = ToSet(s) \cup ToSet(u)
         /\ OnceIn(s) /\ OnceIn(u) /\ Apart(s, u) => OnceIn(s \o u)
<1> DEFINE m == Len(s)  n == Len(u)  w == s \o u
<1>1. m \in Nat /\ n \in Nat /\ DOMAIN s = 1..m /\ DOMAIN u = 1..n
  BY LenProperties
<1>2. /\ w \in Seq(S) /\ Len(w) = m + n
      /\ \A i \in 1..m + n : w[i] = IF i <= m THEN s[i] ELSE u[i - m]
  BY ConcatProperties
<1>3. DOMAIN w = 1..m + n
  BY <1>2, LenProperties
<1> HIDE DEF w, m, n
<1>4. ASSUME NEW i \in 1..m + n PROVE (i <= m /\ i \in 1..m) \/ (~(i <= m) /\ i - m \in 1..n)
  BY <1>1
<1>5. ASSUME NEW i \in 1..m PROVE i \in 1..m + n /\ i <= m
  BY <1>1
<1>6. ASSUME NEW i \in 1..n PROVE i + m \in 1..m + n /\ ~(i + m <= m) /\ i + m - m = i
  BY <1>1
<1>7. \A i \in 1..m + n : w[i] \in ToSet(s) \cup ToSet(u)
  BY <1>1, <1>2, <1>4 DEF ToSet
<1>8. \A i \in 1..m : \E j \in 1..m + n : s[i] = w[j]
  BY <1>2, <1>5
<1>9. \A i \in 1..n : \E j \in 1..m + n : u[i] = w[j]
  <2> SUFFICES ASSUME NEW i \in 1..n PROVE u[i] = w[i + m]
    BY <1>6
  <2>1. PICK j \in 1..m + n : j = i + m
    BY <1>6
  <2>2. ~(j <= m) /\ j - m = i
    BY <1>1, <1>6, <2>1
  <2>3. QED BY <1>2, <2>1, <2>2
<1>10. ToSet(w) = ToSet(s) \cup ToSet(u)
  <2>1. ToSet(w) \subseteq ToSet(s) \cup ToSet(u)
    BY <1>3, <1>7 DEF ToSet
  <2>2. ToSet(s) \subseteq ToSet(w)
    BY <1>1, <1>3, <1>8 DEF ToSet
  <2>3. ToSet(u) \subseteq ToSet(w)
    BY <1>1, <1>3, <1>9 DEF ToSet
  <2>4. QED BY <2>1, <2>2, <2>3
<1>11. ASSUME OnceIn(s), OnceIn(u), Apart(s, u), NEW i \in 1..m + n, NEW j \in 1..m + n, w[i] = w[j]
       PROVE  i = j
  <2>1. CASE i <= m /\ j <= m
    BY <1>1, <1>2, <1>4, <1>11, <2>1 DEF OnceIn
  <2>2. CASE ~(i <= m) /\ ~(j <= m)
    <3>1. i - m \in 1..n /\ j - m \in 1..n /\ u[i - m] = u[j - m]
      BY <1>2, <1>4, <1>11, <2>2
    <3>2. i - m = j - m
      BY <1>1, <1>11, <3>1 DEF OnceIn
    <3>3. QED BY <1>1, <3>2
  <2>3. CASE i <= m /\ ~(j <= m)
    BY <1>1, <1>2, <1>4, <1>11, <2>3 DEF Apart, ToSet
  <2>4. CASE ~(i <= m) /\ j <= m
    BY <1>1, <1>2, <1>4, <1>11, <2>4 DEF Apart, ToSet
  <2>5. QED BY <2>1, <2>2, <2>3, <2>4
<1>12. QED BY <1>3, <1>10, <1>11 DEF OnceIn, w

LEMMA PrintedGrows ==
  ASSUME NEW t \in Terms, printed \in [Terms -> Nat], printed' = [printed EXCEPT ![t] = @ + 1]
  PROVE  /\ <<t, printed[t] + 1>> \notin Printed
         /\ \A x : x \in Printed' <=> x \in Printed \/ x = <<t, printed[t] + 1>>
<1>1. ASSUME NEW u \in Terms, NEW n
      PROVE  n \in 1..printed'[u] <=> n \in 1..printed[u] \/ (u = t /\ n = printed[t] + 1)
  BY <1>1
<1>2. \A x : x \in Printed <=> \E u \in Terms : \E n \in 1..printed[u] : x = <<u, n>>
  BY DEF Printed
<1>3. \A x : x \in Printed' <=> \E u \in Terms : \E n \in 1..printed'[u] : x = <<u, n>>
  BY DEF Printed
<1>4. printed[t] + 1 \notin 1..printed[t]
  BY <1>1
<1>5. QED BY <1>1, <1>2, <1>3, <1>4

LEMMA OnceKept ==
  ASSUME OnceInv, UNCHANGED <<printed, buffer, polls, seen, elsewhere>>
  PROVE  OnceInv'
<1>1. Printed' = Printed
  BY DEF Printed
<1>2. QED BY <1>1 DEF OnceInv

LEMMA PrintOnce == ASSUME TermInv, OnceInv, NEW t \in Terms, Prints(t) PROVE OnceInv'
<1> DEFINE new == <<t, printed[t] + 1>>  more == Append(buffer[t], new)
<1>1. /\ printed \in [Terms -> Nat] /\ buffer[t] \in Seq(Piece(t)) /\ DOMAIN buffer = Terms
      /\ printed' = [printed EXCEPT ![t] = @ + 1]
      /\ buffer' = [buffer EXCEPT ![t] = more]
      /\ UNCHANGED <<polls, seen, elsewhere>>
  BY DEF TermInv, ShellTypes, Prints, paneVars, historyVars
<1>2. new \in Piece(t) /\ new \notin Printed /\ \A x : x \in Printed' <=> x \in Printed \/ x = new
  <2>1. new \in Piece(t)
    BY <1>1 DEF Piece
  <2>2. printed \in [Terms -> Nat] /\ printed' = [printed EXCEPT ![t] = @ + 1]
    BY <1>1
  <2>3. QED BY <2>1, <2>2, PrintedGrows
<1> HIDE DEF new
<1>3. /\ ToSet(more) = ToSet(buffer[t]) \cup {new}
      /\ OnceIn(buffer[t]) /\ new \notin ToSet(buffer[t]) => OnceIn(more)
  BY <1>1, <1>2, MoreHolds
<1> HIDE DEF more
<1>4. \A u \in Terms : buffer'[u] = IF u = t THEN more ELSE buffer[u]
  BY <1>1
<1>5. /\ new \notin elsewhere /\ new \notin ToSet(seen)
      /\ \A u \in Terms : new \notin ToSet(buffer[u])
      /\ \A k \in DOMAIN polls : new \notin ToSet(polls[k].got)
  BY <1>2 DEF OnceInv
<1>6. /\ seen' \in Seq(Pieces) /\ OnceIn(seen') /\ ToSet(seen') \cap elsewhere' = {}
  BY <1>1 DEF OnceInv
<1>7. ASSUME NEW u \in Terms
      PROVE  /\ OnceIn(buffer'[u]) /\ ToSet(buffer'[u]) \cap elsewhere' = {}
             /\ Apart(buffer'[u], seen')
             /\ \A v \in Terms : u # v => Apart(buffer'[u], buffer'[v])
  BY <1>1, <1>3, <1>4, <1>5 DEF OnceInv, Apart
<1>8. ASSUME NEW k \in DOMAIN polls
      PROVE  \A u \in Terms : Apart(buffer'[u], polls[k].got)
  BY <1>3, <1>4, <1>5 DEF OnceInv, Apart
<1>9. ASSUME NEW x
      PROVE  x \in Printed' <=> \/ x \in elsewhere \/ x \in ToSet(seen)
                                \/ \E u \in Terms : x \in ToSet(buffer'[u])
                                \/ \E k \in DOMAIN polls : x \in ToSet(polls[k].got)
  BY <1>2, <1>3, <1>4 DEF OnceInv
<1>10. QED BY <1>1, <1>6, <1>7, <1>8, <1>9 DEF OnceInv

\* Somebody else reads a buffer, or it goes with its session.
LEMMA BufferGone ==
  ASSUME TermInv, OnceInv, NEW t \in Terms, buffer' = [buffer EXCEPT ![t] = <<>>],
         elsewhere' = elsewhere \cup ToSet(buffer[t]), UNCHANGED <<printed, polls, seen>>
  PROVE  OnceInv'
<1>1. \A u \in Terms : buffer'[u] = IF u = t THEN <<>> ELSE buffer[u]
  BY DEF TermInv, ShellTypes
<1>2. Printed' = Printed
  BY DEF Printed
<1>3. /\ seen' \in Seq(Pieces) /\ OnceIn(seen') /\ ToSet(seen') \cap elsewhere' = {}
  BY DEF OnceInv, Apart
<1>4. ASSUME NEW u \in Terms
      PROVE  /\ OnceIn(buffer'[u]) /\ ToSet(buffer'[u]) \cap elsewhere' = {}
             /\ Apart(buffer'[u], seen')
             /\ \A v \in Terms : u # v => Apart(buffer'[u], buffer'[v])
  <2>1. CASE u = t
    BY <1>1, <2>1, EmptyHolds DEF Apart
  <2>2. CASE u # t
    BY <1>1, <2>2, EmptyHolds DEF OnceInv, Apart
  <2>3. QED BY <2>1, <2>2
<1>5. ASSUME NEW k \in DOMAIN polls'
      PROVE  /\ OnceIn(polls'[k].got) /\ ToSet(polls'[k].got) \cap elsewhere' = {}
             /\ Apart(polls'[k].got, seen')
             /\ \A u \in Terms : Apart(buffer'[u], polls'[k].got)
             /\ \A l \in DOMAIN polls' : k # l => Apart(polls'[k].got, polls'[l].got)
  BY <1>1, EmptyHolds DEF OnceInv, Apart
<1>6. ASSUME NEW x
      PROVE  x \in Printed' <=> \/ x \in elsewhere' \/ x \in ToSet(seen')
                                \/ \E u \in Terms : x \in ToSet(buffer'[u])
                                \/ \E k \in DOMAIN polls' : x \in ToSet(polls'[k].got)
  <2>1. x \in Printed <=> \/ x \in elsewhere \/ x \in ToSet(seen)
                          \/ \E u \in Terms : x \in ToSet(buffer[u])
                          \/ \E k \in DOMAIN polls : x \in ToSet(polls[k].got)
    BY DEF OnceInv
  <2>2. \/ x \in ToSet(buffer[t])
        \/ \E u \in Terms : x \in ToSet(buffer'[u])
        <=> \E u \in Terms : x \in ToSet(buffer[u])
    BY <1>1, EmptyHolds
  <2>3. QED BY <1>1, <1>2, <2>1, EmptyHolds
<1>7. QED BY <1>3, <1>4, <1>5, <1>6 DEF OnceInv

LEMMA ReadElsewhereOnce ==
  ASSUME TermInv, OnceInv, NEW t \in Terms, ReadElsewhere(t) PROVE OnceInv'
BY BufferGone DEF ReadElsewhere, paneVars

LEMMA OtherClosesOnce ==
  ASSUME TermInv, OnceInv, NEW t \in Terms, OtherCloses(t) PROVE OnceInv'
BY BufferGone DEF OtherCloses, paneVars

LEMMA CloseRunsOnce ==
  ASSUME TermInv, OnceInv, NEW c \in closing, CloseRuns(c) PROVE OnceInv'
<1>1. c.id \in Terms
  BY DEF TermInv, PaneTypes, Closes
<1>2. QED BY <1>1, BufferGone DEF CloseRuns

LEMMA UnmountOnce == ASSUME TermInv, OnceInv, Unmount PROVE OnceInv'
<1> DEFINE lost == UNION {ToSet(polls[i].got) : i \in DOMAIN polls}
<1>1. /\ polls' = <<>> /\ elsewhere' = elsewhere \cup lost
      /\ UNCHANGED <<printed, buffer, seen>>
  BY DEF Unmount, shellVars
<1>2. DOMAIN polls' = {}
  BY <1>1
<1>3. \A x : x \in lost <=> \E k \in DOMAIN polls : x \in ToSet(polls[k].got)
  OBVIOUS
<1> HIDE DEF lost
<1>4. Printed' = Printed
  BY <1>1 DEF Printed
<1>5. /\ seen' \in Seq(Pieces) /\ OnceIn(seen') /\ ToSet(seen') \cap elsewhere' = {}
  BY <1>1, <1>3 DEF OnceInv, Apart
<1>6. ASSUME NEW u \in Terms
      PROVE  /\ OnceIn(buffer'[u]) /\ ToSet(buffer'[u]) \cap elsewhere' = {}
             /\ Apart(buffer'[u], seen')
             /\ \A v \in Terms : u # v => Apart(buffer'[u], buffer'[v])
  BY <1>1, <1>3 DEF OnceInv, Apart
<1>7. ASSUME NEW x
      PROVE  x \in Printed' <=> \/ x \in elsewhere' \/ x \in ToSet(seen')
                                \/ \E u \in Terms : x \in ToSet(buffer'[u])
  BY <1>1, <1>3, <1>4 DEF OnceInv
<1>8. QED BY <1>2, <1>5, <1>6, <1>7 DEF OnceInv

LEMMA PollOnce == ASSUME TermInv, OnceInv, Poll PROVE OnceInv'
<1> DEFINE x == [id |-> poller, got |-> buffer[poller]]  n == Len(polls)
<1>0. poller \in Terms /\ polls \in Seq(Reads) /\ n \in Nat /\ DOMAIN polls = 1..n
  BY LenProperties DEF Poll, TermInv, PaneTypes, SomeTerm
<1>1. buffer[poller] \in Seq(Piece(poller)) /\ buffer[poller] \in Seq(Pieces)
  BY <1>0, PieceTypes DEF TermInv, ShellTypes
<1>2. x \in Reads /\ x.got = buffer[poller]
  BY <1>0, <1>1 DEF Reads
<1>3. /\ polls' = Append(polls, x) /\ buffer' = [buffer EXCEPT ![poller] = <<>>]
      /\ UNCHANGED <<printed, seen, elsewhere>>
  BY DEF Poll, historyVars
<1> HIDE DEF x
<1>4. /\ DOMAIN polls' = 1..n + 1 /\ polls'[n + 1] = x
      /\ \A i \in 1..n : polls'[i] = polls[i]
  BY <1>0, <1>2, <1>3, AppendProperties, LenProperties
<1>5. \A k \in 1..n + 1 : k \in 1..n \/ k = n + 1
  BY <1>0
<1>6. \A k \in 1..n : k \in 1..n + 1 /\ k # n + 1
  BY <1>0
<1>7. n + 1 \in 1..n + 1
  BY <1>0
<1> HIDE DEF n
<1>8. \A u \in Terms : buffer'[u] = IF u = poller THEN <<>> ELSE buffer[u]
  BY <1>3 DEF TermInv, ShellTypes
<1>9. Printed' = Printed
  BY <1>3 DEF Printed
<1>10. /\ seen' \in Seq(Pieces) /\ OnceIn(seen') /\ ToSet(seen') \cap elsewhere' = {}
  BY <1>3 DEF OnceInv
<1>11. ASSUME NEW u \in Terms
       PROVE  /\ OnceIn(buffer'[u]) /\ ToSet(buffer'[u]) \cap elsewhere' = {}
              /\ Apart(buffer'[u], seen')
              /\ \A v \in Terms : u # v => Apart(buffer'[u], buffer'[v])
  <2>1. CASE u = poller
    BY <1>8, <2>1, EmptyHolds DEF Apart
  <2>2. CASE u # poller
    <3>1. buffer'[u] = buffer[u] /\ seen' = seen /\ elsewhere' = elsewhere
      BY <1>3, <1>8, <2>2
    <3>2. /\ OnceIn(buffer[u]) /\ ToSet(buffer[u]) \cap elsewhere = {} /\ Apart(buffer[u], seen)
          /\ \A v \in Terms : u # v => Apart(buffer[u], buffer[v])
      BY DEF OnceInv
    <3>3. \A v \in Terms : u # v => Apart(buffer[u], buffer'[v])
      BY <1>8, <3>2, EmptyHolds DEF Apart
    <3>4. QED BY <3>1, <3>2, <3>3
  <2>3. QED BY <2>1, <2>2
<1>12. ASSUME NEW k \in 1..n + 1
       PROVE  /\ OnceIn(polls'[k].got) /\ ToSet(polls'[k].got) \cap elsewhere' = {}
              /\ Apart(polls'[k].got, seen')
              /\ \A u \in Terms : Apart(buffer'[u], polls'[k].got)
              /\ \A l \in 1..n + 1 : k # l => Apart(polls'[k].got, polls'[l].got)
  <2>1. CASE k \in 1..n
    <3>1. /\ OnceIn(polls[k].got) /\ ToSet(polls[k].got) \cap elsewhere = {}
          /\ Apart(polls[k].got, seen)
          /\ \A t \in Terms : Apart(buffer[t], polls[k].got)
          /\ \A l \in 1..n : k # l => Apart(polls[k].got, polls[l].got)
      BY <1>0, <2>1 DEF OnceInv
    <3>2. \A u \in Terms : Apart(buffer'[u], polls'[k].got)
      BY <1>4, <1>8, <2>1, <3>1, EmptyHolds DEF Apart
    <3>3. Apart(polls'[k].got, x.got)
      BY <1>0, <1>2, <1>4, <2>1, <3>1 DEF Apart
    <3>4. QED BY <1>3, <1>4, <1>5, <2>1, <3>1, <3>2, <3>3
  <2>2. CASE k = n + 1
    <3>1. /\ OnceIn(x.got) /\ ToSet(x.got) \cap elsewhere = {} /\ Apart(x.got, seen)
          /\ \A v \in Terms : poller # v => Apart(x.got, buffer[v])
      BY <1>0, <1>2 DEF OnceInv
    <3>2. \A u \in Terms : Apart(buffer'[u], x.got)
      BY <1>8, <3>1, EmptyHolds DEF Apart
    <3>3. \A l \in 1..n : Apart(x.got, polls[l].got)
      BY <1>0, <1>2 DEF OnceInv, Apart
    <3>4. QED BY <1>3, <1>4, <1>5, <2>2, <3>1, <3>2, <3>3
  <2>3. QED BY <1>5, <2>1, <2>2
<1>13. ASSUME NEW y
       PROVE  y \in Printed' <=> \/ y \in elsewhere' \/ y \in ToSet(seen')
                                 \/ \E u \in Terms : y \in ToSet(buffer'[u])
                                 \/ \E k \in 1..n + 1 : y \in ToSet(polls'[k].got)
  <2>1. y \in Printed <=> \/ y \in elsewhere \/ y \in ToSet(seen)
                          \/ \E u \in Terms : y \in ToSet(buffer[u])
                          \/ \E k \in 1..n : y \in ToSet(polls[k].got)
    BY <1>0 DEF OnceInv
  <2>2. (\E k \in 1..n + 1 : y \in ToSet(polls'[k].got))
          <=> (\E k \in 1..n : y \in ToSet(polls[k].got)) \/ y \in ToSet(buffer[poller])
    BY <1>2, <1>4, <1>5, <1>6, <1>7
  <2>3. (\E u \in Terms : y \in ToSet(buffer'[u])) \/ y \in ToSet(buffer[poller])
          <=> \E u \in Terms : y \in ToSet(buffer[u])
    BY <1>0, <1>8, EmptyHolds
  <2>4. QED BY <1>3, <1>9, <2>1, <2>2, <2>3
<1>14. QED BY <1>4, <1>10, <1>11, <1>12, <1>13 DEF OnceInv

LEMMA AnswerOnce == ASSUME TermInv, OnceInv, NEW k, PollAnswered(k) PROVE OnceInv'
<1> DEFINE got == polls[k].got  n == Len(polls)
           from(i) == IF i < k THEN i ELSE i + 1
<1>0. polls \in Seq(Reads) /\ n \in Nat /\ DOMAIN polls = 1..n
  BY LenProperties DEF TermInv, PaneTypes
<1>1. k \in 1..n
  BY <1>0 DEF PollAnswered
<1>2. got \in Seq(Pieces)
  <2>1. polls[k] \in Reads
    BY <1>0, <1>1, ElementOfSeq
  <2>2. QED BY <2>1 DEF Reads
<1>3. /\ seen' = seen \o got /\ polls' = RemoveAt(polls, k)
      /\ UNCHANGED <<printed, buffer, elsewhere>>
  BY DEF PollAnswered, shellVars
<1>4. /\ polls' \in Seq(Reads) /\ Len(polls') = n - 1
      /\ \A i \in 1..n - 1 : polls'[i] = IF i < k THEN polls[i] ELSE polls[i + 1]
  BY <1>0, <1>1, <1>3, Removed
<1>5. DOMAIN polls' = 1..n - 1 /\ \A i \in 1..n - 1 : polls'[i] = polls[from(i)]
  BY <1>4, LenProperties
<1>6. /\ \A i \in 1..n - 1 : from(i) \in 1..n /\ from(i) # k
      /\ \A i, j \in 1..n - 1 : i # j => from(i) # from(j)
  BY <1>0, <1>1
<1>7. \A j \in 1..n : j # k => \E i \in 1..n - 1 : from(i) = j
  <2> SUFFICES ASSUME NEW j \in 1..n, j # k PROVE \E i \in 1..n - 1 : from(i) = j
    OBVIOUS
  <2>1. CASE j < k
    <3>1. j \in 1..n - 1 /\ from(j) = j
      BY <1>0, <1>1, <2>1
    <3>2. QED BY <3>1
  <2>2. CASE ~(j < k)
    <3>1. j - 1 \in 1..n - 1 /\ from(j - 1) = j
      BY <1>0, <1>1, <2>2
    <3>2. QED BY <3>1
  <2>3. QED BY <2>1, <2>2
<1> HIDE DEF from, n
<1>8. /\ OnceIn(seen) /\ OnceIn(got) /\ Apart(seen, got) /\ seen \in Seq(Pieces)
      /\ ToSet(seen) \cap elsewhere = {} /\ ToSet(got) \cap elsewhere = {}
  BY <1>0, <1>1 DEF OnceInv, Apart
<1>9. /\ \A t \in Terms : Apart(buffer[t], got) /\ Apart(buffer[t], seen)
      /\ \A l \in 1..n : l # k => Apart(polls[l].got, got) /\ Apart(polls[l].got, seen)
  BY <1>0, <1>1 DEF OnceInv
<1> HIDE DEF got
<1>10. /\ seen' \in Seq(Pieces) /\ ToSet(seen') = ToSet(seen) \cup ToSet(got) /\ OnceIn(seen')
  BY <1>2, <1>3, <1>8, BothHold, ConcatProperties
<1>11. ToSet(seen') \cap elsewhere' = {}
  BY <1>3, <1>8, <1>10
<1>12. Printed' = Printed
  BY <1>3 DEF Printed
<1>13. ASSUME NEW u \in Terms
       PROVE  /\ OnceIn(buffer'[u]) /\ ToSet(buffer'[u]) \cap elsewhere' = {}
              /\ Apart(buffer'[u], seen')
              /\ \A v \in Terms : u # v => Apart(buffer'[u], buffer'[v])
  <2>1. Apart(buffer'[u], seen')
    BY <1>3, <1>9, <1>10 DEF Apart
  <2>2. QED BY <1>3, <2>1 DEF OnceInv
<1>14. ASSUME NEW i \in 1..n - 1
       PROVE  /\ OnceIn(polls'[i].got) /\ ToSet(polls'[i].got) \cap elsewhere' = {}
              /\ Apart(polls'[i].got, seen')
              /\ \A u \in Terms : Apart(buffer'[u], polls'[i].got)
              /\ \A l \in 1..n - 1 : i # l => Apart(polls'[i].got, polls'[l].got)
  <2>1. PICK j \in 1..n : j = from(i) /\ j # k /\ polls'[i] = polls[j]
    BY <1>5, <1>6
  <2>2. /\ OnceIn(polls[j].got) /\ ToSet(polls[j].got) \cap elsewhere = {}
        /\ \A u \in Terms : Apart(buffer[u], polls[j].got)
        /\ \A l \in 1..n : j # l => Apart(polls[j].got, polls[l].got)
    BY <1>0 DEF OnceInv
  <2>3. Apart(polls[j].got, seen')
    BY <1>9, <1>10, <2>1 DEF Apart
  <2>4. \A l \in 1..n - 1 : i # l => Apart(polls[j].got, polls'[l].got)
    BY <1>5, <1>6, <2>1, <2>2
  <2>5. QED BY <1>3, <2>1, <2>2, <2>3, <2>4
<1>15. ASSUME NEW y
       PROVE  y \in Printed' <=> \/ y \in elsewhere' \/ y \in ToSet(seen')
                                 \/ \E u \in Terms : y \in ToSet(buffer'[u])
                                 \/ \E i \in 1..n - 1 : y \in ToSet(polls'[i].got)
  <2>1. y \in Printed <=> \/ y \in elsewhere \/ y \in ToSet(seen)
                          \/ \E u \in Terms : y \in ToSet(buffer[u])
                          \/ \E i \in 1..n : y \in ToSet(polls[i].got)
    BY <1>0 DEF OnceInv
  <2>2. (\E i \in 1..n : y \in ToSet(polls[i].got))
          <=> (\E i \in 1..n - 1 : y \in ToSet(polls'[i].got)) \/ y \in ToSet(got)
    BY <1>1, <1>5, <1>6, <1>7 DEF got
  <2>3. QED BY <1>3, <1>10, <1>12, <2>1, <2>2
<1>16. QED BY <1>5, <1>10, <1>11, <1>13, <1>14, <1>15 DEF OnceInv

LEMMA OnceInit == TerminalsInit => OnceInv
<1> SUFFICES ASSUME TerminalsInit PROVE OnceInv
  OBVIOUS
<1>1. /\ printed = [t \in Terms |-> 0] /\ buffer = [t \in Terms |-> <<>>] /\ polls = <<>>
      /\ seen = <<>> /\ elsewhere = {}
  BY DEF TerminalsInit
<1>2. seen \in Seq(Pieces) /\ DOMAIN polls = {}
  BY <1>1
<1>3. ToSet(seen) = {} /\ OnceIn(seen) /\ \A t \in Terms : ToSet(buffer[t]) = {} /\ OnceIn(buffer[t])
  BY <1>1, EmptyHolds
<1>4. \A x : x \notin Printed
  <2>1. \A t \in Terms : 1..printed[t] = {}
    BY <1>1
  <2>2. QED BY <2>1 DEF Printed
<1>5. QED BY <1>1, <1>2, <1>3, <1>4 DEF OnceInv, Apart

LEMMA OnceStep == TermInv /\ OnceInv /\ [TerminalsNext]_terminalVars => OnceInv'
<1> SUFFICES ASSUME TermInv, OnceInv, [TerminalsNext]_terminalVars PROVE OnceInv'
  OBVIOUS
<1>1. CASE UNCHANGED <<printed, buffer, polls, seen, elsewhere>>
  BY <1>1, OnceKept
<1>2. ASSUME NEW t \in Terms, Prints(t) \/ ReadElsewhere(t) \/ OtherCloses(t) PROVE OnceInv'
  BY <1>2, PrintOnce, ReadElsewhereOnce, OtherClosesOnce
<1>3. ASSUME NEW c \in closing, CloseRuns(c) PROVE OnceInv'
  BY <1>3, CloseRunsOnce
<1>4. CASE Unmount
  BY <1>4, UnmountOnce
<1>5. CASE Poll
  BY <1>5, PollOnce
<1>6. ASSUME NEW k, PollAnswered(k) PROVE OnceInv'
  BY <1>6, AnswerOnce
<1>7. QED
  BY <1>1, <1>2, <1>3, <1>4, <1>5, <1>6
  DEF TerminalsNext, terminalVars, shellVars, historyVars, paneVars, OtherCreates, Mount, ListRead, Listed,
      CreateTerminal, CreateRuns, CreateAnswered, Switch, Choose, CloseTerminal, CloseAnswered

LEMMA OnceIsEnough == TermInv /\ OnceInv => OutputOnce
<1> SUFFICES ASSUME TermInv, OnceInv PROVE OutputOnce
  OBVIOUS
<1> DEFINE held == Held
           pieces == UNION {ToSet(held[place]) : place \in DOMAIN held}
<1>1. /\ \A p \in DOMAIN held : \/ \E t \in Terms : p = <<"buffer", t>>
                                \/ \E k \in DOMAIN polls : p = <<"poll", k>>
                                \/ p = <<"screen", 0>>
      /\ \A t \in Terms : <<"buffer", t>> \in DOMAIN held /\ held[<<"buffer", t>>] = buffer[t]
      /\ \A k \in DOMAIN polls : <<"poll", k>> \in DOMAIN held /\ held[<<"poll", k>>] = polls[k].got
      /\ <<"screen", 0>> \in DOMAIN held /\ held[<<"screen", 0>>] = seen
  BY DEF Held
<1> HIDE DEF held
<1>2. ASSUME NEW p \in DOMAIN held
      PROVE  OnceIn(held[p]) /\ ToSet(held[p]) \cap elsewhere = {}
  BY <1>1 DEF OnceInv
<1>3. ASSUME NEW p \in DOMAIN held, NEW q \in DOMAIN held, p # q PROVE Apart(held[p], held[q])
  <2>1. /\ \A t, u \in Terms : t # u => Apart(buffer[t], buffer[u])
        /\ \A t \in Terms : Apart(buffer[t], seen) /\ Apart(seen, buffer[t])
        /\ \A k \in DOMAIN polls : /\ Apart(polls[k].got, seen) /\ Apart(seen, polls[k].got)
                                   /\ \A t \in Terms : /\ Apart(buffer[t], polls[k].got)
                                                       /\ Apart(polls[k].got, buffer[t])
        /\ \A k, l \in DOMAIN polls : k # l => Apart(polls[k].got, polls[l].got)
    BY DEF OnceInv, Apart
  <2>2. ASSUME NEW t \in Terms, p = <<"buffer", t>> PROVE Apart(held[p], held[q])
    <3>1. held[p] = buffer[t]
      BY <1>1, <2>2
    <3>2. CASE \E u \in Terms : q = <<"buffer", u>>
      BY <1>1, <1>3, <2>1, <2>2, <3>1, <3>2
    <3>3. CASE \E k \in DOMAIN polls : q = <<"poll", k>>
      BY <1>1, <2>1, <3>1, <3>3
    <3>4. CASE q = <<"screen", 0>>
      BY <1>1, <2>1, <3>1, <3>4
    <3>5. QED BY <1>1, <3>2, <3>3, <3>4
  <2>3. ASSUME NEW k \in DOMAIN polls, p = <<"poll", k>> PROVE Apart(held[p], held[q])
    <3>1. held[p] = polls[k].got
      BY <1>1, <2>3
    <3>2. CASE \E u \in Terms : q = <<"buffer", u>>
      BY <1>1, <2>1, <3>1, <3>2
    <3>3. CASE \E l \in DOMAIN polls : q = <<"poll", l>>
      BY <1>1, <1>3, <2>1, <2>3, <3>1, <3>3
    <3>4. CASE q = <<"screen", 0>>
      BY <1>1, <2>1, <3>1, <3>4
    <3>5. QED BY <1>1, <3>2, <3>3, <3>4
  <2>4. CASE p = <<"screen", 0>>
    BY <1>1, <1>3, <2>1, <2>4
  <2>5. QED BY <1>1, <2>2, <2>3, <2>4
<1>4. \A p, q \in DOMAIN held : \A i \in DOMAIN held[p], j \in DOMAIN held[q] :
        held[p][i] = held[q][j] => p = q /\ i = j
  BY <1>2, <1>3 DEF OnceIn, Apart, ToSet
<1>5. pieces \cap elsewhere = {}
  BY <1>2
<1>6. \A x : x \in pieces <=> \/ x \in ToSet(seen) \/ \E t \in Terms : x \in ToSet(buffer[t])
                              \/ \E k \in DOMAIN polls : x \in ToSet(polls[k].got)
  <2>1. \A x : x \in pieces <=> \E p \in DOMAIN held : x \in ToSet(held[p])
    OBVIOUS
  <2> HIDE DEF pieces
  <2>2. ASSUME NEW x, x \in pieces
        PROVE  \/ x \in ToSet(seen) \/ \E t \in Terms : x \in ToSet(buffer[t])
               \/ \E k \in DOMAIN polls : x \in ToSet(polls[k].got)
    <3>1. PICK p \in DOMAIN held : x \in ToSet(held[p])
      BY <2>1, <2>2
    <3>2. CASE \E t \in Terms : p = <<"buffer", t>>
      BY <1>1, <3>1, <3>2
    <3>3. CASE \E k \in DOMAIN polls : p = <<"poll", k>>
      BY <1>1, <3>1, <3>3
    <3>4. CASE p = <<"screen", 0>>
      BY <1>1, <3>1, <3>4
    <3>5. QED BY <1>1, <3>2, <3>3, <3>4
  <2>3. ASSUME NEW t \in Terms PROVE ToSet(buffer[t]) \subseteq pieces
    BY <1>1, <2>1
  <2>4. ASSUME NEW k \in DOMAIN polls PROVE ToSet(polls[k].got) \subseteq pieces
    BY <1>1, <2>1
  <2>5. ToSet(seen) \subseteq pieces
    BY <1>1, <2>1
  <2>6. QED BY <2>2, <2>3, <2>4, <2>5
<1>7. pieces \cup elsewhere = Printed
  BY <1>6 DEF OnceInv
<1>8. QED BY <1>4, <1>5, <1>7 DEF OutputOnce, Printed, held

\* Output is neither shown twice nor lost: every piece a shell printed is in one place,
\* for any number of sessions, prints, polls in flight and openings of the pane.
THEOREM ShownOnce == TerminalsSpec => []OutputOnce
<1>1. TerminalsSpec => []OnceInv
  BY OnceInit, OnceStep, TermInvariant, PTL DEF TerminalsSpec
<1>2. QED BY <1>1, OnceIsEnough, TermInvariant, PTL
==============================================================================
