-------------------------- MODULE PlanStepsProofs --------------------------
(* What holds of PlanSteps for every set of assets, sessions and plans.    *)
EXTENDS PlanSteps, WellFoundedInduction, TLAPS

-----------------------------------------------------------------------------
(* The tables.  A handler asks for no parameter but those that the schema  *)
(* of its capability requires, and never for the list.                     *)
LEMMA HandlersAskForRequired ==
    \A h \in HANDLERS : \A s \in CAPABILITIES :
        s.id = h.id => h.params \cup h.named \subseteq s.required \ {"asset_ids"}
<1> DEFINE Asks(hs) == \A h \in hs : \A s \in CAPABILITIES :
               s.id = h.id => h.params \cup h.named \subseteq s.required \ {"asset_ids"}
<1> USE DEF CAPABILITIES, HostedSpecs, VideoSpecs, ImageSpecs, AudioSpecs, ComposeSpecs,
            DetectSpecs, Local, Declared, Handled, WithNamed, NoneRequired
<1>1. Asks(VideoHandlers)
      BY SMTT(60) DEF VideoHandlers
<1>2. Asks(ImageHandlers)
      BY SMTT(60) DEF ImageHandlers
<1>3. Asks(AudioHandlers)
      BY SMTT(60) DEF AudioHandlers
<1>4. Asks(ComposeHandlers)
      BY SMTT(60) DEF ComposeHandlers
<1>5. Asks(ProviderHandlers)
      BY SMTT(60) DEF ProviderHandlers
<1> HIDE DEF CAPABILITIES
<1> QED
    BY <1>1, <1>2, <1>3, <1>4, <1>5 DEF HANDLERS

(* Every capability takes some media type.                                 *)
LEMMA MediaNamed == \A s \in CAPABILITIES : s.media # {}
<1> DEFINE Takers(specs) == \A s \in specs : s.media # {}
<1> USE DEF Local, Declared, NoneRequired
<1>1. Takers(HostedSpecs)
      BY DEF HostedSpecs
<1>2. Takers(VideoSpecs)
      BY DEF VideoSpecs
<1>3. Takers(ImageSpecs) /\ Takers(AudioSpecs) /\ Takers(DetectSpecs)
      BY DEF ImageSpecs, AudioSpecs, DetectSpecs
<1>4. Takers(ComposeSpecs)
      BY DEF ComposeSpecs
<1> QED
    BY <1>1, <1>2, <1>3, <1>4 DEF CAPABILITIES

(* What a handler makes is some medium.                                    *)
LEMMA HandlersMakeMedia == \A h \in HANDLERS : h.makes \subseteq Media
<1> DEFINE MakeMedia(hs) == \A h \in hs : h.makes \subseteq Media
<1> USE DEF Handled, WithNamed, NoneRequired, Media
<1>1. MakeMedia(VideoHandlers) /\ MakeMedia(ImageHandlers) /\ MakeMedia(AudioHandlers)
      BY DEF VideoHandlers, ImageHandlers, AudioHandlers
<1>2. MakeMedia(ComposeHandlers) /\ MakeMedia(ProviderHandlers)
      BY DEF ComposeHandlers, ProviderHandlers
<1> QED
    BY <1>1, <1>2 DEF HANDLERS

(* A capability that the registry has is one of the definitions.           *)
LEMMA RegisteredIsDefined ==
    ASSUME NEW c \in DOMAIN CAPABILITIES_BY_ID
    PROVE  CAPABILITIES_BY_ID[c] \in CAPABILITIES /\ CAPABILITIES_BY_ID[c].id = c
<1>1. \E s \in CAPABILITIES : s.id = c
      BY DEF CAPABILITIES_BY_ID
<1> HIDE DEF CAPABILITIES
<1> QED
    BY <1>1 DEF CAPABILITIES_BY_ID

(* A handler misses no parameter of an input that satisfies the schema.    *)
LEMMA RequiredIsEnough ==
    ASSUME NEW c \in DOMAIN CAPABILITIES_BY_ID
    PROVE  /\ Handler(c).params \subseteq CAPABILITIES_BY_ID[c].required \ {"asset_ids"}
           /\ Handler(c).named \subseteq CAPABILITIES_BY_ID[c].required \ {"asset_ids"}
<1>1. CASE \E h \in HANDLERS : h.id = c
  <2>1. Handler(c) \in HANDLERS /\ Handler(c).id = c
        BY <1>1 DEF Handler
  <2> QED
      BY <2>1, RegisteredIsDefined, HandlersAskForRequired
<1>2. CASE ~\E h \in HANDLERS : h.id = c
      BY <1>2 DEF Handler, NotImplemented
<1> QED
    BY <1>1, <1>2

(* A local capability's definition, and a handler's row.                   *)
Definition(c, media, required) ==
    [id |-> c, cost_class |-> "deterministic", media |-> media, required |-> required]

Wants(c, paths, params, makes) ==
    [id |-> c, paths |-> paths, params |-> params, named |-> {}, makes |-> makes]

(* Whatever has that id is the same in what is looked at.                  *)
OneDefinition(spec) ==
    \A s \in CAPABILITIES : s.id = spec.id =>
        s.cost_class = spec.cost_class /\ s.media = spec.media /\ s.required = spec.required

OneHandler(handler) ==
    \A h \in HANDLERS : h.id = handler.id => h.paths = handler.paths /\ h.named = handler.named

(* What is then found by the capability's id.                              *)
Known(c, media, required, paths) ==
    /\ c \in Offered(TRUE) \cap Offered(FALSE)
    /\ CAPABILITIES_BY_ID[c].media = media
    /\ CAPABILITIES_BY_ID[c].required = required
    /\ Handler(c).paths = paths /\ Handler(c).named = {}

(* What the tables have of a capability is what is found under its id.     *)
LEMMA ListedIsKnown ==
    ASSUME NEW c, NEW media, NEW required, NEW paths, NEW params, NEW makes,
           Definition(c, media, required) \in CAPABILITIES,
           OneDefinition(Definition(c, media, required)),
           Wants(c, paths, params, makes) \in HANDLERS,
           OneHandler(Wants(c, paths, params, makes))
    PROVE  Known(c, media, required, paths)
<1>1. c \in DOMAIN CAPABILITIES_BY_ID
      BY DEF Definition, CAPABILITIES_BY_ID
<1>2. Handler(c) \in HANDLERS /\ Handler(c).id = c
      BY DEF Wants, Handler
<1> QED
    BY <1>1, <1>2, RegisteredIsDefined
    DEF OneDefinition, Definition, OneHandler, Wants, Known, Offered

(* A row of a group is a handler's.                                        *)
LEMMA RowIsHandled ==
    ASSUME NEW makes, NEW paths, NEW rows, NEW c, NEW params, <<c, params>> \in rows
    PROVE  Wants(c, paths, params, makes) \in Handled(makes, paths, rows)
<1>1. PICK r \in rows : r = <<c, params>>
      OBVIOUS
<1>2. [id |-> r[1], paths |-> paths, params |-> r[2], named |-> {}, makes |-> makes]
          \in Handled(makes, paths, rows)
      BY DEF Handled
<1> QED
    BY <1>1, <1>2 DEF Wants

(* The capabilities that the mock planner uses.                            *)
LEMMA MockCapabilities ==
    /\ Known("media.titlecard", {"video"}, {"text"}, 0)
    /\ Known("image.slideshow", {"image"}, {"asset_ids"}, 1)
    /\ Known("video.compose", {"video"}, {"asset_ids"}, 1)
    /\ Known("video.thumbnail", {"video"}, {"timestamp"}, 1)
    /\ Known("video.mute", {"video"}, {}, 1)
    /\ Known("video.resize", {"video"}, Size, 1)
<1>1. /\ Definition("media.titlecard", {"video"}, {"text"}) \in CAPABILITIES
      /\ Definition("image.slideshow", {"image"}, {"asset_ids"}) \in CAPABILITIES
      /\ Definition("video.compose", {"video"}, {"asset_ids"}) \in CAPABILITIES
      /\ Definition("video.thumbnail", {"video"}, {"timestamp"}) \in CAPABILITIES
      /\ Definition("video.mute", {"video"}, {}) \in CAPABILITIES
      /\ Definition("video.resize", {"video"}, Size) \in CAPABILITIES
  <2>1. /\ Definition("media.titlecard", {"video"}, {"text"}) \in ComposeSpecs
        /\ Definition("image.slideshow", {"image"}, {"asset_ids"}) \in ComposeSpecs
        /\ Definition("video.compose", {"video"}, {"asset_ids"}) \in ComposeSpecs
        BY DEF ComposeSpecs, Local, Declared, Definition
  <2>2. /\ Definition("video.thumbnail", {"video"}, {"timestamp"}) \in VideoSpecs
        /\ Definition("video.mute", {"video"}, {}) \in VideoSpecs
        /\ Definition("video.resize", {"video"}, Size) \in VideoSpecs
        BY DEF VideoSpecs, Local, Declared, Definition, Size
  <2> QED
      BY <2>1, <2>2 DEF CAPABILITIES
<1>2. /\ OneDefinition(Definition("media.titlecard", {"video"}, {"text"}))
      /\ OneDefinition(Definition("image.slideshow", {"image"}, {"asset_ids"}))
      /\ OneDefinition(Definition("video.compose", {"video"}, {"asset_ids"}))
      /\ OneDefinition(Definition("video.thumbnail", {"video"}, {"timestamp"}))
      /\ OneDefinition(Definition("video.mute", {"video"}, {}))
      /\ OneDefinition(Definition("video.resize", {"video"}, Size))
  <2> USE DEF OneDefinition, Definition, CAPABILITIES, HostedSpecs, VideoSpecs, ImageSpecs,
              AudioSpecs, ComposeSpecs, DetectSpecs, Local, Declared, NoneRequired, Size
  <2>1. OneDefinition(Definition("media.titlecard", {"video"}, {"text"}))
        BY SMTT(60)
  <2>2. OneDefinition(Definition("image.slideshow", {"image"}, {"asset_ids"}))
        BY SMTT(60)
  <2>3. OneDefinition(Definition("video.compose", {"video"}, {"asset_ids"}))
        BY SMTT(60)
  <2>4. OneDefinition(Definition("video.thumbnail", {"video"}, {"timestamp"}))
        BY SMTT(60)
  <2>5. OneDefinition(Definition("video.mute", {"video"}, {}))
        BY SMTT(60)
  <2>6. OneDefinition(Definition("video.resize", {"video"}, Size))
        BY SMTT(60)
  <2> HIDE DEF OneDefinition
  <2> QED
      BY <2>1, <2>2, <2>3, <2>4, <2>5, <2>6
<1>3. /\ Wants("media.titlecard", 0, {"text"}, {"video"}) \in HANDLERS
      /\ Wants("image.slideshow", 1, {}, {"video"}) \in HANDLERS
      /\ Wants("video.compose", 1, {}, {"video"}) \in HANDLERS
      /\ Wants("video.thumbnail", 1, {"timestamp"}, {"image"}) \in HANDLERS
      /\ Wants("video.mute", 1, {}, {"video"}) \in HANDLERS
      /\ Wants("video.resize", 1, Size, {"video"}) \in HANDLERS
  <2>1. Wants("media.titlecard", 0, {"text"}, {"video"}) \in ComposeHandlers
        BY DEF ComposeHandlers, Handled, Wants
  <2>2. /\ <<"image.slideshow", {}>> \in NoneRequired({"image.slideshow", "video.compose"})
        /\ <<"video.compose", {}>> \in NoneRequired({"image.slideshow", "video.compose"})
        BY DEF NoneRequired
  <2>3. /\ Wants("image.slideshow", 1, {}, {"video"}) \in ComposeHandlers
        /\ Wants("video.compose", 1, {}, {"video"}) \in ComposeHandlers
        BY <2>2, RowIsHandled DEF ComposeHandlers
  <2>4. /\ Wants("video.thumbnail", 1, {"timestamp"}, {"image"}) \in VideoHandlers
        /\ Wants("video.mute", 1, {}, {"video"}) \in VideoHandlers
        /\ Wants("video.resize", 1, Size, {"video"}) \in VideoHandlers
        BY DEF VideoHandlers, Handled, Wants, Size
  <2> QED
      BY <2>1, <2>2, <2>3, <2>4 DEF HANDLERS
<1>4. /\ OneHandler(Wants("media.titlecard", 0, {"text"}, {"video"}))
      /\ OneHandler(Wants("image.slideshow", 1, {}, {"video"}))
      /\ OneHandler(Wants("video.compose", 1, {}, {"video"}))
      /\ OneHandler(Wants("video.thumbnail", 1, {"timestamp"}, {"image"}))
      /\ OneHandler(Wants("video.mute", 1, {}, {"video"}))
      /\ OneHandler(Wants("video.resize", 1, Size, {"video"}))
  <2> USE DEF OneHandler, Wants, HANDLERS, VideoHandlers, ImageHandlers, AudioHandlers,
              ComposeHandlers, ProviderHandlers, Handled, WithNamed, NoneRequired
  <2>1. OneHandler(Wants("media.titlecard", 0, {"text"}, {"video"}))
        BY SMTT(60)
  <2>2. OneHandler(Wants("image.slideshow", 1, {}, {"video"}))
        BY SMTT(60)
  <2>3. OneHandler(Wants("video.compose", 1, {}, {"video"}))
        BY SMTT(60)
  <2>4. OneHandler(Wants("video.thumbnail", 1, {"timestamp"}, {"image"}))
        BY SMTT(60)
  <2>5. OneHandler(Wants("video.mute", 1, {}, {"video"}))
        BY SMTT(60)
  <2>6. OneHandler(Wants("video.resize", 1, Size, {"video"}))
        BY SMTT(60)
  <2> HIDE DEF OneHandler
  <2> QED
      BY <2>1, <2>2, <2>3, <2>4, <2>5, <2>6
<1> QED
    BY <1>1, <1>2, <1>3, <1>4, ListedIsKnown

-----------------------------------------------------------------------------
(* The elements of a sequence.                                             *)
LEMMA SequenceElements ==
    ASSUME NEW S, NEW s \in Seq(S)
    PROVE  /\ \A i \in DOMAIN s : s[i] \in S /\ s[i] \in Elements(s)
           /\ Elements(s) \subseteq S
           /\ s # <<>> => 1 \in DOMAIN s
BY DEF Elements

(* The assets of a session's scope are assets that exist.                  *)
LEMMA ScopeAssets ==
    ASSUME NEW s \in Sessions, NEW media \in Media
    PROVE  /\ InScope(s, media) \in Seq(Value)
           /\ \A v \in Elements(InScope(s, media)) :
                 /\ v \in Value \ {Blank} /\ ~IsRef(v) /\ v # None
                 /\ v[2] \in DOMAIN MediaOf /\ MediaOf[v[2]] = media
           /\ InScope(s, media) # <<>> => InScope(s, media)[1] \in Elements(InScope(s, media))
<1> DEFINE ids == s.scope[media]
<1>1. ids \in Seq(DOMAIN MediaOf) /\ \A a \in Elements(ids) : MediaOf[a] = media
      BY SessionsAssumption
<1>2. \A i \in DOMAIN ids :
          /\ Asset(ids[i]) \in Value \ {Blank} /\ ~IsRef(Asset(ids[i])) /\ Asset(ids[i]) # None
          /\ ids[i] \in DOMAIN MediaOf /\ MediaOf[ids[i]] = media
  <2> SUFFICES ASSUME NEW i \in DOMAIN ids
               PROVE  /\ Asset(ids[i]) \in Value \ {Blank}
                      /\ ~IsRef(Asset(ids[i])) /\ Asset(ids[i]) # None
                      /\ ids[i] \in DOMAIN MediaOf /\ MediaOf[ids[i]] = media
      OBVIOUS
  <2>1. ids[i] \in DOMAIN MediaOf /\ ids[i] \in Literal \ {""} /\ MediaOf[ids[i]] = media
    <3> HIDE DEF ids
    <3>1. ids[i] \in DOMAIN MediaOf /\ ids[i] \in Elements(ids)
          BY <1>1, SequenceElements
    <3> QED
        BY <1>1, <3>1, MediaAssumption
  <2>2. <<"asset", ids[i]>> \in Value
        BY <2>1 DEF Value
  <2>3. <<"asset", ids[i]>> # <<"asset", "">> /\ <<"asset", ids[i]>> # <<"none">>
        BY <2>1
  <2> QED
      BY <2>1, <2>2, <2>3 DEF Asset, Blank, IsRef, None
<1>3. InScope(s, media) = [i \in 1..Len(ids) |-> Asset(ids[i])] /\ Len(ids) \in Nat
      BY <1>1 DEF InScope
<1>4. InScope(s, media) \in Seq(Value)
      BY <1>2, <1>3, <1>1
<1>5. \A v \in Elements(InScope(s, media)) :
                 /\ v \in Value \ {Blank} /\ ~IsRef(v) /\ v # None
                 /\ v[2] \in DOMAIN MediaOf /\ MediaOf[v[2]] = media
  <2> SUFFICES ASSUME NEW v \in Elements(InScope(s, media))
               PROVE  /\ v \in Value \ {Blank} /\ ~IsRef(v) /\ v # None
                      /\ v[2] \in DOMAIN MediaOf /\ MediaOf[v[2]] = media
      OBVIOUS
  <2>1. PICK i \in DOMAIN ids : v = Asset(ids[i])
        BY DEF Elements, InScope
  <2> QED
      BY <2>1, <1>2 DEF Asset
<1>6. InScope(s, media) # <<>> => 1 \in DOMAIN InScope(s, media)
      BY <1>4, SequenceElements
<1> QED
    BY <1>4, <1>5, <1>6 DEF Elements

(* A slideshow's title card.                                               *)
LEMMA TitleFields ==
    ASSUME NEW words
    PROVE  LET step == TitleStep(words) IN
           /\ step.id = "title" /\ step.capability_id = "media.titlecard"
           /\ step.asset = None /\ step.assets = <<>> /\ step.listed = NoList
           /\ step.depends_on = {}
           /\ "at" \in words => Elements(step.named) = {Ref("at")} /\ "text" \in DOMAIN step.named
           /\ "at" \notin words => Elements(step.named) = {} /\ "text" \in step.given
BY DEF TitleStep, PlanStep, Elements, NoValues

(* Its slides.                                                             *)
LEMMA SlidesFields ==
    ASSUME NEW images
    PROVE  LET step == SlidesStep(images) IN
           /\ step.id = "slides" /\ step.capability_id = "image.slideshow"
           /\ step.asset = None /\ step.assets = images /\ step.listed = images
           /\ step.depends_on = {} /\ Elements(step.named) = {}
BY DEF SlidesStep, PlanStep, Elements, NoValues

(* Its last step refers to those before it.                                *)
Refs(steps) == [i \in DOMAIN steps |-> Ref(steps[i].id)]
Ids(steps) == {steps[i].id : i \in DOMAIN steps}

(* That step, with the first sound of the scope if there is one.           *)
LEMMA ExportFields ==
    ASSUME NEW before, NEW audios
    PROVE  LET step == ExportStep(before, audios) IN
           /\ step.id = "export" /\ step.capability_id = "video.compose" /\ step.asset = None
           /\ step.assets = Refs(before)
           /\ step.listed = step.assets
           /\ step.depends_on = Ids(before)
           /\ \A v \in Elements(step.named) : audios # <<>> /\ v = audios[1]
BY DEF ExportStep, PlanStep, Elements, NoValues, Refs, Ids

(* A slideshow's steps, with a title card or without.                      *)
LEMMA SlideshowSteps ==
    ASSUME NEW words, NEW images, NEW audios
    PROVE  LET p == Slideshow(words, images, audios)
               title == TitleStep(words)
               slides == SlidesStep(images)
           IN /\ p \in Seq(Elements(p))
              /\ "title" \in words =>
                    Len(p) = 3 /\ p[1] = title /\ p[2] = slides
                    /\ p[3] = ExportStep(<<title, slides>>, audios)
              /\ "title" \notin words =>
                    Len(p) = 2 /\ p[1] = slides /\ p[2] = ExportStep(<<slides>>, audios)
<1>1. CASE "title" \in words
      BY <1>1 DEF Slideshow, Elements
<1>2. CASE "title" \notin words
      BY <1>2 DEF Slideshow, Elements
<1> QED
    BY <1>1, <1>2

(* The plans about one video.                                              *)
VideoStep(step, video) ==
    /\ step.asset = video /\ step.assets = <<>> /\ step.listed = NoList
    /\ step.depends_on = {} /\ Elements(step.named) = {}
    /\ \/ step.capability_id = "video.thumbnail" /\ step.given = {"timestamp"}
       \/ step.capability_id = "video.mute" /\ step.given = {}
       \/ step.capability_id = "video.resize" /\ step.given = Size

(* What the mock planner proposes, when it does not ask.                   *)
LEMMA MockProposals ==
    ASSUME NEW words, NEW images, NEW videos, NEW audios,
           Propose(words, images, videos, audios) # Clarification
    PROVE  LET p == Propose(words, images, videos, audios) IN
           \/ p = Slideshow(words, images, audios)
           \/ videos # <<>> /\ p = <<p[1]>> /\ VideoStep(p[1], videos[1])
<1>1. CASE "slideshow" \in words
      BY <1>1 DEF Propose
<1>2. CASE "slideshow" \notin words
  <2>1. ASSUME NEW id, NEW c, NEW given, NEW video
        PROVE  LET p == OnVideo(id, c, given, video) IN
               /\ p = <<p[1]>>
               /\ p[1].asset = video /\ p[1].assets = <<>> /\ p[1].listed = NoList
               /\ p[1].depends_on = {} /\ Elements(p[1].named) = {}
               /\ p[1].capability_id = c /\ p[1].given = given
    <3> DEFINE step == [PlanStep(id, c) EXCEPT !.given = given, !.asset = video]
    <3>1. /\ step.asset = video /\ step.assets = <<>> /\ step.listed = NoList
          /\ step.depends_on = {} /\ Elements(step.named) = {}
          /\ step.capability_id = c /\ step.given = given
          BY DEF PlanStep, Elements, NoValues
    <3> HIDE DEF step
    <3>2. OnVideo(id, c, given, video) = <<step>>
          BY DEF OnVideo, step
    <3> QED
        BY <3>1, <3>2
  <2>2. ASSUME NEW p, NEW id, NEW c, NEW given,
               p = OnVideo(id, c, given, videos[1]),
               \/ c = "video.thumbnail" /\ given = {"timestamp"}
               \/ c = "video.mute" /\ given = {}
               \/ c = "video.resize" /\ given = Size
        PROVE  p = <<p[1]>> /\ VideoStep(p[1], videos[1])
    <3> HIDE DEF OnVideo
    <3> QED
        BY <2>1, <2>2 DEF VideoStep
  <2> HIDE DEF OnVideo
  <2> DEFINE p == Propose(words, images, videos, audios)
  <2>3. /\ videos # <<>>
        /\ \/ p = OnVideo("thumb", "video.thumbnail", {"timestamp"}, videos[1])
           \/ p = OnVideo("mute", "video.mute", {}, videos[1])
           \/ p = OnVideo("resize", "video.resize", Size, videos[1])
        BY <1>2 DEF Propose
  <2> HIDE DEF p
  <2>4. p = <<p[1]>> /\ VideoStep(p[1], videos[1])
    <3>1. CASE p = OnVideo("thumb", "video.thumbnail", {"timestamp"}, videos[1])
          BY <2>2, <3>1
    <3>2. CASE p = OnVideo("mute", "video.mute", {}, videos[1])
          BY <2>2, <3>2
    <3>3. CASE p = OnVideo("resize", "video.resize", Size, videos[1])
          BY <2>2, <3>3
    <3> QED
        BY <2>3, <3>1, <3>2, <3>3
  <2> QED
      BY <2>3, <2>4 DEF p
<1> QED
    BY <1>1, <1>2

(* What the mock planner has proposed.                                     *)
MockProposed == session \in Sessions /\ session.mock /\ plan \in Proposed(session)

(* A plan whose title was taken for a reference.                           *)
TitleIsRef == plan[1].id = "title" /\ "text" \in DOMAIN plan[1].named

(* What each of its steps is like.                                         *)
MockStep(k) ==
    /\ IsStep(plan[k]) /\ ~IsRef(plan[k].asset)
    /\ plan[k].assets = <<>> => Elements(plan[k].listed) \subseteq {None}
    /\ \A v \in Elements(plan[k].named) : IsRef(v) \/ v \in Scope
    /\ StepValid(plan, k) \/ TitleIsRef
    /\ Handler(plan[k].capability_id).named = {}
    /\ Len(InputFiles(plan[k])) < Handler(plan[k].capability_id).paths =>
          plan[k].id = "slides" /\ InScope(session, "image") = <<>>

(* The scope has the assets of each media type.                            *)
LEMMA ScopeHas ==
    ASSUME session \in Sessions, NEW media \in {"image", "video", "audio"}
    PROVE  /\ InScope(session, media) \in Seq(Value)
           /\ \A v \in Elements(InScope(session, media)) :
                 /\ v \in Scope /\ v \in Value \ {Blank} /\ ~IsRef(v) /\ v # None
                 /\ MediaOf[v[2]] = media
           /\ InScope(session, media) # <<>> =>
                 InScope(session, media)[1] \in Elements(InScope(session, media))
BY ScopeAssets DEF Scope, Media

(* A step is valid if what it names is in scope or an earlier step.        *)
LEMMA StepIsValid ==
    ASSUME session \in Sessions, NEW k,
           plan[k].capability_id \in Offered(TRUE) \cap Offered(FALSE),
           SatisfiesSchema(plan[k]),
           \A v \in Candidates(plan[k]) :
               v \in Scope \cup {None} \/ (IsRef(v) /\ v[2] \in Seen(plan, k)),
           plan[k].depends_on \subseteq Seen(plan, k),
           plan[k].asset \in Scope =>
               MediaOf[plan[k].asset[2]] \in CAPABILITIES_BY_ID[plan[k].capability_id].media
    PROVE  StepValid(plan, k)
<1>1. session.deterministic_only \in BOOLEAN
      BY SessionsAssumption
<1>2. \A v \in Scope \cup {None} : ~IsRef(v)
      BY ScopeAssets DEF Scope, IsRef, None
<1>3. RefsInStep(plan[k]) \subseteq Seen(plan, k)
      BY <1>2 DEF RefsInStep
<1>4. Literals(plan[k]) \subseteq Scope
      BY DEF Literals, Candidates
<1>5. plan[k].capability_id \in Offered(session.deterministic_only)
      BY <1>1
<1> QED
    BY <1>3, <1>4, <1>5 DEF StepValid, MediaMatches

(* An empty list has no elements, and no list has None.                    *)
LEMMA NoElements == Elements(<<>>) = {} /\ Elements(NoList) = {None}
BY DEF Elements, NoList

(* The title card of a slideshow.                                          *)
LEMMA TitleStepWorks ==
    ASSUME session \in Sessions, NEW words, plan[1] = TitleStep(words)
    PROVE  MockStep(1)
<1> DEFINE step == plan[1]
<1>1. /\ step.id = "title" /\ step.capability_id = "media.titlecard"
      /\ step.asset = None /\ step.assets = <<>> /\ step.listed = NoList
      /\ step.depends_on = {}
      /\ "at" \in words => Elements(step.named) = {Ref("at")} /\ "text" \in DOMAIN step.named
      /\ "at" \notin words => Elements(step.named) = {} /\ "text" \in step.given
  <2>1. step = TitleStep(words)
        OBVIOUS
  <2> HIDE DEF step
  <2> QED
      BY <2>1, TitleFields
<1> HIDE DEF step
<1>2. Known(step.capability_id, {"video"}, {"text"}, 0)
      BY <1>1, MockCapabilities
<1>3. Ref("at") \in Value \ {Blank} /\ IsRef(Ref("at")) /\ ~IsRef(None)
      BY NameAssumption DEF Ref, Value, Blank, Asset, IsRef, None
<1>4. IsStep(step)
      BY <1>1, <1>3 DEF IsStep
<1>5. "at" \notin words => StepValid(plan, 1)
  <2> SUFFICES ASSUME "at" \notin words PROVE StepValid(plan, 1)
      OBVIOUS
  <2>1. SatisfiesSchema(step)
        BY <1>1, <1>2 DEF SatisfiesSchema, Known
  <2>2. Candidates(step) = {None}
        BY <1>1, NoElements DEF Candidates
  <2>3. None \notin Scope
        BY ScopeAssets DEF Scope
  <2>4. plan[1].capability_id \in Offered(TRUE) \cap Offered(FALSE)
        BY <1>2 DEF Known, step
  <2>5. SatisfiesSchema(plan[1])
        BY <2>1 DEF step
  <2>6. \A v \in Candidates(plan[1]) :
             v \in Scope \cup {None} \/ (IsRef(v) /\ v[2] \in Seen(plan, 1))
        BY <2>2 DEF step
  <2>7. plan[1].depends_on \subseteq Seen(plan, 1)
        BY <1>1 DEF step
  <2>8. plan[1].asset \in Scope =>
             MediaOf[plan[1].asset[2]] \in CAPABILITIES_BY_ID[plan[1].capability_id].media
        BY <1>1, <2>3 DEF step
  <2> QED
      BY <2>4, <2>5, <2>6, <2>7, <2>8, StepIsValid
<1>6. "at" \in words => TitleIsRef
      BY <1>1 DEF TitleIsRef, step
<1>7. /\ ~(Len(InputFiles(step)) < Handler(step.capability_id).paths)
      /\ Handler(step.capability_id).named = {}
      BY <1>1, <1>2 DEF InputFiles, RawList, Known
<1> QED
    BY <1>1, <1>3, <1>4, <1>5, <1>6, <1>7, NoElements DEF MockStep, step

(* The slides.                                                             *)
LEMMA SlidesStepWorks ==
    ASSUME session \in Sessions, NEW k, plan[k] = SlidesStep(InScope(session, "image"))
    PROVE  MockStep(k)
<1> DEFINE step == plan[k]
           images == InScope(session, "image")
<1> HIDE DEF images
<1>1. /\ step.id = "slides" /\ step.capability_id = "image.slideshow"
      /\ step.asset = None /\ step.assets = images /\ step.listed = images
      /\ step.depends_on = {} /\ Elements(step.named) = {}
  <2>1. step = SlidesStep(images)
        BY DEF images
  <2> HIDE DEF step
  <2> QED
      BY <2>1, SlidesFields
<1> HIDE DEF step
<1>2. Known(step.capability_id, {"image"}, {"asset_ids"}, 1)
      BY <1>1, MockCapabilities
<1>3. /\ images \in Seq(Value)
      /\ \A v \in Elements(images) : v \in Scope /\ v \in Value \ {Blank} /\ ~IsRef(v) /\ v # None
      BY ScopeHas DEF images
<1>4. IsStep(step)
      BY <1>1, <1>3 DEF IsStep
<1>5. StepValid(plan, k)
  <2>1. images # NoList
        BY <1>3, NoElements
  <2>2. EffectiveList(step) # NoList
        BY <1>1, <2>1 DEF EffectiveList
  <2>3. SatisfiesSchema(step)
        BY <1>1, <1>2, <2>2 DEF SatisfiesSchema, Known
  <2>4. \A v \in Candidates(step) : v \in Scope \cup {None}
        BY <1>1, <1>3 DEF Candidates
  <2>5. None \notin Scope
        BY ScopeAssets DEF Scope
  <2>6. plan[k].capability_id \in Offered(TRUE) \cap Offered(FALSE)
        BY <1>2 DEF Known, step
  <2>7. SatisfiesSchema(plan[k])
        BY <2>3 DEF step
  <2>8. \A v \in Candidates(plan[k]) :
             v \in Scope \cup {None} \/ (IsRef(v) /\ v[2] \in Seen(plan, k))
        BY <2>4 DEF step
  <2>9. plan[k].depends_on \subseteq Seen(plan, k)
        BY <1>1 DEF step
  <2>10. plan[k].asset \in Scope =>
             MediaOf[plan[k].asset[2]] \in CAPABILITIES_BY_ID[plan[k].capability_id].media
        BY <1>1, <2>5 DEF step
  <2> QED
      BY <2>6, <2>7, <2>8, <2>9, <2>10, StepIsValid
<1>6. Len(InputFiles(step)) < Handler(step.capability_id).paths => images = <<>>
  <2>1. InputFiles(step) = <<>> \o images
        BY <1>1 DEF InputFiles, RawList
  <2>2. InputFiles(step) = images /\ Len(images) \in Nat
        BY <2>1, <1>3
  <2> QED
      BY <2>2, <1>2, <1>3 DEF Known
<1>7. ~IsRef(None)
      BY DEF IsRef, None
<1>8. images = <<>> => Elements(images) = {}
      BY NoElements
<1>9. Handler(step.capability_id).named = {}
      BY <1>2 DEF Known
<1> QED
    BY <1>1, <1>4, <1>5, <1>6, <1>7, <1>8, <1>9 DEF MockStep, step, images

(* The export, of what comes before it.                                    *)
LEMMA ExportStepWorks ==
    ASSUME session \in Sessions, NEW k \in Nat, k > 1, NEW before,
           plan[k] = ExportStep(before, InScope(session, "audio")),
           before \in Seq(Elements(before)), k = Len(before) + 1,
           \A i \in DOMAIN before : before[i] = plan[i] /\ before[i].id \in {"title", "slides"}
    PROVE  MockStep(k)
<1> DEFINE step == plan[k]
           inputs == Refs(before)
           audios == InScope(session, "audio")
<1> HIDE DEF audios
<1>1. /\ step.id = "export" /\ step.capability_id = "video.compose" /\ step.asset = None
      /\ step.assets = inputs /\ step.listed = inputs
      /\ step.depends_on = Ids(before)
      /\ \A v \in Elements(step.named) : audios # <<>> /\ v = audios[1]
  <2>1. step = ExportStep(before, audios)
        BY DEF audios
  <2> HIDE DEF step
  <2>2. step.id = "export" /\ step.capability_id = "video.compose" /\ step.asset = None
        BY <2>1, ExportFields
  <2>3. step.assets = inputs /\ step.listed = inputs
        BY <2>1, ExportFields
  <2>4. step.depends_on = Ids(before)
        BY <2>1, ExportFields
  <2>5. \A v \in Elements(step.named) : audios # <<>> /\ v = audios[1]
        BY <2>1, ExportFields
  <2> QED
      BY <2>2, <2>3, <2>4, <2>5
<1> HIDE DEF step
<1>2. Known(step.capability_id, {"video"}, {"asset_ids"}, 1)
      BY <1>1, MockCapabilities
<1>3. /\ DOMAIN before = 1..(k - 1) /\ DOMAIN inputs = 1..(k - 1)
      /\ \A i \in 1..(k - 1) : /\ inputs[i] = Ref(before[i].id) /\ inputs[i] \in Value
                         /\ IsRef(inputs[i]) /\ inputs[i][2] = plan[i].id
      BY NameAssumption DEF Refs, Ref, Value, IsRef
<1>4. Seen(plan, k) = Ids(before)
      BY <1>3 DEF Seen, Ids
<1>5. inputs \in Seq(Value) /\ Len(inputs) = k - 1
      BY <1>3 DEF Refs
<1>6. \A v \in Elements(inputs) : IsRef(v) /\ v[2] \in Seen(plan, k) /\ v \in Value
      BY <1>3, <1>4 DEF Elements, Ids
<1> HIDE DEF inputs
<1>11. ~IsRef(None) /\ inputs # <<>>
      BY <1>5 DEF IsRef, None
<1>7. \A v \in Elements(step.named) : v \in Scope /\ v \in Value \ {Blank}
      BY <1>1, ScopeHas DEF audios
<1>8. IsStep(step)
      BY <1>1, <1>5, <1>7 DEF IsStep
<1>9. StepValid(plan, k)
  <2>1. inputs # NoList
        BY <1>6, <1>11, NoElements
  <2>2. SatisfiesSchema(step)
        BY <1>1, <1>2, <2>1 DEF SatisfiesSchema, EffectiveList, Known
  <2>3. \A v \in Candidates(step) :
             v \in Scope \cup {None} \/ (IsRef(v) /\ v[2] \in Seen(plan, k))
        BY <1>1, <1>6, <1>7 DEF Candidates
  <2>4. None \notin Scope
        BY ScopeAssets DEF Scope
  <2>5. plan[k].capability_id \in Offered(TRUE) \cap Offered(FALSE)
        BY <1>2 DEF Known, step
  <2>6. SatisfiesSchema(plan[k])
        BY <2>2 DEF step
  <2>7. \A v \in Candidates(plan[k]) :
             v \in Scope \cup {None} \/ (IsRef(v) /\ v[2] \in Seen(plan, k))
        BY <2>3 DEF step
  <2>8. plan[k].depends_on \subseteq Seen(plan, k)
        BY <1>1, <1>4 DEF step
  <2>9. plan[k].asset \in Scope =>
             MediaOf[plan[k].asset[2]] \in CAPABILITIES_BY_ID[plan[k].capability_id].media
        BY <1>1, <2>4 DEF step
  <2> QED
      BY <2>5, <2>6, <2>7, <2>8, <2>9, StepIsValid
<1>10. ~(Len(InputFiles(step)) < Handler(step.capability_id).paths)
  <2>1. inputs # <<>>
        BY <1>5
  <2>2. InputFiles(step) = <<>> \o inputs
        BY <1>1, <2>1 DEF InputFiles, RawList
  <2> QED
      BY <2>2, <1>2, <1>5 DEF Known
<1>12. Handler(step.capability_id).named = {}
      BY <1>2 DEF Known
<1> QED
    BY <1>1, <1>7, <1>8, <1>9, <1>10, <1>11, <1>12 DEF MockStep, step

(* The only step of a plan about a video.                                  *)
LEMMA VideoStepWorks ==
    ASSUME session \in Sessions, InScope(session, "video") # <<>>,
           VideoStep(plan[1], InScope(session, "video")[1])
    PROVE  MockStep(1)
<1> DEFINE step == plan[1]
           video == InScope(session, "video")[1]
<1>1. /\ video \in Scope /\ video \in Value \ {Blank} /\ ~IsRef(video) /\ video # None
      /\ MediaOf[video[2]] = "video"
      BY ScopeHas
<1>2. /\ step.asset = video /\ step.assets = <<>> /\ step.listed = NoList
      /\ step.depends_on = {} /\ Elements(step.named) = {}
      BY DEF VideoStep
<1>3. PICK required : Known(step.capability_id, {"video"}, required, 1) /\ required \subseteq step.given
      BY MockCapabilities DEF VideoStep
<1> HIDE DEF step, video
<1>4. IsStep(step)
      BY <1>1, <1>2 DEF IsStep
<1>5. StepValid(plan, 1)
  <2>1. SatisfiesSchema(step)
        BY <1>3 DEF SatisfiesSchema, Known
  <2>2. Candidates(step) = {video}
        BY <1>2, NoElements DEF Candidates
  <2>3. plan[1].capability_id \in Offered(TRUE) \cap Offered(FALSE)
        BY <1>3 DEF Known, step
  <2>4. SatisfiesSchema(plan[1])
        BY <2>1 DEF step
  <2>5. \A v \in Candidates(plan[1]) :
             v \in Scope \cup {None} \/ (IsRef(v) /\ v[2] \in Seen(plan, 1))
        BY <1>1, <2>2 DEF step
  <2>6. plan[1].depends_on \subseteq Seen(plan, 1)
        BY <1>2 DEF step
  <2>7. plan[1].asset \in Scope =>
             MediaOf[plan[1].asset[2]] \in CAPABILITIES_BY_ID[plan[1].capability_id].media
        BY <1>1, <1>2, <1>3 DEF Known, step
  <2> QED
      BY <2>3, <2>4, <2>5, <2>6, <2>7, StepIsValid
<1>6. ~(Len(InputFiles(step)) < Handler(step.capability_id).paths)
  <2>1. InputFiles(step) = <<video>> \o <<>>
        BY <1>1, <1>2 DEF InputFiles, RawList
  <2>2. Len(InputFiles(step)) = 1
        BY <2>1
  <2> QED
      BY <2>2, <1>3 DEF Known
<1>7. Handler(step.capability_id).named = {}
      BY <1>3 DEF Known
<1> QED
    BY <1>1, <1>2, <1>4, <1>5, <1>6, <1>7, NoElements DEF MockStep, step

(* Every plan of the mock planner is of steps like these.                  *)
LEMMA MockStepsWork ==
    ASSUME MockProposed
    PROVE  IsPlan(plan) /\ plan # <<>> /\ \A k \in DOMAIN plan : MockStep(k)
<1> DEFINE images == InScope(session, "image")
           videos == InScope(session, "video")
           audios == InScope(session, "audio")
<1>1. PICK words : /\ plan = Propose(words, images, videos, audios)
                   /\ plan # Clarification
      BY DEF MockProposed, Proposed
<1>2. \/ plan = Slideshow(words, images, audios)
      \/ videos # <<>> /\ plan = <<plan[1]>> /\ VideoStep(plan[1], videos[1])
      BY <1>1, MockProposals
<1>3. session \in Sessions
      BY DEF MockProposed
<1>4. SUFFICES plan \in Seq(Elements(plan)) /\ \A k \in DOMAIN plan : MockStep(k)
      BY <1>1 DEF IsPlan, MockStep, Clarification
<1>5. CASE plan = Slideshow(words, images, audios) /\ "title" \in words
  <2> DEFINE before == <<TitleStep(words), SlidesStep(images)>>
  <2>1. /\ plan \in Seq(Elements(plan)) /\ Len(plan) = 3
        /\ plan[1] = TitleStep(words) /\ plan[2] = SlidesStep(images)
        /\ plan[3] = ExportStep(before, audios)
    <3> HIDE DEF images, audios
    <3>1. Len(plan) = 3 /\ plan[1] = TitleStep(words) /\ plan[2] = SlidesStep(images)
          BY <1>5, SlideshowSteps
    <3>2. plan[3] = ExportStep(<<TitleStep(words), SlidesStep(images)>>, audios)
          BY <1>5, SlideshowSteps
    <3>3. plan \in Seq(Elements(plan))
          BY <1>5, SlideshowSteps
    <3> QED
        BY <3>1, <3>2, <3>3
  <2>2. /\ before \in Seq(Elements(before)) /\ Len(before) = 2
        /\ before[1] = plan[1] /\ before[2] = plan[2]
        BY <2>1 DEF Elements
  <2>3. \A i \in DOMAIN before : before[i] = plan[i] /\ before[i].id \in {"title", "slides"}
        BY <2>1, <2>2, TitleFields, SlidesFields
  <2> HIDE DEF before
  <2>4. MockStep(1) /\ MockStep(2)
        BY <1>3, <2>1, TitleStepWorks, SlidesStepWorks
  <2>5. MockStep(3)
    <3>1. 3 \in Nat /\ 3 > 1 /\ 3 = Len(before) + 1
          BY <2>2
    <3>2. plan[3] = ExportStep(before, InScope(session, "audio"))
          BY <2>1
    <3> QED
        BY <1>3, <2>2, <2>3, <3>1, <3>2, ExportStepWorks
  <2> QED
      BY <2>1, <2>4, <2>5
<1>6. CASE plan = Slideshow(words, images, audios) /\ "title" \notin words
  <2> DEFINE before == <<SlidesStep(images)>>
  <2>1. /\ plan \in Seq(Elements(plan)) /\ Len(plan) = 2
        /\ plan[1] = SlidesStep(images) /\ plan[2] = ExportStep(before, audios)
        BY <1>6, SlideshowSteps
  <2>2. /\ before \in Seq(Elements(before)) /\ Len(before) = 1 /\ before[1] = plan[1]
        BY <2>1 DEF Elements
  <2>3. \A i \in DOMAIN before : before[i] = plan[i] /\ before[i].id \in {"title", "slides"}
        BY <2>1, <2>2, SlidesFields
  <2> HIDE DEF before
  <2>4. MockStep(1)
        BY <1>3, <2>1, SlidesStepWorks
  <2>5. MockStep(2)
    <3>1. 2 \in Nat /\ 2 > 1 /\ 2 = Len(before) + 1
          BY <2>2
    <3>2. plan[2] = ExportStep(before, InScope(session, "audio"))
          BY <2>1
    <3> QED
        BY <1>3, <2>2, <2>3, <3>1, <3>2, ExportStepWorks
  <2> QED
      BY <2>1, <2>4, <2>5
<1>7. CASE videos # <<>> /\ plan = <<plan[1]>> /\ VideoStep(plan[1], videos[1])
  <2>1. plan \in Seq(Elements(plan)) /\ DOMAIN plan = {1}
    <3>1. PICK step : plan = <<step>>
          BY <1>7
    <3> QED
        BY <3>1 DEF Elements
  <2>2. MockStep(1)
        BY <1>3, <1>7, VideoStepWorks
  <2> QED
      BY <2>1, <2>2
<1> QED
    BY <1>2, <1>5, <1>6, <1>7

(* A plan has the shape of a plan, whoever proposes it.                    *)
LEMMA ProposedIsPlan ==
    ASSUME session \in Sessions, plan \in Proposed(session)
    PROVE  IsPlan(plan)
<1>1. CASE session.mock
      BY <1>1, MockStepsWork DEF MockProposed
<1>2. CASE ~session.mock
      BY <1>2, PlansAssumption DEF Proposed
<1> QED
    BY <1>1, <1>2

(* The mock planner's plan is accepted, unless its title is a reference.   *)
LEMMA MockIsValid ==
    ASSUME MockProposed, ~Valid(plan)
    PROVE  TitleIsRef
BY MockStepsWork DEF Valid, MockStep

-----------------------------------------------------------------------------
(* A set of numbers has a smallest one.                                    *)
LEMMA SmallestNat ==
    ASSUME NEW T \in SUBSET Nat, T # {}
    PROVE  \E x \in T : \A y \in T : x <= y
<1> DEFINE R == OpToRel(<, Nat)
<1>1. \A x, y \in Nat : x < y => <<x, y>> \in R
      BY DEF OpToRel
<1>2. IsWellFoundedOn(R, Nat)
      BY NatLessThanWellFounded
<1> HIDE DEF R
<1>3. PICK x \in T : \A y \in T : ~(<<y, x>> \in R)
      BY <1>2, WFMin
<1>4. \A y \in T : x \in Nat /\ y \in Nat /\ ~(y < x)
      BY <1>1, <1>3
<1>5. \A y \in T : x <= y
      BY <1>4
<1> QED
    BY <1>3, <1>5

(* A set of numbers up to n has a largest one: what OutputOf chooses.      *)
LEMMA LargestOf ==
    ASSUME NEW n \in Nat, NEW P \in SUBSET (1..n), P # {}
    PROVE  \E k \in P : \A i \in P : i <= k
<1> DEFINE T == {n - k : k \in P}
<1>1. \A k \in P : k \in Nat /\ k <= n /\ n - k \in Nat
      OBVIOUS
<1>2. T \in SUBSET Nat /\ T # {}
      BY <1>1
<1>3. PICK x \in T : \A y \in T : x <= y
      BY <1>2, SmallestNat
<1>4. PICK k \in P : x = n - k
      OBVIOUS
<1>5. \A i \in P : n - k <= n - i
      BY <1>3, <1>4
<1> QED
    BY <1>1, <1>4, <1>5

-----------------------------------------------------------------------------
(* What a step's run records.                                              *)
Output == {"out"} \X Nat
Run == [used : SUBSET (Value \cup Output), media : Media \cup {"none"},
        out : Output \cup {None}]

StepsType ==
    /\ session \in Sessions /\ plan \in Proposed(session)
    /\ phase \in {"proposed", "running"} \cup Ends
    /\ runs \in Seq(Run) /\ Len(runs) <= Len(plan)
    /\ finals \in SUBSET Output /\ flagged \in SUBSET Output

(* The output a reference stands for is the output of a run of that id.    *)
LEMMA OutputOfRun ==
    ASSUME runs \in Seq(Run), NEW s
    PROVE  \/ Producers(s) = {} /\ OutputOf(s) = None
           \/ \E k \in DOMAIN runs : plan[k].id = s /\ OutputOf(s) = runs[k].out
<1>1. CASE Producers(s) = {}
      BY <1>1 DEF OutputOf
<1>2. CASE Producers(s) # {}
  <2>1. Producers(s) \in SUBSET (1..Len(runs)) /\ Len(runs) \in Nat
        BY DEF Producers
  <2>2. \E k \in Producers(s) : \A i \in Producers(s) : i <= k
        BY <1>2, <2>1, LargestOf
  <2> DEFINE last == CHOOSE k \in Producers(s) : \A i \in Producers(s) : i <= k
  <2>3. last \in Producers(s)
        BY <2>2
  <2>4. OutputOf(s) = runs[last].out
        BY <1>2 DEF OutputOf
  <2> HIDE DEF last
  <2> QED
      BY <2>3, <2>4 DEF Producers
<1> QED
    BY <1>1, <1>2

(* The inputs of a step: its asset, its list and what its parameters name. *)
LEMMA InputsOfStep ==
    ASSUME NEW step, IsStep(step)
    PROVE  /\ RawList(step) \in Seq(Value)
           /\ Inputs(step) = ({step.asset} \ {None}) \cup Elements(RawList(step))
                                \cup Elements(step.named)
           /\ \A v \in Inputs(step) : v \in Value /\ v # None
<1>1. None \notin Value /\ NoList \notin Seq(Value)
  <2>1. None \notin Value
        BY DEF None, Value
  <2>2. NoList[1] = None /\ 1 \in DOMAIN NoList
        BY DEF NoList
  <2> QED
      BY <2>1, <2>2
<1>2. RawList(step) \in Seq(Value)
      BY DEF IsStep, RawList
<1> DEFINE first == IF step.asset = None THEN <<>> ELSE <<step.asset>>
<1>3. first \in Seq(Value) /\ Elements(first) = {step.asset} \ {None}
      BY <1>1 DEF IsStep, Elements
<1> HIDE DEF first
<1>4. ASSUME NEW s \in Seq(Value), NEW t \in Seq(Value)
      PROVE  Elements(s \o t) = Elements(s) \cup Elements(t)
  <2>1. /\ s \o t \in Seq(Value) /\ Len(s \o t) = Len(s) + Len(t)
        /\ Len(s) \in Nat /\ Len(t) \in Nat
        BY <1>4
  <2>2. /\ \A i \in 1..Len(s) : (s \o t)[i] = s[i]
        /\ \A i \in 1..Len(t) : (s \o t)[Len(s) + i] = t[i]
        BY <1>4
  <2>3. \A i \in DOMAIN (s \o t) : (s \o t)[i] \in Elements(s) \cup Elements(t)
    <3> SUFFICES ASSUME NEW i \in 1..(Len(s) + Len(t))
                 PROVE  (s \o t)[i] \in Elements(s) \cup Elements(t)
        BY <2>1
    <3>1. CASE i <= Len(s)
          BY <2>1, <2>2, <3>1 DEF Elements
    <3>2. CASE i > Len(s)
      <4>1. i - Len(s) \in 1..Len(t) /\ i = Len(s) + (i - Len(s))
            BY <2>1, <3>2
      <4>2. (s \o t)[i] = t[i - Len(s)]
            BY <2>2, <4>1
      <4> QED
          BY <4>1, <4>2, <2>1 DEF Elements
    <3> QED
        BY <3>1, <3>2, <2>1
  <2>4. \A i \in DOMAIN s : s[i] \in Elements(s \o t)
        BY <2>1, <2>2 DEF Elements
  <2>5. \A i \in DOMAIN t : t[i] \in Elements(s \o t)
    <3> SUFFICES ASSUME NEW i \in 1..Len(t) PROVE t[i] \in Elements(s \o t)
        BY <2>1
    <3>1. Len(s) + i \in DOMAIN (s \o t)
          BY <2>1
    <3> QED
        BY <2>2, <3>1 DEF Elements
  <2> QED
      BY <2>3, <2>4, <2>5 DEF Elements
<1>5. InputFiles(step) = first \o RawList(step)
      BY DEF InputFiles, first
<1>6. Elements(InputFiles(step)) = ({step.asset} \ {None}) \cup Elements(RawList(step))
      BY <1>2, <1>3, <1>4, <1>5
<1>7. Inputs(step) = ({step.asset} \ {None}) \cup Elements(RawList(step)) \cup Elements(step.named)
      BY <1>6 DEF Inputs
<1>8. \A v \in Elements(RawList(step)) : v \in Value
      BY <1>2, SequenceElements
<1>9. \A v \in Elements(step.named) : v \in Value
      BY DEF IsStep
<1> QED
    BY <1>1, <1>2, <1>7, <1>8, <1>9 DEF IsStep

-----------------------------------------------------------------------------
(* The invariant.  `Judged`: only an accepted plan is run.  `Stopped`: why *)
(* a run has stopped.  `Fed`: what a step's job was given is what the step *)
(* names, with the output of an earlier run in the place of a reference,   *)
(* and no reference was left out.  `Sorted`: what Finish made of it.       *)
Judged ==
    /\ phase \in {"proposed", "rejected"} => runs = <<>>
    /\ phase = "rejected" => ~Valid(plan)
    /\ phase \notin {"proposed", "rejected"} => Valid(plan)

Stopped ==
    /\ phase \in {"unresolved", "refused", "lacking"} => Upcoming \in DOMAIN plan
    /\ phase = "refused" => ~Takes(plan[Upcoming])
    /\ phase = "lacking" => Missing(plan[Upcoming])

Stands(v, u, k) ==
    \E i \in 1..(k - 1) : plan[i].id = v[2] /\ u = runs[i].out /\ u # None

FedTo(k) ==
    /\ runs[k].out \in {None, <<"out", k>>}
    /\ \A u \in runs[k].used :
          \/ u \in Inputs(plan[k]) /\ ~IsRef(u) /\ u[2] \in DOMAIN MediaOf
          \/ \E v \in Inputs(plan[k]) : IsRef(v) /\ Stands(v, u, k)
    /\ \A v \in Inputs(plan[k]) : IsRef(v) => \E u \in runs[k].used : Stands(v, u, k)

Fed == \A k \in 1..Len(runs) : FedTo(k)

Sorted ==
    phase = "succeeded" =>
        /\ DOMAIN runs = DOMAIN plan
        /\ finals = Outs({k \in DOMAIN runs : plan[k].id \notin Consumed})
        /\ flagged = Outs({k \in DOMAIN runs : plan[k].id \in Consumed})

StepsInv == StepsType /\ Judged /\ Stopped /\ Fed /\ Sorted

(* It holds before the plan is looked at.                                  *)
LEMMA StepsInit == Init => StepsInv
<1> SUFFICES ASSUME Init PROVE StepsInv
    OBVIOUS
<1>1. IsPlan(plan)
      BY ProposedIsPlan DEF Init
<1>2. runs \in Seq(Run) /\ Len(runs) = 0 /\ Len(plan) \in Nat
      BY <1>1 DEF Init, IsPlan
<1>3. StepsType
      BY <1>2 DEF Init, StepsType
<1> QED
    BY <1>2, <1>3 DEF Init, StepsInv, Judged, Stopped, Fed, Sorted, Ends

(* What a plan and its runs are.                                           *)
LEMMA PlanFacts ==
    ASSUME StepsType
    PROVE  /\ IsPlan(plan) /\ Len(plan) \in Nat /\ DOMAIN plan = 1..Len(plan)
           /\ Len(runs) \in Nat /\ DOMAIN runs = 1..Len(runs)
           /\ Upcoming \in Nat /\ Upcoming = Len(runs) + 1
           /\ DOMAIN runs \subseteq DOMAIN plan
           /\ Upcoming \notin DOMAIN plan => DOMAIN runs = DOMAIN plan
           /\ Upcoming \in DOMAIN plan => IsStep(plan[Upcoming]) /\ Upcoming <= Len(plan)
           /\ \A k \in DOMAIN runs : IsStep(plan[k]) /\ runs[k] \in Run
<1>1. IsPlan(plan)
      BY ProposedIsPlan DEF StepsType
<1> QED
    BY <1>1 DEF StepsType, IsPlan, Upcoming

(* What the next step is given, once its references are resolved.          *)
LEMMA Resolved ==
    ASSUME StepsType, Ready, NEW v \in Inputs(plan[Upcoming])
    PROVE  /\ ~IsRef(v) => Resolve(v) = v /\ v \in Value
           /\ IsRef(v) => Stands(v, Resolve(v), Upcoming) /\ Resolve(v) \in Output
<1>1. Resolve(v) # None /\ v \in Value
      BY PlanFacts, InputsOfStep DEF Ready, Unresolved
<1>2. CASE ~IsRef(v)
      BY <1>1, <1>2 DEF Resolve
<1>3. CASE IsRef(v)
  <2>1. OutputOf(v[2]) = Resolve(v)
        BY <1>3 DEF Resolve
  <2>2. PICK k \in DOMAIN runs : plan[k].id = v[2] /\ Resolve(v) = runs[k].out
        BY <1>1, <2>1, OutputOfRun DEF StepsType
  <2>3. runs[k].out \in Output \cup {None}
        BY PlanFacts, <2>2 DEF Run
  <2>4. k \in 1..(Upcoming - 1)
    <3>1. Upcoming = Len(runs) + 1 /\ Len(runs) \in Nat /\ DOMAIN runs = 1..Len(runs)
          BY PlanFacts
    <3> QED
        BY <3>1
  <2> QED
      BY <1>1, <1>3, <2>2, <2>3, <2>4 DEF Stands
<1> QED
    BY <1>2, <1>3

(* A handler's outputs are media.                                          *)
LEMMA MakesAreMedia == ASSUME NEW c, NEW first PROVE Makes(c, first) \subseteq Media
<1>1. Handler(c).makes \subseteq Media
      BY HandlersMakeMedia DEF Handler, NotImplemented
<1> QED
    BY <1>1 DEF Makes, Media

(* A run adds to the runs and leaves the earlier ones as they are.         *)
LEMMA RunStepInv ==
    ASSUME StepsInv, RunStep
    PROVE  StepsInv'
<1> DEFINE step == plan[Upcoming]
<1>1. PICK media \in MakesMedia(step) \cup {"none"} :
          runs' = Append(runs, [used |-> {Resolve(v) : v \in Inputs(step)}, media |-> media,
                                out |-> IF media = "none" THEN None ELSE <<"out", Upcoming>>])
      BY DEF RunStep
<1> DEFINE run == [used |-> {Resolve(v) : v \in Inputs(step)}, media |-> media,
                   out |-> IF media = "none" THEN None ELSE <<"out", Upcoming>>]
<1>2. /\ StepsType /\ Judged /\ Stopped /\ Fed /\ Ready /\ phase = "running"
      /\ Upcoming \in DOMAIN plan /\ Exist(step)
      /\ UNCHANGED <<session, plan, phase, finals, flagged>>
      BY DEF StepsInv, RunStep, Ready
<1>11. Upcoming = Len(runs) + 1 /\ Len(runs) \in Nat
      BY <1>2, PlanFacts
<1>3. \A v \in Inputs(step) :
          /\ ~IsRef(v) => Resolve(v) = v /\ v \in Value
          /\ IsRef(v) => Stands(v, Resolve(v), Upcoming) /\ Resolve(v) \in Output
      BY <1>2, Resolved
<1>4. run \in Run
  <2>1. \A v \in Inputs(step) : Resolve(v) \in Value \cup Output
        BY <1>3
  <2>2. media \in Media \cup {"none"}
        BY MakesAreMedia DEF MakesMedia
  <2>3. <<"out", Upcoming>> \in Output
        BY <1>2, PlanFacts DEF Output
  <2> QED
      BY <2>1, <2>2, <2>3 DEF Run
<1>5. /\ run.used = {Resolve(v) : v \in Inputs(step)}
      /\ run.out \in {None, <<"out", Upcoming>>}
      OBVIOUS
<1> HIDE DEF run
<1>6. /\ runs' \in Seq(Run) /\ Len(runs') = Upcoming /\ runs'[Upcoming] = run
      /\ \A k \in 1..Len(runs) : runs'[k] = runs[k]
      BY <1>1, <1>2, <1>4 DEF StepsType, Upcoming, run
<1>7. StepsType'
      BY <1>2, <1>6, PlanFacts DEF StepsType
<1>8. Judged' /\ Stopped' /\ Sorted'
      BY <1>2 DEF Judged, Stopped, Sorted, Valid, StepValid, SatisfiesSchema, MediaMatches, Scope
<1>9. \A v, u : \A k \in 1..Upcoming : Stands(v, u, k) => Stands(v, u, k)'
  <2> SUFFICES ASSUME NEW v, NEW u, NEW k \in 1..Upcoming, Stands(v, u, k)
               PROVE  Stands(v, u, k)'
      OBVIOUS
  <2>1. PICK i \in 1..(k - 1) : plan[i].id = v[2] /\ u = runs[i].out /\ u # None
        BY DEF Stands
  <2>2. i \in 1..Len(runs)
        BY <1>11
  <2> QED
      BY <1>2, <1>6, <2>1, <2>2 DEF Stands
<1>10. Fed'
  <2> SUFFICES ASSUME NEW k \in 1..Upcoming PROVE FedTo(k)'
      BY <1>6 DEF Fed
  <2>1. CASE k \in 1..Len(runs)
    <3>1. FedTo(k) /\ runs'[k] = runs[k]
          BY <1>2, <1>6, <2>1 DEF Fed
    <3> QED
        BY <1>2, <1>9, <3>1 DEF FedTo
  <2>2. CASE k = Upcoming
    <3>1. \A u \in run.used :
              \/ u \in Inputs(step) /\ ~IsRef(u) /\ u[2] \in DOMAIN MediaOf
              \/ \E v \in Inputs(step) : IsRef(v) /\ Stands(v, u, Upcoming)
          BY <1>2, <1>3, <1>5 DEF Exist
    <3>2. \A v \in Inputs(step) : IsRef(v) => \E u \in run.used : Stands(v, u, Upcoming)
          BY <1>3, <1>5
    <3> QED
        BY <1>2, <1>5, <1>6, <1>9, <2>2, <3>1, <3>2, PlanFacts DEF FedTo
  <2> QED
      BY <1>11, <2>1, <2>2
<1> QED
    BY <1>7, <1>8, <1>10 DEF StepsInv


(* Whether a plan is valid, what its runs were given and what the next     *)
(* step makes of it depends on nothing but the plan, its session and runs. *)
LEMMA SameRuns ==
    ASSUME UNCHANGED <<session, plan, runs>>
    PROVE  /\ Valid(plan)' <=> Valid(plan)
           /\ Fed' <=> Fed
           /\ Upcoming' = Upcoming
           /\ Takes(plan[Upcoming])' <=> Takes(plan[Upcoming])
<1>1. Valid(plan)' <=> Valid(plan)
      BY DEF Valid, StepValid, SatisfiesSchema, MediaMatches, Scope
<1>2. Fed' <=> Fed
      BY DEF Fed, FedTo, Stands
<1>3. Takes(plan[Upcoming])' <=> Takes(plan[Upcoming])
      BY DEF Takes, MediaTypeOf, Resolve, OutputOf, Producers, Upcoming
<1> QED
    BY <1>1, <1>2, <1>3 DEF Upcoming

(* A run that stops is left as it is, and it has stopped for that reason.  *)
LEMMA StopInv ==
    ASSUME StepsInv, phase = "running", NEW why \in Ends \ {"rejected", "succeeded"}, Stop(why),
           why \in {"unresolved", "refused", "lacking"} => Upcoming \in DOMAIN plan,
           why = "refused" => ~Takes(plan[Upcoming]),
           why = "lacking" => Missing(plan[Upcoming])
    PROVE  StepsInv'
<1>1. phase' = why /\ UNCHANGED <<session, plan, runs, finals, flagged>>
      BY DEF Stop
<1>2. StepsType'
      BY <1>1 DEF StepsInv, StepsType, Ends
<1>3. Judged'
      BY <1>1, SameRuns DEF StepsInv, Judged, Ends
<1>4. Stopped'
      BY <1>1, SameRuns DEF Stopped, Missing, MissingParams
<1>5. Fed' /\ Sorted'
      BY <1>1, SameRuns DEF StepsInv, Sorted, Ends
<1> QED
    BY <1>2, <1>3, <1>4, <1>5 DEF StepsInv

(* What a set of runs put out.                                             *)
LEMMA OutsAreOutputs ==
    ASSUME StepsType, NEW S \in SUBSET DOMAIN runs
    PROVE  Outs(S) \in SUBSET Output
<1>1. \A k \in DOMAIN runs : runs[k] \in Run
      BY PlanFacts
<1>2. \A k \in S : runs[k].out \in Output \cup {None}
      BY <1>1 DEF Run
<1> QED
    BY <1>2 DEF Outs

(* Every step of the specification preserves the invariant.                *)
LEMMA StepsNext == StepsInv /\ [Next]_vars => StepsInv'
<1> SUFFICES ASSUME StepsInv, [Next]_vars PROVE StepsInv'
    OBVIOUS
<1> USE DEF StepsInv
<1>1. CASE Validate
  <2>1. UNCHANGED <<session, plan, runs, finals, flagged>> /\ runs = <<>>
        /\ phase' \in {"running", "rejected"} /\ (phase' = "running" <=> Valid(plan))
        BY <1>1 DEF Validate, Judged
  <2>2. StepsType'
        BY <2>1 DEF StepsType, Ends
  <2>3. Judged' /\ Fed'
        BY <2>1, SameRuns DEF Judged
  <2>4. Stopped' /\ Sorted'
        BY <2>1 DEF Stopped, Sorted
  <2> QED
      BY <2>2, <2>3, <2>4
<1>2. CASE RunStep
      BY <1>2, RunStepInv
<1>3. CASE RunUnresolved
      BY <1>3, StopInv DEF RunUnresolved, Ends
<1>4. CASE RunRefused
      BY <1>4, StopInv DEF RunRefused, Ready, Ends
<1>5. CASE RunLacking
      BY <1>5, StopInv DEF RunLacking, Ready, Ends
<1>6. CASE RunFails
      BY <1>6, StopInv DEF RunFails, Ready, Ends
<1>7. CASE Finish
  <2>1. /\ phase = "running" /\ Upcoming \notin DOMAIN plan /\ phase' = "succeeded"
        /\ finals' = Outs({k \in DOMAIN runs : plan[k].id \notin Consumed})
        /\ flagged' = Outs({k \in DOMAIN runs : plan[k].id \in Consumed})
        /\ UNCHANGED <<session, plan, runs>>
        BY <1>7 DEF Finish
  <2>2. DOMAIN runs = DOMAIN plan
        BY <2>1, PlanFacts
  <2>3. finals' \in SUBSET Output /\ flagged' \in SUBSET Output
        BY <2>1, OutsAreOutputs
  <2>4. StepsType'
        BY <2>1, <2>3 DEF StepsType, Ends
  <2>5. Judged' /\ Fed' /\ Stopped'
        BY <2>1, SameRuns DEF Judged, Stopped
  <2>6. Sorted'
        BY <2>1, <2>2 DEF Sorted, Outs, Consumed
  <2> QED
      BY <2>4, <2>5, <2>6
<1>8. CASE UNCHANGED vars
  <2>1. UNCHANGED <<session, plan, runs, phase, finals, flagged>>
        BY <1>8 DEF vars
  <2>2. StepsType'
        BY <2>1 DEF StepsType
  <2>3. Judged' /\ Fed'
        BY <2>1, SameRuns DEF Judged
  <2>4. Stopped'
        BY <2>1, SameRuns DEF Stopped, Missing, MissingParams
  <2>5. Sorted'
        BY <2>1 DEF Sorted, Outs, Consumed
  <2> QED
      BY <2>2, <2>3, <2>4, <2>5
<1> QED
    BY <1>1, <1>2, <1>3, <1>4, <1>5, <1>6, <1>7, <1>8 DEF Next, Over

(* The invariant holds throughout.                                         *)
THEOREM StepsInvariant == Spec => []StepsInv
<1> QED
    BY StepsInit, StepsNext, PTL DEF Spec

(* A plan, its runs and its results are what their definitions say.        *)
THEOREM TypeCorrect == Spec => []StepsType
<1>1. StepsInv => StepsType
      BY DEF StepsInv
<1> QED
    BY <1>1, StepsInvariant, PTL

-----------------------------------------------------------------------------
(* What a step of a plain plan is given is what the validation looks at.   *)
LEMMA PlainInputs ==
    ASSUME NEW step, IsStep(step), step.assets = <<>> => Elements(step.listed) \subseteq {None}
    PROVE  /\ Inputs(step) \subseteq Candidates(step)
           /\ Candidates(step) \subseteq Inputs(step) \cup {None}
<1>1. /\ Inputs(step) = ({step.asset} \ {None}) \cup Elements(RawList(step))
                           \cup Elements(step.named)
      /\ \A v \in Inputs(step) : v # None
      BY InputsOfStep
<1>2. Elements(step.assets) \subseteq Elements(RawList(step))
      BY NoElements DEF RawList
<1>3. Elements(RawList(step)) \subseteq Elements(step.assets) \cup {None}
      BY NoElements DEF RawList
<1> QED
    BY <1>1, <1>2, <1>3 DEF Candidates

(* A step that was run, or has its turn, was validated.                    *)
LEMMA RunsAreValid ==
    ASSUME StepsInv, NEW k \in DOMAIN plan, phase \notin {"proposed", "rejected"}
    PROVE  StepValid(plan, k) /\ IsStep(plan[k])
           /\ plan[k].capability_id \in DOMAIN CAPABILITIES_BY_ID
<1>1. StepValid(plan, k)
      BY DEF StepsInv, Judged, Valid
<1>2. IsStep(plan[k])
      BY PlanFacts DEF StepsInv, IsPlan
<1> QED
    BY <1>1, <1>2 DEF StepValid, Offered

(* What the scope has is no reference, and exists.                         *)
LEMMA ScopeIsAssets ==
    \A v \in Scope : ~(session \in Sessions) \/ (v \in Value /\ ~IsRef(v) /\ v[1] = "asset")
<1> SUFFICES ASSUME NEW v \in Scope, session \in Sessions
             PROVE  v \in Value /\ ~IsRef(v) /\ v[1] = "asset"
    OBVIOUS
<1>1. v \in Value /\ ~IsRef(v)
      BY ScopeAssets DEF Scope
<1> QED
    BY <1>1 DEF Value, IsRef

(* An accepted plan stops for want of assets only where a step made none.  *)
LEMMA UnresolvedIsMissing ==
    ASSUME StepsInv, Plainly, phase = "unresolved", NEW v \in Unresolved(plan[Upcoming])
    PROVE  \E k \in DOMAIN runs : plan[k].id = v[2] /\ runs[k].out = None
<1> DEFINE step == plan[Upcoming]
<1>1. Upcoming \in DOMAIN plan
      BY DEF StepsInv, Stopped
<1>2. StepValid(plan, Upcoming) /\ IsStep(step)
      BY <1>1, RunsAreValid
<1>3. v \in Inputs(step) /\ Resolve(v) = None /\ v # None
      BY <1>2, InputsOfStep DEF Unresolved
<1>4. IsRef(v) /\ OutputOf(v[2]) = None
      BY <1>3 DEF Resolve
<1>5. v \in Candidates(step)
      BY <1>1, <1>2, <1>3, PlainInputs DEF Plainly
<1>6. v[2] \in Seen(plan, Upcoming)
      BY <1>2, <1>4, <1>5 DEF StepValid, RefsInStep
<1>7. PICK i \in 1..(Upcoming - 1) : plan[i].id = v[2]
      BY <1>6 DEF Seen
<1>8. i \in DOMAIN runs
  <2>1. Upcoming = Len(runs) + 1 /\ Len(runs) \in Nat /\ DOMAIN runs = 1..Len(runs)
        BY PlanFacts DEF StepsInv
  <2> QED
      BY <1>7, <2>1
<1>9. Producers(v[2]) # {}
      BY <1>7, <1>8 DEF Producers
<1> QED
    BY <1>4, <1>9, OutputOfRun DEF StepsInv, StepsType

(* create_job refuses no asset of the scope that the validation let pass.  *)
LEMMA RefusedIsMade ==
    ASSUME StepsInv, phase = "refused"
    PROVE  IsRef(plan[Upcoming].asset)
<1> DEFINE step == plan[Upcoming]
           media == CAPABILITIES_BY_ID[step.capability_id].media
<1>1. Upcoming \in DOMAIN plan /\ ~Takes(step)
      BY DEF StepsInv, Stopped
<1>2. /\ StepValid(plan, Upcoming) /\ IsStep(step)
      /\ step.capability_id \in DOMAIN CAPABILITIES_BY_ID
      BY <1>1, RunsAreValid
<1>3. step.asset # None /\ MediaTypeOf(Resolve(step.asset)) \notin media
      BY <1>1 DEF Takes
<1>4. SUFFICES ASSUME ~IsRef(step.asset) PROVE FALSE
      OBVIOUS
<1>5. step.asset \in Scope
      BY <1>2, <1>3, <1>4 DEF IsStep, StepValid, Literals
<1>6. media # {}
      BY <1>2, RegisteredIsDefined, MediaNamed
<1>7. MediaOf[step.asset[2]] \in media
      BY <1>2, <1>5, <1>6 DEF StepValid, MediaMatches
<1>8. MediaTypeOf(step.asset) = MediaOf[step.asset[2]]
      BY <1>5, ScopeIsAssets DEF StepsInv, StepsType, MediaTypeOf
<1> QED
    BY <1>3, <1>4, <1>7, <1>8 DEF Resolve

(* A handler misses no parameter that the schema has it require.           *)
LEMMA LackingIsBlank ==
    ASSUME NEW step, step.capability_id \in DOMAIN CAPABILITIES_BY_ID, SatisfiesSchema(step)
    PROVE  MissingParams(step) \subseteq Handler(step.capability_id).named \cap step.given
<1> DEFINE required == CAPABILITIES_BY_ID[step.capability_id].required
           handler == Handler(step.capability_id)
<1>1. handler.params \subseteq required \ {"asset_ids"}
      /\ handler.named \subseteq required \ {"asset_ids"}
      BY RequiredIsEnough
<1>2. required \ {"asset_ids"} \subseteq step.given \cup DOMAIN step.named
      BY DEF SatisfiesSchema
<1> HIDE DEF required, handler
<1>3. /\ handler.params \ (step.given \cup DOMAIN step.named) = {}
      /\ handler.named \ DOMAIN step.named \subseteq handler.named \cap step.given
      BY <1>1, <1>2
<1>4. MissingParams(step) = (handler.params \ (step.given \cup DOMAIN step.named))
                                \cup (handler.named \ DOMAIN step.named)
      BY DEF MissingParams, handler
<1> QED
    BY <1>3, <1>4 DEF handler

(* A plan that was accepted runs, but for jobs without output and assets   *)
(* that jobs made.                                                         *)
LEMMA AcceptedRuns == StepsInv => AcceptedPlansRun
<1> SUFFICES ASSUME StepsInv PROVE AcceptedPlansRun
    OBVIOUS
<1>1. Plainly /\ phase = "unresolved" => OutputMissing(plan[Upcoming])
      BY UnresolvedIsMissing DEF OutputMissing
<1>2. phase = "refused" => IsRef(plan[Upcoming].asset)
      BY RefusedIsMade
<1>3. ASSUME phase = "lacking"
      PROVE  LET step == plan[Upcoming] IN
             MissingParams(step) \subseteq Handler(step.capability_id).named \cap step.given
  <2>1. Upcoming \in DOMAIN plan
        BY <1>3 DEF StepsInv, Stopped
  <2>2. /\ StepValid(plan, Upcoming)
        /\ plan[Upcoming].capability_id \in DOMAIN CAPABILITIES_BY_ID
        BY <1>3, <2>1, RunsAreValid
  <2> QED
      BY <2>2, LackingIsBlank DEF StepValid
<1> QED
    BY <1>1, <1>2, <1>3 DEF AcceptedPlansRun

(* "Checks a Plan is executable" (planner.py), as AcceptedPlansRun has it: *)
(* for every scope, every plan and all the capabilities.                   *)
THEOREM Accepted == Spec => []AcceptedPlansRun
<1> QED
    BY StepsInvariant, AcceptedRuns, PTL

(* The mock planner's plans are accepted and run.                          *)
LEMMA MockRuns == StepsInv => MockPlansWork
<1> SUFFICES ASSUME StepsInv, session.mock
             PROVE  /\ phase = "rejected" => TitleIsRef
                    /\ phase # "refused"
                    /\ phase = "unresolved" => OutputMissing(plan[Upcoming])
                    /\ phase = "lacking" =>
                          plan[Upcoming].id = "slides" /\ InScope(session, "image") = <<>>
    BY DEF MockPlansWork, TitleIsRef
<1>1. MockProposed /\ AcceptedPlansRun
      BY AcceptedRuns DEF StepsInv, StepsType, MockProposed
<1>2. \A k \in DOMAIN plan : MockStep(k)
      BY <1>1, MockStepsWork
<1>3. phase = "rejected" => TitleIsRef
      BY <1>1, MockIsValid DEF StepsInv, Judged
<1>4. phase # "refused"
      BY <1>1, <1>2 DEF StepsInv, Stopped, AcceptedPlansRun, MockStep
<1>5. Plainly
      BY <1>2 DEF Plainly, MockStep
<1>6. phase = "unresolved" => OutputMissing(plan[Upcoming])
      BY <1>1, <1>5 DEF AcceptedPlansRun
<1>7. ASSUME phase = "lacking"
      PROVE  plan[Upcoming].id = "slides" /\ InScope(session, "image") = <<>>
  <2> DEFINE step == plan[Upcoming]
  <2>1. Upcoming \in DOMAIN plan /\ Missing(step)
        BY <1>7 DEF StepsInv, Stopped
  <2>2. MissingParams(step) = {}
        BY <1>1, <1>2, <1>7, <2>1 DEF AcceptedPlansRun, MockStep
  <2>3. Len(InputFiles(step)) < Handler(step.capability_id).paths
        BY <2>1, <2>2 DEF Missing
  <2> QED
      BY <1>2, <2>1, <2>3 DEF MockStep
<1> QED
    BY <1>3, <1>4, <1>6, <1>7

(* MockPlanner (planner.py) proposes plans that run, whatever the scope.   *)
THEOREM MockPlans == Spec => []MockPlansWork
<1> QED
    BY StepsInvariant, MockRuns, PTL

(* A plain plan's jobs are given what is in scope or was made before.      *)
LEMMA KnownInputs == StepsInv => InputsAreKnown
<1> SUFFICES ASSUME StepsInv, Plainly, NEW k \in DOMAIN runs, NEW u \in runs[k].used
             PROVE  u \in Scope \cup {runs[i].out : i \in 1..(k - 1)}
    BY DEF InputsAreKnown
<1>1. k \in DOMAIN plan /\ FedTo(k)
      BY PlanFacts DEF StepsInv, Fed
<1>2. phase \notin {"proposed", "rejected"}
  <2>1. runs # <<>>
        OBVIOUS
  <2> QED
      BY <2>1 DEF StepsInv, Judged
<1>3. StepValid(plan, k) /\ IsStep(plan[k])
      BY <1>1, <1>2, RunsAreValid
<1>4. CASE u \in Inputs(plan[k]) /\ ~IsRef(u) /\ u[2] \in DOMAIN MediaOf
  <2>1. u \in Candidates(plan[k]) /\ u # None
        BY <1>1, <1>3, <1>4, PlainInputs, InputsOfStep DEF Plainly
  <2>2. u # Blank
    <3>1. "" \notin DOMAIN MediaOf
          BY MediaAssumption
    <3>2. Blank[2] = ""
          BY DEF Blank, Asset
    <3> QED
        BY <1>4, <3>1, <3>2
  <2>3. CASE u \in Elements(plan[k].named)
        BY <1>1, <1>4, <2>3 DEF Plainly
  <2>4. CASE u \in {plan[k].asset} \cup Elements(plan[k].assets)
        BY <1>3, <1>4, <2>1, <2>2, <2>4 DEF StepValid, Literals
  <2> QED
      BY <2>1, <2>3, <2>4 DEF Candidates
<1>5. CASE \E v \in Inputs(plan[k]) : IsRef(v) /\ Stands(v, u, k)
      BY <1>5 DEF Stands
<1> QED
    BY <1>1, <1>4, <1>5 DEF FedTo

(* No job of a plain plan reads what is neither in its session's scope nor *)
(* made by the plan (_build_job_input).                                    *)
THEOREM JobInputsKnown == Spec => []InputsAreKnown
<1> QED
    BY StepsInvariant, KnownInputs, PTL

(* An output is given to a job of a plain plan if and only if a step       *)
(* refers to the step that made it.                                        *)
LEMMA ConsumedIsUsed ==
    ASSUME StepsInv, Plainly, UniqueIds, phase = "succeeded",
           NEW k \in DOMAIN runs, runs[k].out # None
    PROVE  plan[k].id \in Consumed <=> runs[k].out \in UNION {runs[j].used : j \in DOMAIN runs}
<1>1. DOMAIN runs = DOMAIN plan
      BY DEF StepsInv, Sorted
<1>2. \A j \in DOMAIN runs : FedTo(j) /\ IsStep(plan[j])
      BY PlanFacts DEF StepsInv, Fed
<1>3. \A i \in DOMAIN runs : runs[i].out # None => runs[i].out = <<"out", i>>
      BY <1>2 DEF FedTo
<1>4. \A j \in DOMAIN runs : /\ Inputs(plan[j]) \subseteq Candidates(plan[j])
                             /\ Candidates(plan[j]) \subseteq Inputs(plan[j]) \cup {None}
      BY <1>1, <1>2, PlainInputs DEF Plainly
<1>5. \A j \in DOMAIN runs : \A i \in 1..(j - 1) : i \in DOMAIN runs
  <2>1. DOMAIN runs = 1..Len(runs) /\ Len(runs) \in Nat
        BY PlanFacts DEF StepsInv
  <2> QED
      BY <2>1
<1>6. ASSUME plan[k].id \in Consumed
      PROVE  runs[k].out \in UNION {runs[j].used : j \in DOMAIN runs}
  <2>1. PICK j \in DOMAIN runs : plan[k].id \in RefsInStep(plan[j])
        BY <1>1, <1>6 DEF Consumed
  <2>2. PICK v \in Candidates(plan[j]) : IsRef(v) /\ plan[k].id = v[2]
        BY <2>1 DEF RefsInStep
  <2>3. v \in Inputs(plan[j])
        BY <1>4, <2>2 DEF IsRef, None
  <2>4. PICK u \in runs[j].used : Stands(v, u, j)
        BY <1>2, <2>2, <2>3 DEF FedTo
  <2>5. PICK i \in 1..(j - 1) : plan[i].id = v[2] /\ u = runs[i].out
        BY <2>4 DEF Stands
  <2>6. i = k
        BY <1>1, <1>5, <2>2, <2>5 DEF UniqueIds
  <2> QED
      BY <2>4, <2>5, <2>6
<1>7. ASSUME NEW j \in DOMAIN runs, runs[k].out \in runs[j].used
      PROVE  plan[k].id \in Consumed
  <2>1. runs[k].out = <<"out", k>>
        BY <1>3
  <2>2. ~(runs[k].out \in Inputs(plan[j]))
    <3>1. \A v \in Inputs(plan[j]) : v \in Value
          BY <1>2, InputsOfStep
    <3>2. <<"out", k>> \notin Value
          BY DEF Value
    <3> QED
        BY <2>1, <3>1, <3>2
  <2>3. PICK v \in Inputs(plan[j]) : IsRef(v) /\ Stands(v, runs[k].out, j)
        BY <1>2, <1>7, <2>2 DEF FedTo
  <2>4. PICK i \in 1..(j - 1) : plan[i].id = v[2] /\ runs[k].out = runs[i].out
        BY <2>3 DEF Stands
  <2>5. i = k
    <3>1. i \in DOMAIN runs /\ runs[i].out # None
          BY <1>5, <2>4
    <3>2. <<"out", i>> = <<"out", k>>
          BY <1>3, <2>1, <2>4, <3>1
    <3> QED
        BY <3>2
  <2>6. v[2] \in RefsInStep(plan[j])
        BY <1>4, <2>3 DEF RefsInStep
  <2> QED
      BY <1>1, <2>4, <2>5, <2>6 DEF Consumed
<1> QED
    BY <1>6, <1>7

(* A plain plan's results are the outputs that no job was given.           *)
LEMMA UnusedResults == StepsInv => ResultsAreUnused
<1> DEFINE used == UNION {runs[k].used : k \in DOMAIN runs}
<1> SUFFICES ASSUME StepsInv, Plainly, UniqueIds, phase = "succeeded"
             PROVE  finals = Outs(DOMAIN runs) \ used /\ flagged = Outs(DOMAIN runs) \cap used
    BY DEF ResultsAreUnused
<1>1. /\ finals = Outs({k \in DOMAIN runs : plan[k].id \notin Consumed})
      /\ flagged = Outs({k \in DOMAIN runs : plan[k].id \in Consumed})
      BY DEF StepsInv, Sorted
<1>2. \A k \in DOMAIN runs : runs[k].out # None =>
          (plan[k].id \in Consumed <=> runs[k].out \in used)
      BY ConsumedIsUsed
<1> HIDE DEF used
<1> QED
    BY <1>1, <1>2 DEF Outs

(* final_asset_ids and is_intermediate (execute_plan) say of a plain plan  *)
(* what its jobs did with its assets.                                      *)
THEOREM ResultsUnused == Spec => []ResultsAreUnused
<1> QED
    BY StepsInvariant, UnusedResults, PTL
=============================================================================
