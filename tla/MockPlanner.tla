---------------------------- MODULE MockPlanner ----------------------------
(***************************************************************************)
(* The planner that needs no model (agent/llm.py, MockPlanner): what it    *)
(* proposes for a text, of which only the words it looks for count, and    *)
(* for the assets of the session's scope.                                  *)
(*                                                                         *)
(* Also the shape of a step (agent/schemas.py), which it shares with       *)
(* PlanSteps.  A value is <<"asset", id>> or, written '@id', <<"step", id>>*)
(***************************************************************************)
EXTENDS Sequences

None == <<"none">>
NoList == <<None>>
NoValues == <<>>   \* the function of an empty domain

(* `given` are the keys of params with a plain value, `named` those whose  *)
(* value is an asset or starts with '@', `listed` is params.asset_ids.     *)
PlanStep(id, capability_id) ==
    [id |-> id, capability_id |-> capability_id, asset |-> None, assets |-> <<>>,
     given |-> {}, named |-> NoValues, listed |-> NoList, depends_on |-> {}]

Ref(id) == <<"step", id>>

(* "at" is a quoted title that starts with '@'.                            *)
Word == {"slideshow", "title", "at", "trim", "digit", "thumbnail", "mute", "resize"}

-----------------------------------------------------------------------------
Size == {"width", "height"}

TitleStep(words) ==
    LET step == [PlanStep("title", "media.titlecard") EXCEPT !.given = Size \cup {"duration"}]
    IN IF "at" \in words THEN [step EXCEPT !.named = [text |-> Ref("at")]]
       ELSE [step EXCEPT !.given = @ \cup {"text"}]

SlidesStep(images) ==
    [PlanStep("slides", "image.slideshow") EXCEPT
        !.assets = images, !.listed = images, !.given = Size \cup {"seconds_per_image"}]

ExportStep(before, audios) ==
    LET inputs == [i \in DOMAIN before |-> Ref(before[i].id)] IN
    [PlanStep("export", "video.compose") EXCEPT
        !.assets = inputs, !.listed = inputs,
        !.depends_on = {before[i].id : i \in DOMAIN before},
        !.given = IF audios = <<>> THEN Size ELSE Size \cup {"audio_mode"},
        !.named = IF audios = <<>> THEN NoValues ELSE [audio_asset_id |-> audios[1]]]

(* Mutant: the export is listed before the steps it puts together.         *)
Slideshow_ExportFirst(words, images, audios) ==
    LET slides == SlidesStep(images)
        before == IF "title" \in words THEN <<TitleStep(words), slides>> ELSE <<slides>>
    IN <<ExportStep(before, audios)>> \o before

Slideshow(words, images, audios) ==
    LET slides == SlidesStep(images)
        before == IF "title" \in words THEN <<TitleStep(words), slides>> ELSE <<slides>>
    IN Append(before, ExportStep(before, audios))

OnVideo(id, capability_id, given, video) ==
    <<[PlanStep(id, capability_id) EXCEPT !.given = given, !.asset = video]>>

Clarification == <<>>

(* propose: the first word that it knows decides.                          *)
Propose(words, images, videos, audios) ==
    IF "slideshow" \in words THEN Slideshow(words, images, audios)
    ELSE IF ("trim" \in words /\ "digit" \notin words) \/ videos = <<>> THEN Clarification
    ELSE IF "thumbnail" \in words
         THEN OnVideo("thumb", "video.thumbnail", {"timestamp"}, videos[1])
    ELSE IF "mute" \in words THEN OnVideo("mute", "video.mute", {}, videos[1])
    ELSE IF "resize" \in words THEN OnVideo("resize", "video.resize", Size, videos[1])
    ELSE Clarification
=============================================================================
