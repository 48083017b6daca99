---------------------------- MODULE Capabilities ----------------------------
(***************************************************************************)
(* The registry of capabilities: what capabilities/definitions.py declares *)
(* of each (the media types it takes, its cost class and the parameters    *)
(* its schema requires), and what its handler in capabilities/handlers/    *)
(* really asks for when it runs.  Two tables, written in different files   *)
(* and never compared by the code.  Every capability is enabled, and       *)
(* nothing changes after import.                                           *)
(***************************************************************************)
EXTENDS Naturals

Media == {"image", "video", "audio", "subtitle", "unknown"}

-----------------------------------------------------------------------------
(* definitions.py.  A row of a group is an id and the parameters that its  *)
(* schema requires.                                                        *)
Declared(cost_class, media, rows) ==
    {[id |-> r[1], cost_class |-> cost_class, media |-> media, required |-> r[2]] : r \in rows}

Local(media, rows) == Declared("deterministic", media, rows)

NoneRequired(ids) == {<<c, {}>> : c \in ids}

HostedSpecs ==
    Declared("hosted_ai", {"audio", "video"},
             NoneRequired({"audio.transcribe", "subtitle.autogenerate"}))
    \cup Declared("hosted_ai", {"audio"},
                  {<<"audio.tts", {"text"}>>, <<"audio.music.generate", {"prompt"}>>,
                   <<"audio.separate.stems", {}>>})
    \cup Declared("hosted_ai", {"image"},
                  NoneRequired({"image.background.remove", "image.inpaint",
                                "image.restore.face", "image.caption", "image.tag"}))
    \cup Declared("future_gpu", {"video"}, NoneRequired({"video.upscale"}))

VideoSpecs ==
    Local({"video"},
          {<<"video.trim", {"start", "end"}>>, <<"video.split", {"markers"}>>,
           <<"video.concat", {"asset_ids"}>>, <<"video.transcode", {"format"}>>,
           <<"video.mute", {}>>, <<"video.crop", {"x", "y", "width", "height"}>>,
           <<"video.resize", {"width", "height"}>>, <<"video.thumbnail", {"timestamp"}>>})

ImageSpecs ==
    Local({"image"},
          {<<"image.resize", {"width", "height"}>>,
           <<"image.crop", {"x", "y", "width", "height"}>>,
           <<"image.format", {"format"}>>, <<"image.colour.adjust", {}>>,
           <<"image.upscale", {}>>})

AudioSpecs ==
    Local({"audio"},
          {<<"audio.trim", {"start", "end"}>>, <<"audio.concat", {"asset_ids"}>>,
           <<"audio.gain", {"gain_db"}>>, <<"audio.transcode", {"format"}>>}
          \cup NoneRequired({"audio.normalize", "audio.fade", "audio.denoise"}))

ComposeSpecs ==
    Local({"image"}, {<<"image.slideshow", {"asset_ids"}>>})
    \cup Local({"video"},
               {<<"media.titlecard", {"text"}>>, <<"video.compose", {"asset_ids"}>>,
                <<"video.subtitle.embed", {"subtitle_asset_id"}>>})
    \cup Local({"video", "audio"}, {<<"audio.mix", {"music_asset_id"}>>})

DetectSpecs == Local({"video"}, NoneRequired({"video.shot.detect"}))

CAPABILITIES ==
    HostedSpecs \cup VideoSpecs \cup ImageSpecs \cup AudioSpecs \cup ComposeSpecs
    \cup DetectSpecs

CAPABILITIES_BY_ID ==
    [c \in {s.id : s \in CAPABILITIES} |-> CHOOSE s \in CAPABILITIES : s.id = c]

-----------------------------------------------------------------------------
(* capabilities/handlers/.  `paths` is the least number of input files,    *)
(* `params` the keys it asks for with require, `named` the secondary       *)
(* inputs it cannot do without, `makes` the media types of its outputs.    *)
Handled(makes, paths, rows) ==
    {[id |-> r[1], paths |-> paths, params |-> r[2], named |-> {}, makes |-> makes] : r \in rows}

WithNamed(makes, id, named) ==
    [id |-> id, paths |-> 1, params |-> {}, named |-> named, makes |-> makes]

VideoHandlers ==
    Handled({"video"}, 1,
            {<<"video.trim", {"start", "end"}>>, <<"video.split", {"markers"}>>,
             <<"video.transcode", {"format"}>>, <<"video.mute", {}>>,
             <<"video.crop", {"x", "y", "width", "height"}>>,
             <<"video.resize", {"width", "height"}>>})
    \cup Handled({"video"}, 2, {<<"video.concat", {}>>})
    \cup Handled({"image"}, 1, {<<"video.thumbnail", {"timestamp"}>>})
    \cup Handled({}, 1, {<<"video.shot.detect", {}>>})

ImageHandlers ==
    Handled({"image"}, 1,
            {<<"image.resize", {"width", "height"}>>,
             <<"image.crop", {"x", "y", "width", "height"}>>,
             <<"image.format", {"format"}>>, <<"image.upscale", {}>>,
             <<"image.colour.adjust", {}>>})

AudioHandlers ==
    Handled({"audio"}, 1,
            {<<"audio.trim", {"start", "end"}>>, <<"audio.gain", {"gain_db"}>>,
             <<"audio.transcode", {"format"}>>}
            \cup NoneRequired({"audio.normalize", "audio.fade", "audio.denoise"}))
    \cup Handled({"audio"}, 2, {<<"audio.concat", {}>>})

(* audio.mix keeps the media type of its first input.                      *)
ComposeHandlers ==
    Handled({"video"}, 1, NoneRequired({"image.slideshow", "video.compose"}))
    \cup Handled({"video"}, 0, {<<"media.titlecard", {"text"}>>})
    \cup {WithNamed({"video"}, "video.subtitle.embed", {"subtitle_asset_id"}),
          WithNamed({"video", "audio"}, "audio.mix", {"music_asset_id"})}

(* A provider decides itself what it can do without; speech may come back  *)
(* as a file.                                                              *)
ProviderHandlers ==
    Handled({}, 0, NoneRequired({"image.caption", "audio.transcribe"}))
    \cup Handled({"audio"}, 0, NoneRequired({"audio.tts"}))

HANDLERS ==
    VideoHandlers \cup ImageHandlers \cup AudioHandlers \cup ComposeHandlers
    \cup ProviderHandlers

(* Every other capability answers that it is not implemented: a success    *)
(* that asks for nothing and makes nothing.                                *)
NotImplemented(c) == [id |-> c, paths |-> 0, params |-> {}, named |-> {}, makes |-> {}]

Handler(c) ==
    IF \E h \in HANDLERS : h.id = c THEN CHOOSE h \in HANDLERS : h.id = c ELSE NotImplemented(c)

Makes(c, first) ==
    IF c = "audio.mix" THEN {IF first = "video" THEN "video" ELSE "audio"}
    ELSE Handler(c).makes

-----------------------------------------------------------------------------
(* What the planner may use: agent_deterministic_only hides the hosted and *)
(* the GPU capabilities.                                                   *)
Offered(deterministicOnly) ==
    {c \in DOMAIN CAPABILITIES_BY_ID :
        deterministicOnly => CAPABILITIES_BY_ID[c].cost_class = "deterministic"}
=============================================================================
