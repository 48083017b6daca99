---------------------------- MODULE MCPlanSteps ----------------------------
(* Values for the constants of PlanSteps: sessions, and the plans that a   *)
(* language model may propose in them.                                     *)
EXTENDS PlanSteps

MCMediaOf == [img |-> "image", vid |-> "video", snd |-> "audio"]

Shown(images, videos, audios) ==
    [media \in Media |-> CASE media = "image" -> images [] media = "video" -> videos
                         [] media = "audio" -> audios [] OTHER -> <<>>]

(* One language model session of each setting, and the mock's, with and    *)
(* without something to show.                                              *)
MCSessions ==
    [scope : {Shown(<<"img">>, <<"vid">>, <<>>)}, deterministic_only : BOOLEAN, mock : {FALSE}]
    \cup [scope : {Shown(<<>>, <<"vid">>, <<"snd">>), Shown(<<"img">>, <<"vid">>, <<"snd">>),
                   Shown(<<"img">>, <<>>, <<>>), Shown(<<>>, <<>>, <<>>)},
          deterministic_only : BOOLEAN, mock : {TRUE}]

Img == Asset("img")
Vid == Asset("vid")
Snd == Asset("snd")   \* exists, but in the scope of no such session
Lost == Asset("lost") \* does not exist

Required(c) == IF c \in DOMAIN CAPABILITIES_BY_ID THEN CAPABILITIES_BY_ID[c].required ELSE {}

(* The plain parameters that a step's schema asks for.                     *)
Plain(c) == Required(c) \ {"asset_ids", "subtitle_asset_id", "music_asset_id"}

Steps(ids, caps, asset, assets, named, listed, depends) ==
    UNION {[id : ids, capability_id : {c}, given : {Plain(c)}, asset : asset,
            assets : assets, named : named, listed : listed, depends_on : depends] : c \in caps}

(* Every capability, with its parameters, without, and with empty strings. *)
Single ==
    UNION {[id : {"a"}, capability_id : {c}, asset : {None, Img, Vid},
            given : {Plain(c), {}, Required(c) \ {"asset_ids"}},
            assets : {<<>>, <<Img>>, <<Vid, Vid>>, <<Blank>>},
            named : {NoValues, [subtitle_asset_id |-> Img], [music_asset_id |-> Lost]},
            listed : {NoList, <<>>}, depends_on : {{}}] : c \in DOMAIN CAPABILITIES_BY_ID}

Wide == Steps({"a", "b"}, {"image.resize", "image.slideshow", "audio.mix", "none"},
              {None, Img, Vid, Lost, Ref("a")},
              {<<>>, <<Ref("a"), Img>>, <<Snd>>},
              {NoValues, [music_asset_id |-> Ref("a")]},
              {NoList, <<Ref("b")>>}, {{}, {"a"}})

Narrow == Steps({"a", "b"}, {"image.caption", "video.thumbnail", "video.mute"},
                {None, Img, Vid, Ref("a"), Ref("b")}, {<<>>}, {NoValues}, {NoList}, {{}})

Chain == Steps({"a", "b", "c"}, {"image.resize"}, {None, Img, Ref("a")},
               {<<>>, <<Ref("b")>>}, {NoValues, [watermark |-> Ref("a")]}, {NoList}, {{}})

AllPlans ==
    {<<>>} \cup [1..1 -> Single] \cup [1..3 -> Chain]
    \cup {<<w, n>> : w \in Wide, n \in Narrow} \cup {<<n, w>> : n \in Narrow, w \in Wide}
=============================================================================
