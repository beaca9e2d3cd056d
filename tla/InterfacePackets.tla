------------------------- MODULE InterfacePackets --------------------------
(***************************************************************************)
(* Packets about the interface: forms, commands, text, cameras, scripts.   *)
(* One definition per class: what write puts on the stream, in order, and  *)
(* what read takes off it.                                                 *)
(***************************************************************************)
EXTENDS PacketTypes

AddBehaviorTree == Codec(<<String("behavior_tree_json")>>, <<String("behavior_tree_json")>>)

AddPainting == Codec(
    <<ActorUniqueID("entity_id"), ActorRuntimeID("runtime_id"), Vec3("position"),
      VarInt("direction"), String("motive")>>,
    <<ActorUniqueID("entity_id"), ActorRuntimeID("runtime_id"), Vec3("position"),
      VarInt("direction"), String("motive")>>)

AvailableCommands == Codec(<<Rest("commands_data")>>, <<Rest("commands_data")>>)

AwardAchievement == Codec(<<Int32("achievement_id")>>, <<Int32("achievement_id")>>)

BookEdit == Codec(
    <<Byte("action"), Byte("inventory_slot"),
      If(Is("action", {0, 1}), <<Byte("page_number"), String("text"), String("photo")>>),
      If(Is("action", {2}), <<Byte("page_number")>>),
      If(Is("action", {3}), <<Byte("page_number"), Byte("secondary_page_number")>>),
      If(Is("action", {4}), <<String("title"), String("author"), String("xuid")>>)>>,
    <<Byte("action"), Byte("inventory_slot"),
      If(Is("action", {0, 1}), <<Byte("page_number"), String("text"), String("photo")>>),
      If(Is("action", {2}), <<Byte("page_number")>>),
      If(Is("action", {3}), <<Byte("page_number"), Byte("secondary_page_number")>>),
      If(Is("action", {4}), <<String("title"), String("author"), String("xuid")>>)>>)

CameraAimAssist == Codec(
    <<String("preset_id"), Vec2("view_angle"), Float("distance"), Byte("target_mode"),
      Byte("action")>>,
    <<String("preset_id"), Vec2("view_angle"), Float("distance"), Byte("target_mode"),
      Byte("action")>>)

CameraAimAssistPresets == Codec(<<Rest("presets_data")>>, <<Rest("presets_data")>>)

CameraInstruction == Codec(<<Rest("instruction_data")>>, <<Rest("instruction_data")>>)

Camera == Codec(
    <<ActorUniqueID("camera_entity_id"), ActorUniqueID("target_player_id")>>,
    <<ActorUniqueID("camera_entity_id"), ActorUniqueID("target_player_id")>>)

CameraPresets == Codec(<<Rest("presets_data")>>, <<Rest("presets_data")>>)

CameraShake == Codec(
    <<Float("intensity"), Float("seconds"), Byte("shake_type"), Byte("shake_action")>>,
    <<Float("intensity"), Float("seconds"), Byte("shake_type"), Byte("shake_action")>>)

CameraSpline == Codec(<<Rest("spline_data")>>, <<Rest("spline_data")>>)

ClientCameraAimAssist == Codec(
    <<Vec2("view_angle"), Float("distance"), Byte("target_mode"),
      ActorUniqueID("target_entity_id")>>,
    <<Vec2("view_angle"), Float("distance"), Byte("target_mode"),
      ActorUniqueID("target_entity_id")>>)

ClientboundControlSchemeSet == Codec(<<Byte("control_scheme")>>, <<Byte("control_scheme")>>)

ClientboundDataDrivenUICloseScreen == Codec(
    <<Optional("byte", "form_id", <<Int32("it")>>)>>,
    <<Optional("byte", "form_id", <<Int32("it")>>)>>)

ClientboundDataDrivenUIShowScreen == Codec(
    <<String("screen_name"), String("screen_data")>>,
    <<String("screen_name"), String("screen_data")>>)

ClientboundDataStore == Codec(<<Rest("store_data")>>, <<Rest("store_data")>>)

ClientboundDebugRenderer == Codec(
    <<Int32("type"),
      If(Is("type", {2}),
        <<String("text"), Vec3("position"), Float("r"), Float("g"), Float("b"), Float("a"),
          Int64("duration_ms")>>)>>,
    <<Int32("type"),
      If(Is("type", {2}),
        <<String("text"), Vec3("position"), Float("r"), Float("g"), Float("b"), Float("a"),
          Int64("duration_ms")>>)>>)

ClientboundTextureShift == Codec(<<Rest("shift_data")>>, <<Rest("shift_data")>>)

CodeBuilder == Codec(
    <<String("url"), Bool("should_open")>>,
    <<String("url"), Bool("should_open")>>)

CodeBuilderSource == Codec(
    <<Byte("operation"), Byte("category"), String("source_code")>>,
    <<Byte("operation"), Byte("category"), String("source_code")>>)

CommandOutput == Codec(
    <<UVarInt("command_origin_type"), UUID("command_origin_uuid"), String("request_id"),
      Byte("output_type"), UVarInt("success_count"), Count("messages"),
      Each("messages",
        <<Bool("is_success"), String("message_id"), Count("parameters"),
          Each("parameters", <<String("it")>>)>>)>>,
    <<UVarInt("command_origin_type"), UUID("command_origin_uuid"), String("request_id"),
      Byte("output_type"), UVarInt("success_count"), Count("messages"),
      Each("messages",
        <<Bool("is_success"), String("message_id"), Count("parameters"),
          Each("parameters", <<String("it")>>)>>)>>)

CommandRequest == Codec(
    <<String("command"), UVarInt("command_origin_type"), UUID("command_origin_uuid"),
      String("request_id"),
      If(Is("command_origin_type", {3, 7}), <<Literal("varint64", 0)>>),
      Bool("is_internal"), VarInt("version")>>,
    <<String("command"), UVarInt("command_origin_type"), UUID("command_origin_uuid"),
      String("request_id"), If(Is("command_origin_type", {3, 7}), <<Skip("varint64")>>),
      Bool("is_internal"), VarInt("version")>>)

CreatePhoto == Codec(
    <<Int64("entity_unique_id"), String("photo_name"), String("item_name")>>,
    <<Int64("entity_unique_id"), String("photo_name"), String("item_name")>>)

DeathInfo == Codec(
    <<String("death_cause_message"), Count("death_cause_params"),
      Each("death_cause_params", <<String("it")>>)>>,
    <<String("death_cause_message"), Count("death_cause_params"),
      Each("death_cause_params", <<String("it")>>)>>)

DebugDrawer == Codec(<<Rest("shape_data")>>, <<Rest("shape_data")>>)

DebugInfo == Codec(
    <<ActorUniqueID("entity_id"), String("data")>>,
    <<ActorUniqueID("entity_id"), String("data")>>)

EditorNetwork == Codec(<<NbtIfSet("editor_data")>>, <<Nbt("editor_data")>>)

EduUriResource == Codec(
    <<String("button_name"), String("link_uri")>>,
    <<String("button_name"), String("link_uri")>>)

GraphicsOverrideParameter == Codec(<<Rest("parameter_data")>>, <<Rest("parameter_data")>>)

LessonProgress == Codec(
    <<VarInt("action"), VarInt("score"), String("activity_id")>>,
    <<VarInt("action"), VarInt("score"), String("activity_id")>>)

ModalFormRequest == Codec(
    <<UVarInt("form_id"), String("form_json")>>,
    <<UVarInt("form_id"), String("form_json")>>)

ModalFormResponse == Codec(
    <<UVarInt("form_id"), Bool("has_response_data"),
      If(IsNot("has_response_data", {0}), <<String("response_json")>>),
      Bool("has_cancel_reason"),
      If(IsNot("has_cancel_reason", {0}), <<Byte("cancel_reason")>>)>>,
    <<UVarInt("form_id"), Bool("has_response_data"),
      If(IsNot("has_response_data", {0}), <<String("response_json")>>),
      Bool("has_cancel_reason"),
      If(IsNot("has_cancel_reason", {0}), <<Byte("cancel_reason")>>)>>)

OnScreenTextureAnimation == Codec(<<Int32("animation_type")>>, <<Int32("animation_type")>>)

RemoveObjective == Codec(<<String("objective_name")>>, <<String("objective_name")>>)

RequestPermissions == Codec(
    <<Int64("target_player_raw_id"), VarInt("player_permission_level"),
      Short("custom_permission_flags")>>,
    <<Int64("target_player_raw_id"), VarInt("player_permission_level"),
      Short("custom_permission_flags")>>)

ScriptCustomEvent == Codec(
    <<String("event_name"), String("event_data")>>,
    <<String("event_name"), String("event_data")>>)

ScriptMessage == Codec(
    <<String("message_id"), String("message_value")>>,
    <<String("message_id"), String("message_value")>>)

ServerScriptDebugDrawer == Codec(<<String("draw_data")>>, <<String("draw_data")>>)

ServerboundDataDrivenScreenClosed == Codec(
    <<Int32("form_id"), Int32("close_reason")>>,
    <<Int32("form_id"), Int32("close_reason")>>)

ServerboundDataStore == Codec(<<Rest("store_data")>>, <<Rest("store_data")>>)

SetDefaultGameType == Codec(<<VarInt("game_type")>>, <<VarInt("game_type")>>)

SetDisplayObjective == Codec(
    <<String("display_slot"), String("objective_name"), String("display_name"),
      String("criteria_name"), VarInt("sort_order")>>,
    <<String("display_slot"), String("objective_name"), String("display_name"),
      String("criteria_name"), VarInt("sort_order")>>)

SetHud == Codec(
    <<Count("hud_elements"), Each("hud_elements", <<UVarInt("it")>>), Byte("visibility")>>,
    <<Count("hud_elements"), Each("hud_elements", <<UVarInt("it")>>), Byte("visibility")>>)

SetScore == Codec(
    <<Byte("type"), Count("entries"),
      Each("entries",
        <<Sub("scoreboard_id", ScoreboardId), String("objective_name"),
          Int32("score_value"),
          If(Is("type", {0}),
            <<Byte("identity_type"),
              If(Is("identity_type", {1}), <<VarInt64("player_unique_id")>>),
              If(Is("identity_type", {2}), <<ActorUniqueID("actor_id")>>),
              If(Is("identity_type", {3}), <<String("fake_player_name")>>)>>)>>)>>,
    <<Byte("type"), Count("entries"),
      Each("entries",
        <<Sub("scoreboard_id", ScoreboardId), String("objective_name"),
          Int32("score_value"),
          If(Is("type", {0}),
            <<Byte("identity_type"),
              If(Is("identity_type", {1}), <<VarInt64("player_unique_id")>>),
              If(Is("identity_type", {2}), <<ActorUniqueID("actor_id")>>),
              If(Is("identity_type", {3}), <<String("fake_player_name")>>)>>)>>)>>)

SetScoreboardIdentity == Codec(
    <<Byte("type"), Count("entries"),
      Each("entries",
        <<Sub("scoreboard_id", ScoreboardId),
          If(Is("type", {0}), <<VarInt64("player_unique_id")>>)>>)>>,
    <<Byte("type"), Count("entries"),
      Each("entries",
        <<Sub("scoreboard_id", ScoreboardId),
          If(Is("type", {0}), <<VarInt64("player_unique_id")>>)>>)>>)

SetTitle == Codec(
    <<VarInt("title_type"), String("title_text"), VarInt("fade_in_time"),
      VarInt("stay_time"), VarInt("fade_out_time"), String("xuid"),
      String("platform_online_id"), String("filtered_title_text")>>,
    <<VarInt("title_type"), String("title_text"), VarInt("fade_in_time"),
      VarInt("stay_time"), VarInt("fade_out_time"), String("xuid"),
      String("platform_online_id"), String("filtered_title_text")>>)

SettingsCommand == Codec(
    <<String("command"), Bool("suppress_output")>>,
    <<String("command"), Bool("suppress_output")>>)

ShowCredits == Codec(
    <<ActorRuntimeID("player_id"), VarInt("status")>>,
    <<ActorRuntimeID("player_id"), VarInt("status")>>)

ShowProfile == Codec(<<String("xuid")>>, <<String("xuid")>>)

ShowStoreOffer == Codec(
    <<String("offer_id"), Byte("show_type")>>,
    <<String("offer_id"), Byte("show_type")>>)

SimpleEvent == Codec(<<Short("event_type")>>, <<Short("event_type")>>)

Text == Codec(
    <<Byte("type"), Bool("needs_translation"),
      If(Is("type", {1, 7, 8}), <<String("source_name"), String("message")>>),
      If(Is("type", {0, 5, 6, 9, 10, 11}), <<String("message")>>),
      If(Is("type", {2, 3, 4}),
        <<String("message"), Count("parameters"), Each("parameters", <<String("it")>>)>>),
      String("xuid"), String("platform_chat_id"), String("filtered_message")>>,
    <<Byte("type"), Bool("needs_translation"),
      If(Is("type", {1, 7, 8}), <<String("source_name"), String("message")>>),
      If(Is("type", {0, 5, 6, 9, 10, 11}), <<String("message")>>),
      If(Is("type", {2, 3, 4}),
        <<String("message"), Count("parameters"), Each("parameters", <<String("it")>>)>>),
      String("xuid"), String("platform_chat_id"), String("filtered_message")>>)

ToastRequest == Codec(
    <<String("title"), String("content")>>,
    <<String("title"), String("content")>>)

UpdateClientInputLocks == Codec(
    <<UVarInt("lock_component_data"), Vec3("server_position")>>,
    <<UVarInt("lock_component_data"), Vec3("server_position")>>)

UpdateClientOptions == Codec(<<Rest("options_data")>>, <<Rest("options_data")>>)

UpdateSoftEnum == Codec(
    <<String("enum_name"), Count("values"), Each("values", <<String("it")>>),
      Byte("update_type")>>,
    <<String("enum_name"), Count("values"), Each("values", <<String("it")>>),
      Byte("update_type")>>)

ClientboundCloseForm == Codec(<<>>, <<>>)

ClientboundDataDrivenUIReload == Codec(<<>>, <<>>)
=============================================================================
