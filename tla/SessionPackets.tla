-------------------------- MODULE SessionPackets ---------------------------
(***************************************************************************)
(* Packets that set up, configure and end a session.                       *)
(* One definition per class: what write puts on the stream, in order, and  *)
(* what read takes off it.                                                 *)
(***************************************************************************)
EXTENDS PacketTypes

AutomationClientConnect == Codec(<<String("server_uri")>>, <<String("server_uri")>>)

ChunkRadiusUpdated == Codec(<<VarInt("chunk_radius")>>, <<VarInt("chunk_radius")>>)

ClientCacheBlobStatus == Codec(
    <<Count("missing_ids"), Count("found_ids"), Each("missing_ids", <<Int64("it")>>),
      Each("found_ids", <<Int64("it")>>)>>,
    <<Count("missing_ids"), Count("found_ids"), Each("missing_ids", <<Int64("it")>>),
      Each("found_ids", <<Int64("it")>>)>>)

ClientCacheMissResponse == Codec(
    <<Count("missing_blobs"),
      Each("missing_blobs", <<Int64("blob_id"), String("blob_data")>>)>>,
    <<Count("missing_blobs"),
      Each("missing_blobs", <<Int64("blob_id"), String("blob_data")>>)>>)

ClientCacheStatus == Codec(<<Bool("cache_supported")>>, <<Bool("cache_supported")>>)

CompressedBiomeDefinitionList == Codec(<<Rest("raw_payload")>>, <<Rest("raw_payload")>>)

\* Mutant: the messages are read whether they were written or not.
DisconnectUnconditional == Codec(
    <<VarInt("reason"), Bool("skip_message"),
      If(Is("skip_message", {0}), <<String("message"), String("filtered_message")>>)>>,
    <<VarInt("reason"), Bool("skip_message"), String("message"), String("filtered_message")>>)

Disconnect == Codec(
    <<VarInt("reason"), Bool("skip_message"),
      If(Is("skip_message", {0}), <<String("message"), String("filtered_message")>>)>>,
    <<VarInt("reason"), Bool("skip_message"),
      If(Is("skip_message", {0}), <<String("message"), String("filtered_message")>>)>>)

EducationSettings == Codec(
    <<String("code_builder_uri"), String("code_builder_title"),
      Bool("can_resize_code_builder"), Bool("has_override_uri"),
      If(IsNot("has_override_uri", {0}), <<String("override_uri")>>), Bool("has_quiz"),
      If(IsNot("has_quiz", {0}), <<String("quiz_url")>>)>>,
    <<String("code_builder_uri"), String("code_builder_title"),
      Bool("can_resize_code_builder"), Bool("has_override_uri"),
      If(IsNot("has_override_uri", {0}), <<String("override_uri")>>), Bool("has_quiz"),
      If(IsNot("has_quiz", {0}), <<String("quiz_url")>>)>>)

FeatureRegistry == Codec(
    <<Count("features"),
      Each("features", <<String("feature_name"), String("binary_json_output")>>)>>,
    <<Count("features"),
      Each("features", <<String("feature_name"), String("binary_json_output")>>)>>)

GameRulesChanged == Codec(
    <<Count("rules"),
      Each("rules",
        <<String("name"), Bool("editable"), UVarInt("type"),
          If(Is("type", {1}), <<Bool("bool_value")>>),
          If(Is("type", {2}), <<VarInt("int_value")>>),
          If(Is("type", {3}), <<Float("float_value")>>)>>)>>,
    <<Count("rules"),
      Each("rules",
        <<String("name"), Bool("editable"), UVarInt("type"),
          If(Is("type", {1}), <<Bool("bool_value")>>),
          If(Is("type", {2}), <<VarInt("int_value")>>),
          If(Is("type", {3}), <<Float("float_value")>>)>>)>>)

LegacyTelemetryEvent == Codec(
    <<ActorUniqueID("target_actor_id"), VarInt("event_type"), Bool("use_player_id"),
      Rest("event_data")>>,
    <<ActorUniqueID("target_actor_id"), VarInt("event_type"), Bool("use_player_id"),
      Rest("event_data")>>)

Login == Codec(
    <<BigInt("client_network_version"), String("connection_request")>>,
    <<BigInt("client_network_version"), String("connection_request")>>)

MultiplayerSettings == Codec(<<VarInt("action_type")>>, <<VarInt("action_type")>>)

NetworkSettings == Codec(
    <<Short("compression_threshold"), Short("compression_algorithm"),
      Bool("client_throttle_enabled"), Byte("client_throttle_threshold"),
      Float("client_throttle_scalar")>>,
    <<Short("compression_threshold"), Short("compression_algorithm"),
      Bool("client_throttle_enabled"), Byte("client_throttle_threshold"),
      Float("client_throttle_scalar")>>)

NetworkStackLatency == Codec(
    <<Int64("timestamp"), Bool("from_server")>>,
    <<Int64("timestamp"), Bool("from_server")>>)

PacketViolationWarning == Codec(
    <<VarInt("violation_type"), VarInt("severity"), VarInt("packet_id_cause"),
      String("context")>>,
    <<VarInt("violation_type"), VarInt("severity"), VarInt("packet_id_cause"),
      String("context")>>)

PartyChanged == Codec(<<String("party_id")>>, <<String("party_id")>>)

PhotoTransfer == Codec(
    <<String("photo_name"), String("photo_data"), String("book_id"), Byte("photo_type"),
      Byte("source_type"), Int64("owner_entity_unique_id"), String("new_photo_name")>>,
    <<String("photo_name"), String("photo_data"), String("book_id"), Byte("photo_type"),
      Byte("source_type"), Int64("owner_entity_unique_id"), String("new_photo_name")>>)

Ping == Codec(<<Int64("send_time")>>, <<Int64("send_time")>>)

PlayStatus == Codec(<<BigInt("status")>>, <<BigInt("status")>>)

PurchaseReceipt == Codec(
    <<Count("receipt_ids"), Each("receipt_ids", <<String("it")>>)>>,
    <<Count("receipt_ids"), Each("receipt_ids", <<String("it")>>)>>)

RequestChunkRadius == Codec(
    <<VarInt("chunk_radius"), Byte("max_chunk_radius")>>,
    <<VarInt("chunk_radius"), Byte("max_chunk_radius")>>)

RequestNetworkSettings == Codec(
    <<BigInt("client_network_version")>>,
    <<BigInt("client_network_version")>>)

ResourcePackChunkData == Codec(
    <<String("resource_name"), Int32("chunk_index"), Int64("byte_offset"),
      String("chunk_data")>>,
    <<String("resource_name"), Int32("chunk_index"), Int64("byte_offset"),
      String("chunk_data")>>)

ResourcePackChunkRequest == Codec(
    <<String("resource_name"), Int32("chunk_index")>>,
    <<String("resource_name"), Int32("chunk_index")>>)

ResourcePackClientResponse == Codec(
    <<Byte("response"), CountAs("le16", "pack_ids"), Each("pack_ids", <<String("it")>>)>>,
    <<Byte("response"), CountAs("le16", "pack_ids"), Each("pack_ids", <<String("it")>>)>>)

ResourcePackDataInfo == Codec(
    <<String("resource_name"), Int32("chunk_size"), Int32("chunk_count"),
      Int64("file_size"), String("file_hash"), Bool("is_premium"), Byte("pack_type")>>,
    <<String("resource_name"), Int32("chunk_size"), Int32("chunk_count"),
      Int64("file_size"), String("file_hash"), Bool("is_premium"), Byte("pack_type")>>)

ResourcePackStack == Codec(
    <<Bool("must_accept"), Count("texture_packs"),
      Each("texture_packs",
        <<String("pack_id"), String("version"), String("sub_pack_name")>>),
      String("base_game_version"), CountAs("le32", "experiments"),
      Each("experiments", <<String("name"), Bool("enabled")>>),
      Bool("has_previously_used_experiments"), Bool("include_editor_packs")>>,
    <<Bool("must_accept"), Count("texture_packs"),
      Each("texture_packs",
        <<String("pack_id"), String("version"), String("sub_pack_name")>>),
      String("base_game_version"), CountAs("le32", "experiments"),
      Each("experiments", <<String("name"), Bool("enabled")>>),
      Bool("has_previously_used_experiments"), Bool("include_editor_packs")>>)

ResourcePacksInfo == Codec(
    <<Bool("must_accept"), Bool("has_addon_packs"), Bool("has_scripts"),
      Bool("force_disable_vibrant_visuals"), UUID("world_template_uuid"),
      String("world_template_version"), CountAs("le16", "resource_packs"),
      Each("resource_packs",
        <<UUID("pack_id"), String("version"), Int64("size"), String("content_key"),
          String("sub_pack_name"), String("content_id"), Bool("has_scripts"),
          Bool("is_addon_pack"), Bool("is_ray_tracing_capable"), String("cdn_url")>>)>>,
    <<Bool("must_accept"), Bool("has_addon_packs"), Bool("has_scripts"),
      Bool("force_disable_vibrant_visuals"), UUID("world_template_uuid"),
      String("world_template_version"), CountAs("le16", "resource_packs"),
      Each("resource_packs",
        <<UUID("pack_id"), String("version"), Int64("size"), String("content_key"),
          String("sub_pack_name"), String("content_id"), Bool("has_scripts"),
          Bool("is_addon_pack"), Bool("is_ray_tracing_capable"), String("cdn_url")>>)>>)

ServerSettingsResponse == Codec(
    <<UVarInt("form_id"), String("form_json")>>,
    <<UVarInt("form_id"), String("form_json")>>)

ServerStats == Codec(
    <<Float("server_time"), Float("network_time")>>,
    <<Float("server_time"), Float("network_time")>>)

ServerToClientHandshake == Codec(<<String("handshake_jwt")>>, <<String("handshake_jwt")>>)

ServerboundDiagnostics == Codec(
    <<Float("avg_fps"), Float("avg_server_sim_tick_time"),
      Float("avg_client_sim_tick_time"), Float("avg_begin_frame_time"),
      Float("avg_input_time"), Float("avg_render_time"), Float("avg_end_frame_time"),
      Float("avg_remaining_time_percent"), Float("avg_unaccounted_time_percent")>>,
    <<Float("avg_fps"), Float("avg_server_sim_tick_time"),
      Float("avg_client_sim_tick_time"), Float("avg_begin_frame_time"),
      Float("avg_input_time"), Float("avg_render_time"), Float("avg_end_frame_time"),
      Float("avg_remaining_time_percent"), Float("avg_unaccounted_time_percent")>>)

ServerboundLoadingScreen == Codec(
    <<VarInt("type"), Optional("byte", "loading_screen_id", <<Int32("it")>>)>>,
    <<VarInt("type"), Optional("byte", "loading_screen_id", <<Int32("it")>>)>>)

ServerboundPackSettingChange == Codec(
    <<UUID("pack_id"), String("pack_setting_name"), Rest("setting_value")>>,
    <<UUID("pack_id"), String("pack_setting_name"), Rest("setting_value")>>)

SetCommandsEnabled == Codec(<<Bool("commands_enabled")>>, <<Bool("commands_enabled")>>)

SetLocalPlayerAsInitialized == Codec(
    <<ActorRuntimeID("runtime_entity_id")>>,
    <<ActorRuntimeID("runtime_entity_id")>>)

SpawnSettings == Codec(
    <<Short("type"), String("user_defined_biome_name"), VarInt("dimension")>>,
    <<Short("type"), String("user_defined_biome_name"), VarInt("dimension")>>)

Experiments == Codec(
    <<CountBoth("le32", "active_toggles", "always_on_toggles"),
      Each("active_toggles", <<String("name"), Bool("enabled")>>),
      Each("always_on_toggles", <<String("name"), Bool("enabled")>>),
      Bool("were_any_ever_toggled")>>,
    <<CountAs("le32", "active_toggles"),
      Each("active_toggles", <<String("name"), Bool("enabled")>>),
      Bool("were_any_ever_toggled")>>)

EduSharedUriResource == Codec(
    <<String("button_name"), String("link_uri")>>,
    <<String("button_name"), String("link_uri")>>)

SyncedPlayerMovementSettings == Codec(
    <<VarInt("rewind_history_size"), Bool("server_authoritative_block_breaking")>>,
    <<VarInt("rewind_history_size"), Bool("server_authoritative_block_breaking")>>)

ServerTelemetryData == Codec(
    <<String("server_id"), String("scenario_id"), String("world_id"), String("owner_id")>>,
    <<String("server_id"), String("scenario_id"), String("world_id"), String("owner_id")>>)

LevelSettings == Codec(
    <<Int64("seed"), Sub("spawn_settings", SpawnSettings), VarInt("generator_type"),
      VarInt("game_type"), Bool("is_hardcore"), VarInt("difficulty"),
      BlockPos("default_spawn_position"), Bool("achievements_disabled"),
      VarInt("editor_world_type"), Bool("is_created_in_editor"),
      Bool("is_exported_from_editor"), VarInt("day_cycle_stop_time"),
      VarInt("education_edition_offer"), Bool("education_features_enabled"),
      String("education_product_id"), Float("rain_level"), Float("lightning_level"),
      Bool("has_confirmed_platform_locked_content"), Bool("is_multiplayer"),
      Bool("lan_broadcast"), VarInt("xbox_live_broadcast_setting"),
      VarInt("platform_broadcast_setting"), Bool("commands_enabled"),
      Bool("texture_packs_required"), Count("game_rules"),
      Each("game_rules",
        <<String("name"), Bool("editable"), UVarInt("type"),
          If(Is("type", {1}), <<Bool("bool_value")>>),
          If(Is("type", {2}), <<VarInt("int_value")>>),
          If(Is("type", {3}), <<Float("float_value")>>)>>),
      Sub("experiments", Experiments), Bool("bonus_chest_enabled"),
      Bool("start_with_map_enabled"), VarInt("player_permissions"),
      Int32("server_chunk_tick_range"), Bool("has_locked_behavior_pack"),
      Bool("has_locked_resource_pack"), Bool("is_from_locked_template"),
      Bool("use_msa_gamertags_only"), Bool("is_from_world_template"),
      Bool("is_world_template_option_locked"), Bool("only_spawn_v1_villagers"),
      Bool("persona_disabled"), Bool("custom_skins_disabled"), Bool("emote_chat_muted"),
      String("base_game_version"), Int32("limited_world_width"),
      Int32("limited_world_depth"), Bool("nether_type"),
      Sub("edu_shared_uri_resource", EduSharedUriResource),
      Bool("force_experimental_gameplay"), Byte("chat_restriction_level"),
      Bool("disable_player_interactions")>>,
    <<Int64("seed"), Sub("spawn_settings", SpawnSettings), VarInt("generator_type"),
      VarInt("game_type"), Bool("is_hardcore"), VarInt("difficulty"),
      BlockPos("default_spawn_position"), Bool("achievements_disabled"),
      VarInt("editor_world_type"), Bool("is_created_in_editor"),
      Bool("is_exported_from_editor"), VarInt("day_cycle_stop_time"),
      VarInt("education_edition_offer"), Bool("education_features_enabled"),
      String("education_product_id"), Float("rain_level"), Float("lightning_level"),
      Bool("has_confirmed_platform_locked_content"), Bool("is_multiplayer"),
      Bool("lan_broadcast"), VarInt("xbox_live_broadcast_setting"),
      VarInt("platform_broadcast_setting"), Bool("commands_enabled"),
      Bool("texture_packs_required"), Count("game_rules"),
      Each("game_rules",
        <<String("name"), Bool("editable"), UVarInt("type"),
          If(Is("type", {1}), <<Bool("bool_value")>>),
          If(Is("type", {2}), <<VarInt("int_value")>>),
          If(Is("type", {3}), <<Float("float_value")>>)>>),
      Sub("experiments", Experiments), Bool("bonus_chest_enabled"),
      Bool("start_with_map_enabled"), VarInt("player_permissions"),
      Int32("server_chunk_tick_range"), Bool("has_locked_behavior_pack"),
      Bool("has_locked_resource_pack"), Bool("is_from_locked_template"),
      Bool("use_msa_gamertags_only"), Bool("is_from_world_template"),
      Bool("is_world_template_option_locked"), Bool("only_spawn_v1_villagers"),
      Bool("persona_disabled"), Bool("custom_skins_disabled"), Bool("emote_chat_muted"),
      String("base_game_version"), Int32("limited_world_width"),
      Int32("limited_world_depth"), Bool("nether_type"),
      Sub("edu_shared_uri_resource", EduSharedUriResource),
      Bool("force_experimental_gameplay"), Byte("chat_restriction_level"),
      Bool("disable_player_interactions")>>)

StartGame == Codec(
    <<ActorUniqueID("entity_id"), ActorRuntimeID("runtime_id"), VarInt("player_game_type"),
      Vec3("position"), Vec2("rotation"), Sub("settings", LevelSettings),
      String("level_id"), String("level_name"), String("template_content_identity"),
      Bool("is_trial"), Sub("movement_settings", SyncedPlayerMovementSettings),
      Int64("level_current_time"), VarInt("enchantment_seed"), Count("block_properties"),
      Each("block_properties", <<String("block_name"), NbtOrEmpty("block_definition")>>),
      String("multiplayer_correlation_id"), Bool("enable_item_stack_net_manager"),
      String("server_version"), NbtOrEmpty("player_property_data"),
      Int64("server_block_type_registry_checksum"), UUID("world_template_id"),
      Bool("server_enabled_client_side_generation"), Bool("block_network_ids_are_hashes"),
      Bool("server_auth_sound_enabled"), Bool("has_server_join_info"),
      Sub("server_telemetry_data", ServerTelemetryData)>>,
    <<ActorUniqueID("entity_id"), ActorRuntimeID("runtime_id"), VarInt("player_game_type"),
      Vec3("position"), Vec2("rotation"), Sub("settings", LevelSettings),
      String("level_id"), String("level_name"), String("template_content_identity"),
      Bool("is_trial"), Sub("movement_settings", SyncedPlayerMovementSettings),
      Int64("level_current_time"), VarInt("enchantment_seed"), Count("block_properties"),
      Each("block_properties", <<String("block_name"), Nbt("block_definition")>>),
      String("multiplayer_correlation_id"), Bool("enable_item_stack_net_manager"),
      String("server_version"), Nbt("player_property_data"),
      Int64("server_block_type_registry_checksum"), UUID("world_template_id"),
      Bool("server_enabled_client_side_generation"), Bool("block_network_ids_are_hashes"),
      Bool("server_auth_sound_enabled"), Bool("has_server_join_info"),
      Sub("server_telemetry_data", ServerTelemetryData)>>)

SubClientLogin == Codec(<<String("connection_request")>>, <<String("connection_request")>>)

Transfer == Codec(
    <<String("server_address"), Short("server_port"), Bool("reload_world")>>,
    <<String("server_address"), Short("server_port"), Bool("reload_world")>>)

ClientToServerHandshake == Codec(<<>>, <<>>)

KeepAlive == Codec(<<>>, <<>>)

RefreshEntitlements == Codec(<<>>, <<>>)

ResourcePacksReadyForValidation == Codec(<<>>, <<>>)

ServerSettingsRequest == Codec(<<>>, <<>>)
=============================================================================
