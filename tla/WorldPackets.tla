--------------------------- MODULE WorldPackets ----------------------------
(***************************************************************************)
(* Packets about the level: chunks, blocks, maps, sounds and structures.   *)
(* One definition per class: what write puts on the stream, in order, and  *)
(* what read takes off it.                                                 *)
(***************************************************************************)
EXTENDS PacketTypes

CONSTANT HeightMapSize  \* entries of a height map, 256 in the code

AddVolumeEntity == Codec(
    <<UVarInt("entity_net_id"), Rest("components_nbt"), String("json_identifier"),
      String("instance_name"), VarInt("min_bounds.x"), VarInt("min_bounds.y"),
      VarInt("min_bounds.z"), VarInt("max_bounds.x"), VarInt("max_bounds.y"),
      VarInt("max_bounds.z"), VarInt("dimension_type"), String("engine_version")>>,
    <<UVarInt("entity_net_id"), Rest("components_nbt"), String("json_identifier"),
      String("instance_name"), VarInt("min_bounds.x"), VarInt("min_bounds.y"),
      VarInt("min_bounds.z"), VarInt("max_bounds.x"), VarInt("max_bounds.y"),
      VarInt("max_bounds.z"), VarInt("dimension_type"), String("engine_version")>>)

BiomeDefinitionList == Codec(<<Rest("raw_data")>>, <<Rest("raw_data")>>)

BlockActorData == Codec(
    <<NetworkBlockPos("position"), NbtIfSet("nbt_data")>>,
    <<NetworkBlockPos("position"), Nbt("nbt_data")>>)

BlockEvent == Codec(
    <<NetworkBlockPos("position"), VarInt("event_type"), VarInt("event_data")>>,
    <<NetworkBlockPos("position"), VarInt("event_type"), VarInt("event_data")>>)

BlockPickRequest == Codec(
    <<VarInt("position.x"), VarInt("position.y"), VarInt("position.z"),
      Bool("add_user_data"), Byte("hotbar_slot")>>,
    <<VarInt("position.x"), VarInt("position.y"), VarInt("position.z"),
      Bool("add_user_data"), Byte("hotbar_slot")>>)

ChangeDimension == Codec(
    <<VarInt("dimension"), Vec3("position"), Bool("respawn"),
      Optional("byte", "loading_screen_id", <<Int32("it")>>)>>,
    <<VarInt("dimension"), Vec3("position"), Bool("respawn"),
      Optional("byte", "loading_screen_id", <<Int32("it")>>)>>)

CommandBlockUpdate == Codec(
    <<Bool("is_block"),
      IfElse(IsNot("is_block", {0}),
        <<BlockPos("block_position"), UVarInt("command_block_mode"), Bool("redstone_mode"),
          Bool("is_conditional")>>,
        <<ActorRuntimeID("target_runtime_id")>>),
      String("command"), String("last_output"), String("name"), String("filtered_name"),
      Bool("track_output"), Int32("tick_delay"), Bool("execute_on_first_tick")>>,
    <<Bool("is_block"),
      IfElse(IsNot("is_block", {0}),
        <<BlockPos("block_position"), UVarInt("command_block_mode"), Bool("redstone_mode"),
          Bool("is_conditional")>>,
        <<ActorRuntimeID("target_runtime_id")>>),
      String("command"), String("last_output"), String("name"), String("filtered_name"),
      Bool("track_output"), Int32("tick_delay"), Bool("execute_on_first_tick")>>)

CurrentStructureFeature == Codec(
    <<String("current_structure_feature")>>,
    <<String("current_structure_feature")>>)

DimensionData == Codec(
    <<Count("definitions"),
      Each("definitions",
        <<String("name"), VarInt("height_max"), VarInt("height_min"),
          VarInt("generator_type")>>)>>,
    <<Count("definitions"),
      Each("definitions",
        <<String("name"), VarInt("height_max"), VarInt("height_min"),
          VarInt("generator_type")>>)>>)

GameTestRequest == Codec(
    <<VarInt("max_tests_per_batch"), VarInt("repeat_count"), Byte("rotation"),
      Bool("stop_on_failure"), BlockPos("test_pos"), VarInt("tests_per_row"),
      String("test_name")>>,
    <<VarInt("max_tests_per_batch"), VarInt("repeat_count"), Byte("rotation"),
      Bool("stop_on_failure"), BlockPos("test_pos"), VarInt("tests_per_row"),
      String("test_name")>>)

GameTestResults == Codec(
    <<Bool("succeeded"), String("error"), String("test_name")>>,
    <<Bool("succeeded"), String("error"), String("test_name")>>)

JigsawStructureData == Codec(<<Rest("structure_data_nbt")>>, <<Rest("structure_data_nbt")>>)

LecternUpdate == Codec(
    <<Byte("page"), Byte("total_pages"), NetworkBlockPos("position")>>,
    <<Byte("page"), Byte("total_pages"), NetworkBlockPos("position")>>)

LevelChunk == Codec(
    <<Hidden("client_needs_to_request_subchunks"), VarInt("position.x"),
      VarInt("position.z"), VarInt("dimension_id"),
      IfElse(Is("client_needs_to_request_subchunks", {0}),
        <<UVarInt("sub_chunk_count")>>,
        <<Literal("uvarint", -1), Short("sub_chunk_request_limit")>>),
      Bool("cache_enabled"),
      If(IsNot("cache_enabled", {0}),
        <<Count("cache_blob_ids"), Each("cache_blob_ids", <<Int64("it")>>)>>),
      String("serialized_chunk_data")>>,
    <<VarInt("position.x"), VarInt("position.z"), VarInt("dimension_id"),
      UVarInt("sub_chunk_count"),
      If(Is("sub_chunk_count", {-1}),
        <<Assign("client_needs_to_request_subchunks", 1), Short("sub_chunk_request_limit")>>),
      Bool("cache_enabled"),
      If(IsNot("cache_enabled", {0}),
        <<Count("cache_blob_ids"), Each("cache_blob_ids", <<Int64("it")>>)>>),
      String("serialized_chunk_data")>>)

LevelEventGeneric == Codec(
    <<VarInt("event_id"), NbtIfSet("event_data")>>,
    <<VarInt("event_id"), Nbt("event_data")>>)

LevelEvent == Codec(
    <<VarInt("event_id"), Vec3("position"), VarInt("data")>>,
    <<VarInt("event_id"), Vec3("position"), VarInt("data")>>)

LevelSoundEvent == Codec(
    <<UVarInt("sound_id"), Vec3("position"), VarInt("extra_data"), String("entity_type"),
      Bool("is_baby_mob"), Bool("is_global")>>,
    <<UVarInt("sound_id"), Vec3("position"), VarInt("extra_data"), String("entity_type"),
      Bool("is_baby_mob"), Bool("is_global")>>)

LocatorBar == Codec(<<Rest("waypoints_data")>>, <<Rest("waypoints_data")>>)

MapCreateLockedCopy == Codec(
    <<ActorUniqueID("original_map_id"), ActorUniqueID("new_map_id")>>,
    <<ActorUniqueID("original_map_id"), ActorUniqueID("new_map_id")>>)

MapData == Codec(
    <<ActorUniqueID("map_id"), UVarInt("type_flags"), Byte("dimension"), Bool("is_locked"),
      BlockPos("map_origin"),
      If(HasBits("type_flags", 8),
        <<Count("map_id_list"), Each("map_id_list", <<ActorUniqueID("it")>>),
          ActorUniqueID("extra_map_id")>>),
      If(HasBits("type_flags", 14), <<Byte("scale")>>),
      If(HasBits("type_flags", 4),
        <<Count("tracked_actor_ids"), Each("tracked_actor_ids", <<ActorUniqueID("it")>>),
          Count("decorations"), EachOf("decorations", MapDecoration)>>),
      If(HasBits("type_flags", 2),
        <<VarInt("texture_width"), VarInt("texture_height"), VarInt("x_tex_coord"),
          VarInt("y_tex_coord"), Count("pixels"), Each("pixels", <<UVarInt("it")>>)>>)>>,
    <<ActorUniqueID("map_id"), UVarInt("type_flags"), Byte("dimension"), Bool("is_locked"),
      BlockPos("map_origin"),
      If(HasBits("type_flags", 8),
        <<Count("map_id_list"), Each("map_id_list", <<ActorUniqueID("it")>>),
          ActorUniqueID("extra_map_id")>>),
      If(HasBits("type_flags", 14), <<Byte("scale")>>),
      If(HasBits("type_flags", 4),
        <<Count("tracked_actor_ids"), Each("tracked_actor_ids", <<ActorUniqueID("it")>>),
          Count("decorations"), EachOf("decorations", MapDecoration)>>),
      If(HasBits("type_flags", 2),
        <<VarInt("texture_width"), VarInt("texture_height"), VarInt("x_tex_coord"),
          VarInt("y_tex_coord"), Count("pixels"), Each("pixels", <<UVarInt("it")>>)>>)>>)

MapInfoRequest == Codec(
    <<ActorUniqueID("map_id"), CountAs("le32", "client_pixel_request"),
      Each("client_pixel_request", <<Int32("it")>>)>>,
    <<ActorUniqueID("map_id"), CountAs("le32", "client_pixel_request"),
      Each("client_pixel_request", <<Int32("it")>>)>>)

NetworkChunkPublisherUpdate == Codec(
    <<BlockPos("position"), UVarInt("radius"), CountAs("le32", "saved_chunks"),
      Each("saved_chunks", <<VarInt("x"), VarInt("z")>>)>>,
    <<BlockPos("position"), UVarInt("radius"), CountAs("le32", "saved_chunks"),
      Each("saved_chunks", <<VarInt("x"), VarInt("z")>>)>>)

OpenSign == Codec(
    <<NetworkBlockPos("position"), Bool("front_side")>>,
    <<NetworkBlockPos("position"), Bool("front_side")>>)

PlaySound == Codec(
    <<String("sound_name"), Scaled(8, VarInt("position.x")),
      Scaled(8, UVarInt("position.y")), Scaled(8, VarInt("position.z")), Float("volume"),
      Float("pitch")>>,
    <<String("sound_name"), Scaled(8, VarInt("position.x")),
      Scaled(8, UVarInt("position.y")), Scaled(8, VarInt("position.z")), Float("volume"),
      Float("pitch")>>)

PositionTrackingDBClientRequest == Codec(
    <<Byte("action"), VarInt("tracking_id")>>,
    <<Byte("action"), VarInt("tracking_id")>>)

PositionTrackingDBServerBroadcast == Codec(
    <<Byte("action"), VarInt("tracking_id"), Rest("position_data_nbt")>>,
    <<Byte("action"), VarInt("tracking_id"), Rest("position_data_nbt")>>)

RemoveVolumeEntity == Codec(
    <<UVarInt("entity_net_id"), VarInt("dimension_type")>>,
    <<UVarInt("entity_net_id"), VarInt("dimension_type")>>)

SetDifficulty == Codec(<<UVarInt("difficulty")>>, <<UVarInt("difficulty")>>)

SetSpawnPosition == Codec(
    <<VarInt("spawn_type"), NetworkBlockPos("player_position"), VarInt("dimension"),
      NetworkBlockPos("world_position")>>,
    <<VarInt("spawn_type"), NetworkBlockPos("player_position"), VarInt("dimension"),
      NetworkBlockPos("world_position")>>)

SetTime == Codec(<<VarInt("time")>>, <<VarInt("time")>>)

SimulationType == Codec(<<Byte("simulation_type")>>, <<Byte("simulation_type")>>)

SpawnParticleEffect == Codec(
    <<Byte("dimension_id"), ActorUniqueID("entity_id"), Vec3("position"),
      String("particle_name"), Optional("byte", "molang_variables", <<String("it")>>)>>,
    <<Byte("dimension_id"), ActorUniqueID("entity_id"), Vec3("position"),
      String("particle_name"), Optional("byte", "molang_variables", <<String("it")>>)>>)

StopSound == Codec(
    <<String("sound_name"), Bool("stop_all"), Bool("stop_music_legacy")>>,
    <<String("sound_name"), Bool("stop_all"), Bool("stop_music_legacy")>>)

StructureBlockUpdate == Codec(
    <<BlockPos("block_position"), Rest("structure_data_raw"), Bool("trigger"),
      Bool("is_waterlogged")>>,
    <<BlockPos("block_position"), RestBut(2, "structure_data_raw"), Bool("trigger"),
      Bool("is_waterlogged")>>)

StructureTemplateDataRequest == Codec(
    <<String("structure_name"), BlockPos("position"), String("palette_name"),
      Bool("ignore_entities"), Bool("ignore_blocks"), Bool("allow_non_ticking_chunks"),
      BlockPos("structure_size"), BlockPos("structure_offset"),
      ActorUniqueID("last_edit_player"), Byte("rotation"), Byte("mirror"),
      Byte("animation_mode"), Float("animation_seconds"), Float("integrity_value"),
      Int32("integrity_seed"), Vec3("rotation_pivot"), Byte("requested_operation")>>,
    <<String("structure_name"), BlockPos("position"), String("palette_name"),
      Bool("ignore_entities"), Bool("ignore_blocks"), Bool("allow_non_ticking_chunks"),
      BlockPos("structure_size"), BlockPos("structure_offset"),
      ActorUniqueID("last_edit_player"), Byte("rotation"), Byte("mirror"),
      Byte("animation_mode"), Float("animation_seconds"), Float("integrity_value"),
      Int32("integrity_seed"), Vec3("rotation_pivot"), Byte("requested_operation")>>)

StructureTemplateDataResponse == Codec(
    <<String("structure_name"), Rest("structure_nbt"), Byte("response_type")>>,
    <<String("structure_name"), RestAndLast("structure_nbt", "response_type")>>)

SubChunk == Codec(
    <<Bool("cache_enabled"), VarInt("dimension_type"), Sub("center_pos", SubChunkPos),
      CountAs("le32", "entries"),
      Each("entries",
        <<Sub("offset", SubChunkPosOffset), Byte("result"),
          If(Either(Is("cache_enabled", {0}), IsNot("result", {0})),
            <<String("serialized_data")>>),
          Byte("heightmap_type"),
          If(Is("heightmap_type", {1}),
            <<Resize("heightmap_data", HeightMapSize),
              Each("heightmap_data", <<Short("it")>>)>>),
          If(IsNot("cache_enabled", {0}), <<Int64("blob_hash")>>)>>)>>,
    <<Bool("cache_enabled"), VarInt("dimension_type"), Sub("center_pos", SubChunkPos),
      CountAs("le32", "entries"),
      Each("entries",
        <<Sub("offset", SubChunkPosOffset), Byte("result"),
          If(Either(Is("cache_enabled", {0}), IsNot("result", {0})),
            <<String("serialized_data")>>),
          Byte("heightmap_type"),
          If(Is("heightmap_type", {1}),
            <<Resize("heightmap_data", HeightMapSize),
              Each("heightmap_data", <<Short("it")>>)>>),
          If(IsNot("cache_enabled", {0}), <<Int64("blob_hash")>>)>>)>>)

SubChunkRequest == Codec(
    <<VarInt("dimension_type"), Sub("center_pos", SubChunkPos), CountAs("le32", "offsets"),
      EachOf("offsets", SubChunkPosOffset)>>,
    <<VarInt("dimension_type"), Sub("center_pos", SubChunkPos), CountAs("le32", "offsets"),
      EachOf("offsets", SubChunkPosOffset)>>)

SyncWorldClocks == Codec(<<Rest("clock_data")>>, <<Rest("clock_data")>>)

TickingAreasLoadStatus == Codec(
    <<Bool("waiting_for_preload")>>,
    <<Bool("waiting_for_preload")>>)

UpdateBlock == Codec(
    <<NetworkBlockPos("position"), UVarInt("block_runtime_id"), UVarInt("flags"),
      UVarInt("layer")>>,
    <<NetworkBlockPos("position"), UVarInt("block_runtime_id"), UVarInt("flags"),
      UVarInt("layer")>>)

UpdateBlockSynced == Codec(
    <<NetworkBlockPos("position"), UVarInt("block_runtime_id"), UVarInt("flags"),
      UVarInt("layer"), UVarInt64("entity_unique_id"), UVarInt64("update_type")>>,
    <<NetworkBlockPos("position"), UVarInt("block_runtime_id"), UVarInt("flags"),
      UVarInt("layer"), UVarInt64("entity_unique_id"), UVarInt64("update_type")>>)

UpdateSubChunkBlocks == Codec(
    <<NetworkBlockPos("sub_chunk_pos"), Count("standard_blocks"),
      Each("standard_blocks",
        <<NetworkBlockPos("position"), UVarInt("block_runtime_id"), UVarInt("flags"),
          UVarInt64("synced_update_entity_unique_id"), UVarInt64("synced_update_type")>>),
      Count("extra_blocks"),
      Each("extra_blocks",
        <<NetworkBlockPos("position"), UVarInt("block_runtime_id"), UVarInt("flags"),
          UVarInt64("synced_update_entity_unique_id"), UVarInt64("synced_update_type")>>)>>,
    <<NetworkBlockPos("sub_chunk_pos"), Count("standard_blocks"),
      Each("standard_blocks",
        <<NetworkBlockPos("position"), UVarInt("block_runtime_id"), UVarInt("flags"),
          UVarInt64("synced_update_entity_unique_id"), UVarInt64("synced_update_type")>>),
      Count("extra_blocks"),
      Each("extra_blocks",
        <<NetworkBlockPos("position"), UVarInt("block_runtime_id"), UVarInt("flags"),
          UVarInt64("synced_update_entity_unique_id"), UVarInt64("synced_update_type")>>)>>)

VoxelShapes == Codec(<<Rest("shapes_data")>>, <<Rest("shapes_data")>>)
=============================================================================
