--------------------------- MODULE ActorPackets ----------------------------
(***************************************************************************)
(* Packets about players and other actors.                                 *)
(* One definition per class: what write puts on the stream, in order, and  *)
(* what read takes off it.                                                 *)
(***************************************************************************)
EXTENDS PacketTypes

ActorEvent == Codec(
    <<ActorRuntimeID("runtime_id"), Byte("event_id"), VarInt("data")>>,
    <<ActorRuntimeID("runtime_id"), Byte("event_id"), VarInt("data")>>)

ActorPickRequest == Codec(
    <<Int64("entity_id"), Byte("hotbar_slot"), Bool("with_data")>>,
    <<Int64("entity_id"), Byte("hotbar_slot"), Bool("with_data")>>)

AddActor == Codec(
    <<ActorUniqueID("target_actor_id"), ActorRuntimeID("target_runtime_id"),
      String("actor_type"), Vec3("position"), Vec3("velocity"), Vec2("rotation"),
      Float("y_head_rotation"), Float("y_body_rotation"), Count("attributes"),
      EachOf("attributes", AttributeDataSimple), DataItems("actor_data"),
      Sub("synched_properties", PropertySyncData), Count("actor_links"),
      EachOf("actor_links", ActorLink)>>,
    <<ActorUniqueID("target_actor_id"), ActorRuntimeID("target_runtime_id"),
      String("actor_type"), Vec3("position"), Vec3("velocity"), Vec2("rotation"),
      Float("y_head_rotation"), Float("y_body_rotation"), Count("attributes"),
      EachOf("attributes", AttributeDataSimple), DataItems("actor_data"),
      Sub("synched_properties", PropertySyncData), Count("actor_links"),
      EachOf("actor_links", ActorLink)>>)

AddPlayer == Codec(
    <<UUID("uuid"), String("player_name"), ActorRuntimeID("target_runtime_id"),
      String("platform_chat_id"), Vec3("position"), Vec3("velocity"), Vec2("rotation"),
      Float("y_head_rotation"), Sub("carried_item", NetworkItemStackDescriptor),
      VarInt("player_game_type"), DataItems("actor_data"),
      Sub("synched_properties", PropertySyncData),
      Sub("abilities", SerializedAbilitiesData), Count("actor_links"),
      EachOf("actor_links", ActorLink), String("device_id"), Int32("build_platform")>>,
    <<UUID("uuid"), String("player_name"), ActorRuntimeID("target_runtime_id"),
      String("platform_chat_id"), Vec3("position"), Vec3("velocity"), Vec2("rotation"),
      Float("y_head_rotation"), Sub("carried_item", NetworkItemStackDescriptor),
      VarInt("player_game_type"), DataItems("actor_data"),
      Sub("synched_properties", PropertySyncData),
      Sub("abilities", SerializedAbilitiesData), Count("actor_links"),
      EachOf("actor_links", ActorLink), String("device_id"), Int32("build_platform")>>)

AgentActionEvent == Codec(
    <<String("request_id"), VarInt("action"), String("response")>>,
    <<String("request_id"), VarInt("action"), String("response")>>)

AgentAnimation == Codec(
    <<Byte("animation"), ActorRuntimeID("runtime_id")>>,
    <<Byte("animation"), ActorRuntimeID("runtime_id")>>)

AnimateEntity == Codec(
    <<String("animation"), String("next_state"), String("stop_expression"),
      VarInt("stop_expression_version"), String("controller"), Float("blend_out_time"),
      Count("runtime_ids"), Each("runtime_ids", <<ActorRuntimeID("it")>>)>>,
    <<String("animation"), String("next_state"), String("stop_expression"),
      VarInt("stop_expression_version"), String("controller"), Float("blend_out_time"),
      Count("runtime_ids"), Each("runtime_ids", <<ActorRuntimeID("it")>>)>>)

Animate == Codec(
    <<VarInt("action"), ActorRuntimeID("runtime_id"),
      If(Is("action", {128, 129}), <<Float("row_boat")>>)>>,
    <<VarInt("action"), ActorRuntimeID("runtime_id"),
      If(Is("action", {128, 129}), <<Float("row_boat")>>)>>)

AvailableActorIdentifiers == Codec(
    <<Rest("identifier_list_nbt")>>,
    <<Rest("identifier_list_nbt")>>)

BossEvent == Codec(
    <<ActorUniqueID("target_actor_id"), UVarInt("event_type"),
      If(Is("event_type", {0}),
        <<String("name"), String("filtered_name"), Float("health_percent"),
          Short("darken_screen"), UVarInt("color"), UVarInt("overlay")>>),
      If(Is("event_type", {1, 3, 8}), <<ActorUniqueID("player_id")>>),
      If(Is("event_type", {4}), <<Float("health_percent")>>),
      If(Is("event_type", {5}), <<String("name"), String("filtered_name")>>),
      If(Is("event_type", {6}),
        <<Short("darken_screen"), UVarInt("color"), UVarInt("overlay")>>),
      If(Is("event_type", {7}), <<UVarInt("color"), UVarInt("overlay")>>)>>,
    <<ActorUniqueID("target_actor_id"), UVarInt("event_type"),
      If(Is("event_type", {0}),
        <<String("name"), String("filtered_name"), Float("health_percent"),
          Short("darken_screen"), UVarInt("color"), UVarInt("overlay")>>),
      If(Is("event_type", {1, 3, 8}), <<ActorUniqueID("player_id")>>),
      If(Is("event_type", {4}), <<Float("health_percent")>>),
      If(Is("event_type", {5}), <<String("name"), String("filtered_name")>>),
      If(Is("event_type", {6}),
        <<Short("darken_screen"), UVarInt("color"), UVarInt("overlay")>>),
      If(Is("event_type", {7}), <<UVarInt("color"), UVarInt("overlay")>>)>>)

CameraAimAssistActorPriority == Codec(
    <<ActorUniqueID("entity_unique_id"), String("preset_id"), String("category_id"),
      String("actor_id"), Byte("priority")>>,
    <<ActorUniqueID("entity_unique_id"), String("preset_id"), String("category_id"),
      String("actor_id"), Byte("priority")>>)

ChangeMobProperty == Codec(
    <<ActorUniqueID("entity_unique_id"), String("property"), Bool("bool_value"),
      String("string_value"), VarInt("int_value"), Float("float_value")>>,
    <<ActorUniqueID("entity_unique_id"), String("property"), Bool("bool_value"),
      String("string_value"), VarInt("int_value"), Float("float_value")>>)

ClientMovementPredictionSync == Codec(
    <<Int64("flags_low"), Int64("flags_high"), Float("bb_scale"), Float("bb_width"),
      Float("bb_height"), Sub("movement", MovementAttributesComponent),
      ActorUniqueID("actor_unique_id"), Bool("is_flying")>>,
    <<Int64("flags_low"), Int64("flags_high"), Float("bb_scale"), Float("bb_width"),
      Float("bb_height"), Sub("movement", MovementAttributesComponent),
      ActorUniqueID("actor_unique_id"), Bool("is_flying")>>)

ClientboundAttributeLayerSync == Codec(
    <<Rest("attribute_data")>>,
    <<Rest("attribute_data")>>)

CorrectPlayerMovePrediction == Codec(
    <<Byte("prediction_type"), Vec3("position"), Vec3("delta"), Bool("on_ground"),
      UVarInt64("tick"), If(Is("prediction_type", {1}), <<Vec2("rotation")>>)>>,
    <<Byte("prediction_type"), Vec3("position"), Vec3("delta"), Bool("on_ground"),
      UVarInt64("tick"), If(Is("prediction_type", {1}), <<Vec2("rotation")>>)>>)

EmoteList == Codec(
    <<ActorRuntimeID("player_id"), Count("emote_piece_ids"),
      Each("emote_piece_ids", <<UUID("it")>>)>>,
    <<ActorRuntimeID("player_id"), Count("emote_piece_ids"),
      Each("emote_piece_ids", <<UUID("it")>>)>>)

Emote == Codec(
    <<ActorRuntimeID("runtime_id"), String("emote_id"), UVarInt("emote_ticks"),
      String("xuid"), String("platform_id"), Byte("flags")>>,
    <<ActorRuntimeID("runtime_id"), String("emote_id"), UVarInt("emote_ticks"),
      String("xuid"), String("platform_id"), Byte("flags")>>)

HurtArmor == Codec(
    <<VarInt("cause"), VarInt("damage"), UVarInt64("armor_slots")>>,
    <<VarInt("cause"), VarInt("damage"), UVarInt64("armor_slots")>>)

Interact == Codec(
    <<Byte("action"), ActorRuntimeID("target_runtime_id"),
      If(Is("action", {4}), <<Vec3("position")>>)>>,
    <<Byte("action"), ActorRuntimeID("target_runtime_id"),
      If(Is("action", {4}), <<Vec3("position")>>)>>)

MobEffect == Codec(
    <<ActorRuntimeID("runtime_id"), Byte("event_id"), VarInt("effect_id"),
      VarInt("amplifier"), Bool("particles"), VarInt("duration"), UVarInt64("tick")>>,
    <<ActorRuntimeID("runtime_id"), Byte("event_id"), VarInt("effect_id"),
      VarInt("amplifier"), Bool("particles"), VarInt("duration"), UVarInt64("tick")>>)

MotionPredictionHints == Codec(
    <<ActorRuntimeID("entity_runtime_id"), Vec3("velocity"), Bool("on_ground")>>,
    <<ActorRuntimeID("entity_runtime_id"), Vec3("velocity"), Bool("on_ground")>>)

MoveActorAbsolute == Codec(
    <<ActorRuntimeID("runtime_id"), Short("flags"), Vec3("position"), Byte("rotation_x"),
      Byte("rotation_y"), Byte("rotation_z")>>,
    <<ActorRuntimeID("runtime_id"), Short("flags"), Vec3("position"), Byte("rotation_x"),
      Byte("rotation_y"), Byte("rotation_z")>>)

MoveActorDelta == Codec(
    <<ActorRuntimeID("runtime_id"), Short("header"),
      If(HasBits("header", 1), <<Float("x")>>), If(HasBits("header", 2), <<Float("y")>>),
      If(HasBits("header", 4), <<Float("z")>>), If(HasBits("header", 8), <<Byte("rot_x")>>),
      If(HasBits("header", 16), <<Byte("rot_y")>>),
      If(HasBits("header", 32), <<Byte("rot_y_head")>>)>>,
    <<ActorRuntimeID("runtime_id"), Short("header"),
      If(HasBits("header", 1), <<Float("x")>>), If(HasBits("header", 2), <<Float("y")>>),
      If(HasBits("header", 4), <<Float("z")>>), If(HasBits("header", 8), <<Byte("rot_x")>>),
      If(HasBits("header", 16), <<Byte("rot_y")>>),
      If(HasBits("header", 32), <<Byte("rot_y_head")>>)>>)

MovePlayer == Codec(
    <<ActorRuntimeID("runtime_id"), Vec3("position"), Vec2("rotation"), Float("head_yaw"),
      Byte("mode"), Bool("on_ground"), ActorRuntimeID("riding_runtime_id"),
      If(Is("mode", {2}), <<Int32("teleport_cause"), Int32("teleport_source_type")>>),
      UVarInt64("tick")>>,
    <<ActorRuntimeID("runtime_id"), Vec3("position"), Vec2("rotation"), Float("head_yaw"),
      Byte("mode"), Bool("on_ground"), ActorRuntimeID("riding_runtime_id"),
      If(Is("mode", {2}), <<Int32("teleport_cause"), Int32("teleport_source_type")>>),
      UVarInt64("tick")>>)

MovementEffect == Codec(
    <<ActorRuntimeID("entity_runtime_id"), UVarInt("effect_type"), VarInt("duration"),
      UVarInt64("tick")>>,
    <<ActorRuntimeID("entity_runtime_id"), UVarInt("effect_type"), VarInt("duration"),
      UVarInt64("tick")>>)

NpcDialogue == Codec(
    <<Int64("entity_unique_id"), VarInt("action_type"), String("dialogue"),
      String("scene_name"), String("npc_name"), String("action_json")>>,
    <<Int64("entity_unique_id"), VarInt("action_type"), String("dialogue"),
      String("scene_name"), String("npc_name"), String("action_json")>>)

NpcRequest == Codec(
    <<ActorRuntimeID("entity_runtime_id"), Byte("request_type"), String("command"),
      Byte("action_type"), String("scene_name")>>,
    <<ActorRuntimeID("entity_runtime_id"), Byte("request_type"), String("command"),
      Byte("action_type"), String("scene_name")>>)

PlayerAction == Codec(
    <<ActorRuntimeID("runtime_id"), VarInt("action"), NetworkBlockPos("block_position"),
      NetworkBlockPos("result_position"), VarInt("face")>>,
    <<ActorRuntimeID("runtime_id"), VarInt("action"), NetworkBlockPos("block_position"),
      NetworkBlockPos("result_position"), VarInt("face")>>)

PlayerArmorDamage == Codec(
    <<Byte("damage_bits"), If(HasBits("damage_bits", 1), <<VarInt("helmet_damage")>>),
      If(HasBits("damage_bits", 2), <<VarInt("chestplate_damage")>>),
      If(HasBits("damage_bits", 4), <<VarInt("leggings_damage")>>),
      If(HasBits("damage_bits", 8), <<VarInt("boots_damage")>>),
      If(HasBits("damage_bits", 16), <<VarInt("body_damage")>>)>>,
    <<Byte("damage_bits"), If(HasBits("damage_bits", 1), <<VarInt("helmet_damage")>>),
      If(HasBits("damage_bits", 2), <<VarInt("chestplate_damage")>>),
      If(HasBits("damage_bits", 4), <<VarInt("leggings_damage")>>),
      If(HasBits("damage_bits", 8), <<VarInt("boots_damage")>>),
      If(HasBits("damage_bits", 16), <<VarInt("body_damage")>>)>>)

ItemUseTransaction == Codec(
    <<VarInt("legacy_request_id"),
      If(IsNot("legacy_request_id", {0}),
        <<Count("legacy_slots"),
          Each("legacy_slots",
            <<Byte("container_id"), Count("slots"), Each("slots", <<Byte("it")>>)>>)>>),
      Count("actions"), EachOf("actions", InventoryAction), UVarInt("action_type"),
      UVarInt("trigger_type"), BlockPos("block_pos"), VarInt("face"), VarInt("hotbar_slot"),
      Sub("item", NetworkItemStackDescriptor), Vec3("player_pos"), Vec3("click_pos"),
      UVarInt("block_runtime_id"), Byte("client_interact_prediction"),
      Byte("client_cooldown_state")>>,
    <<VarInt("legacy_request_id"),
      If(IsNot("legacy_request_id", {0}),
        <<Count("legacy_slots"),
          Each("legacy_slots",
            <<Byte("container_id"), Count("slots"), Each("slots", <<Byte("it")>>)>>)>>),
      Count("actions"), EachOf("actions", InventoryAction), UVarInt("action_type"),
      UVarInt("trigger_type"), BlockPos("block_pos"), VarInt("face"), VarInt("hotbar_slot"),
      Sub("item", NetworkItemStackDescriptor), Vec3("player_pos"), Vec3("click_pos"),
      UVarInt("block_runtime_id"), Byte("client_interact_prediction"),
      Byte("client_cooldown_state")>>)

AuthInputStackAction == Codec(
    <<Byte("action_type"), Byte("amount"), Sub("source", ItemStackRequestSlotInfo),
      Sub("destination", ItemStackRequestSlotInfo)>>,
    <<Byte("action_type"), Byte("amount"), Sub("source", ItemStackRequestSlotInfo),
      Sub("destination", ItemStackRequestSlotInfo)>>)

BlockActionData == Codec(
    <<VarInt("action_type"),
      If(Below("action_type", 5), <<BlockPos("position"), VarInt("facing")>>)>>,
    <<VarInt("action_type"),
      If(Below("action_type", 5), <<BlockPos("position"), VarInt("facing")>>)>>)

PlayerAuthInput == Codec(
    <<Vec2("rotation"), Vec3("position"), Vec2("move_vector"), Float("head_rotation"),
      UVarInt64("input_data_lo"), Byte("input_data_hi"), UVarInt("input_mode"),
      UVarInt("play_mode"), UVarInt("interaction_model"), Vec2("interact_rotation"),
      Sub("client_tick", PlayerInputTick), Vec3("pos_delta"),
      If(HasBits("input_data_lo", 1), <<Sub("item_use_transaction", ItemUseTransaction)>>),
      If(HasBits("input_data_lo", 2),
        <<VarInt("stack_request_id"), Count("stack_actions"),
          EachOf("stack_actions", AuthInputStackAction), Count("strings_to_filter"),
          Each("strings_to_filter", <<String("it")>>), Int32("strings_to_filter_origin")>>),
      If(HasBits("input_data_lo", 4),
        <<CountAs("varint", "block_actions"), EachOf("block_actions", BlockActionData)>>),
      If(HasBits("input_data_lo", 8),
        <<Vec2("vehicle_rotation"), ActorUniqueID("vehicle_id")>>),
      Vec2("analog_move_vector"), Vec3("camera_orientation"), Vec2("raw_move_vector")>>,
    <<Vec2("rotation"), Vec3("position"), Vec2("move_vector"), Float("head_rotation"),
      UVarInt64("input_data_lo"), Byte("input_data_hi"), UVarInt("input_mode"),
      UVarInt("play_mode"), UVarInt("interaction_model"), Vec2("interact_rotation"),
      Sub("client_tick", PlayerInputTick), Vec3("pos_delta"),
      If(HasBits("input_data_lo", 1), <<Sub("item_use_transaction", ItemUseTransaction)>>),
      If(HasBits("input_data_lo", 2),
        <<VarInt("stack_request_id"), Count("stack_actions"),
          EachOf("stack_actions", AuthInputStackAction), Count("strings_to_filter"),
          Each("strings_to_filter", <<String("it")>>), Int32("strings_to_filter_origin")>>),
      If(HasBits("input_data_lo", 4),
        <<CountAs("varint", "block_actions"), EachOf("block_actions", BlockActionData)>>),
      If(HasBits("input_data_lo", 8),
        <<Vec2("vehicle_rotation"), ActorUniqueID("vehicle_id")>>),
      Vec2("analog_move_vector"), Vec3("camera_orientation"), Vec2("raw_move_vector")>>)

PlayerClientInputPermissions == Codec(
    <<UVarInt("permission_flags")>>,
    <<UVarInt("permission_flags")>>)

PlayerFog == Codec(
    <<Count("fog_stack"), Each("fog_stack", <<String("it")>>)>>,
    <<Count("fog_stack"), Each("fog_stack", <<String("it")>>)>>)

PlayerList == Codec(
    <<Byte("action"),
      IfElse(Is("action", {0}),
        <<Count("add_entries"),
          Each("add_entries",
            <<UUID("uuid"), ActorUniqueID("actor_id"), String("player_name"),
              String("xbl_xuid"), String("platform_chat_id"), Int32("build_platform"),
              String("serialized_skin"), Bool("is_teacher"), Bool("is_host"),
              Bool("is_sub_client")>>),
          PadTo("add_entries", Bool("trusted_skins"), 1)>>,
        <<Count("remove_entries"), Each("remove_entries", <<UUID("it")>>)>>)>>,
    <<Byte("action"),
      IfElse(Is("action", {0}),
        <<Count("add_entries"),
          Each("add_entries",
            <<UUID("uuid"), ActorUniqueID("actor_id"), String("player_name"),
              String("xbl_xuid"), String("platform_chat_id"), Int32("build_platform"),
              String("serialized_skin"), Bool("is_teacher"), Bool("is_host"),
              Bool("is_sub_client")>>),
          ResizeLike("trusted_skins", "add_entries"), Each("trusted_skins", <<Bool("it")>>)>>,
        <<Count("remove_entries"), Each("remove_entries", <<UUID("it")>>)>>)>>)

PlayerLocation == Codec(
    <<Int32("type"), ActorUniqueID("target_actor_id"),
      If(Is("type", {0}), <<Vec3("position")>>)>>,
    <<Int32("type"), ActorUniqueID("target_actor_id"),
      If(Is("type", {0}), <<Vec3("position")>>)>>)

PlayerSkin == Codec(
    <<UUID("player_uuid"), Rest("skin_data")>>,
    <<UUID("player_uuid"), Rest("skin_data")>>)

PlayerUpdateEntityOverrides == Codec(
    <<ActorUniqueID("target_id"), UVarInt("property_index"), Byte("update_type"),
      IfElse(Is("update_type", {1}),
        <<Int32("int_value")>>,
        <<If(Is("update_type", {2}), <<Float("float_value")>>)>>)>>,
    <<ActorUniqueID("target_id"), UVarInt("property_index"), Byte("update_type"),
      IfElse(Is("update_type", {1}),
        <<Int32("int_value")>>,
        <<If(Is("update_type", {2}), <<Float("float_value")>>)>>)>>)

PlayerVideoCapture == Codec(
    <<Byte("action"), Rest("capture_data")>>,
    <<Byte("action"), Rest("capture_data")>>)

RemoveActor == Codec(<<ActorUniqueID("entity_id")>>, <<ActorUniqueID("entity_id")>>)

RequestAbility == Codec(
    <<VarInt("ability"), Byte("value_type"), Bool("bool_value"), Float("float_value")>>,
    <<VarInt("ability"), Byte("value_type"), Bool("bool_value"), Float("float_value")>>)

Respawn == Codec(
    <<Vec3("position"), Byte("state"), ActorRuntimeID("runtime_entity_id")>>,
    <<Vec3("position"), Byte("state"), ActorRuntimeID("runtime_entity_id")>>)

ServerPlayerPostMovePosition == Codec(
    <<Vec3("position"), ActorRuntimeID("player_runtime_id")>>,
    <<Vec3("position"), ActorRuntimeID("player_runtime_id")>>)

SetActorData == Codec(
    <<ActorRuntimeID("target_runtime_id"), DataItems("actor_data"),
      Sub("synched_properties", PropertySyncData), Sub("tick", PlayerInputTick)>>,
    <<ActorRuntimeID("target_runtime_id"), DataItems("actor_data"),
      Sub("synched_properties", PropertySyncData), Sub("tick", PlayerInputTick)>>)

SetActorLink == Codec(
    <<ActorUniqueID("ridden_id"), ActorUniqueID("rider_id"), Byte("type"),
      Bool("immediate"), Bool("rider_initiated"), Float("vehicle_angular_velocity")>>,
    <<ActorUniqueID("ridden_id"), ActorUniqueID("rider_id"), Byte("type"),
      Bool("immediate"), Bool("rider_initiated"), Float("vehicle_angular_velocity")>>)

SetActorMotion == Codec(
    <<ActorRuntimeID("runtime_id"), Vec3("motion"), UVarInt64("tick")>>,
    <<ActorRuntimeID("runtime_id"), Vec3("motion"), UVarInt64("tick")>>)

SetHealth == Codec(<<VarInt("health")>>, <<VarInt("health")>>)

SetLastHurtBy == Codec(<<VarInt("entity_type_id")>>, <<VarInt("entity_type_id")>>)

SetPlayerGameType == Codec(<<VarInt("game_type")>>, <<VarInt("game_type")>>)

SpawnExperienceOrb == Codec(
    <<Vec3("position"), VarInt("count")>>,
    <<Vec3("position"), VarInt("count")>>)

SyncActorProperty == Codec(<<NbtIfSet("property_data")>>, <<Nbt("property_data")>>)

UpdateAbilities == Codec(
    <<Sub("data", SerializedAbilitiesData)>>,
    <<Sub("data", SerializedAbilitiesData)>>)

UpdateAdventureSettings == Codec(
    <<Bool("no_pvm"), Bool("no_mvp"), Bool("immutable_world"), Bool("show_name_tags"),
      Bool("auto_jump")>>,
    <<Bool("no_pvm"), Bool("no_mvp"), Bool("immutable_world"), Bool("show_name_tags"),
      Bool("auto_jump")>>)

UpdateAttributes == Codec(
    <<ActorRuntimeID("runtime_id"), Count("attributes"),
      EachOf("attributes", AttributeDataFull), Sub("tick", PlayerInputTick)>>,
    <<ActorRuntimeID("runtime_id"), Count("attributes"),
      EachOf("attributes", AttributeDataFull), Sub("tick", PlayerInputTick)>>)

UpdatePlayerGameType == Codec(
    <<VarInt("game_type"), ActorUniqueID("player_id"), UVarInt64("tick")>>,
    <<VarInt("game_type"), ActorUniqueID("player_id"), UVarInt64("tick")>>)
=============================================================================
