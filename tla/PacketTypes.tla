---------------------------- MODULE PacketTypes ----------------------------
(***************************************************************************)
(* The structures shared by several packets (packet_types.hpp).            *)
(* One definition per class: what write puts on the stream, in order, and  *)
(* what read takes off it.                                                 *)
(***************************************************************************)
EXTENDS WireFormat

ActorLink == Codec(
    <<ActorUniqueID("rider_id"), ActorUniqueID("ridden_id"), Byte("type"),
      Bool("immediate"), Bool("rider_initiated")>>,
    <<ActorUniqueID("rider_id"), ActorUniqueID("ridden_id"), Byte("type"),
      Bool("immediate"), Bool("rider_initiated")>>)

DataItem == Codec(
    <<UVarInt("id"), UVarInt("type"), If(Is("type", {0}), <<Byte("byte_val")>>),
      If(Is("type", {1}), <<Short("short_val")>>),
      If(Is("type", {2}), <<VarInt("int_val")>>),
      If(Is("type", {3}), <<Float("float_val")>>),
      If(Is("type", {4}), <<String("string_val")>>),
      If(Is("type", {5}), <<RootNbtIfSet("nbt_val")>>),
      If(Is("type", {6}), <<BlockPos("blockpos_val")>>),
      If(Is("type", {7}), <<VarInt64("int64_val")>>),
      If(Is("type", {8}), <<Vec3("vec3_val")>>)>>,
    <<UVarInt("id"), UVarInt("type"), If(Is("type", {0}), <<Byte("byte_val")>>),
      If(Is("type", {1}), <<Short("short_val")>>),
      If(Is("type", {2}), <<VarInt("int_val")>>),
      If(Is("type", {3}), <<Float("float_val")>>),
      If(Is("type", {4}), <<String("string_val")>>),
      If(Is("type", {5}), <<RootNbt("nbt_val")>>),
      If(Is("type", {6}), <<BlockPos("blockpos_val")>>),
      If(Is("type", {7}), <<VarInt64("int64_val")>>),
      If(Is("type", {8}), <<Vec3("vec3_val")>>)>>)

\* Mutant: readDataItemList fills the vector at hand.
DataItemsKept(f) == Calls(<<Count(f), EachOf(f, DataItem)>>)

\* readDataItemList fills a new vector.
DataItems(f) == Calls(<<Fresh(f), Count(f), EachOf(f, DataItem)>>)

PropertySyncData == Codec(
    <<Count("float_entries"), Each("float_entries", <<UVarInt("index"), Float("data")>>),
      Count("int_entries"), Each("int_entries", <<UVarInt("index"), VarInt("data")>>)>>,
    <<Count("float_entries"), Each("float_entries", <<UVarInt("index"), Float("data")>>),
      Count("int_entries"), Each("int_entries", <<UVarInt("index"), VarInt("data")>>)>>)

PlayerInputTick == Codec(<<UVarInt64("tick")>>, <<UVarInt64("tick")>>)

ItemStackNetIdVariant == Codec(
    <<Byte("type"), If(IsNot("type", {0}), <<VarInt("net_id")>>)>>,
    <<Byte("type"), If(IsNot("type", {0}), <<VarInt("net_id")>>)>>)

NetworkItemStackDescriptor == Codec(
    <<VarInt("id"),
      If(IsNot("id", {0}),
        <<Short("stack_size"), UVarInt("aux_value"), Bool("include_net_id"),
          If(IsNot("include_net_id", {0}), <<Sub("net_id_variant", ItemStackNetIdVariant)>>),
          VarInt("block_runtime_id"), String("user_data")>>)>>,
    <<VarInt("id"),
      If(IsNot("id", {0}),
        <<Short("stack_size"), UVarInt("aux_value"), Bool("include_net_id"),
          If(IsNot("include_net_id", {0}), <<Sub("net_id_variant", ItemStackNetIdVariant)>>),
          VarInt("block_runtime_id"), String("user_data")>>)>>)

FullContainerName == Codec(
    <<Byte("container_enum"), Int32("dynamic_id")>>,
    <<Byte("container_enum"), Int32("dynamic_id")>>)

AbilitiesLayer == Codec(
    <<Short("layer_type"), Int32("abilities_set"), Int32("ability_values"),
      Float("fly_speed"), Float("vertical_fly_speed"), Float("walk_speed")>>,
    <<Short("layer_type"), Int32("abilities_set"), Int32("ability_values"),
      Float("fly_speed"), Float("vertical_fly_speed"), Float("walk_speed")>>)

SerializedAbilitiesData == Codec(
    <<Int64("target_player_raw_id"), Byte("player_permissions"),
      Byte("command_permissions"), CountAs("byte", "layers"),
      EachOf("layers", AbilitiesLayer)>>,
    <<Int64("target_player_raw_id"), Byte("player_permissions"),
      Byte("command_permissions"), CountAs("byte", "layers"),
      EachOf("layers", AbilitiesLayer)>>)

AttributeDataSimple == Codec(
    <<String("name"), Float("min_value"), Float("current_value"), Float("max_value")>>,
    <<String("name"), Float("min_value"), Float("current_value"), Float("max_value")>>)

AttributeDataFull == Codec(
    <<Float("min_value"), Float("max_value"), Float("current_value"),
      Float("default_min_value"), Float("default_max_value"), Float("default_value"),
      String("name"), Count("modifiers"),
      Each("modifiers",
        <<String("id"), String("name"), Float("amount"), Int32("operation"),
          Int32("operand"), Bool("serializable")>>)>>,
    <<Float("min_value"), Float("max_value"), Float("current_value"),
      Float("default_min_value"), Float("default_max_value"), Float("default_value"),
      String("name"), Count("modifiers"),
      Each("modifiers",
        <<String("id"), String("name"), Float("amount"), Int32("operation"),
          Int32("operand"), Bool("serializable")>>)>>)

InventorySource == Codec(
    <<UVarInt("source_type"), If(Is("source_type", {0, 100}), <<VarInt("container_id")>>),
      If(Is("source_type", {2}), <<UVarInt("bit_flags")>>)>>,
    <<UVarInt("source_type"), If(Is("source_type", {0, 100}), <<VarInt("container_id")>>),
      If(Is("source_type", {2}), <<UVarInt("bit_flags")>>)>>)

InventoryAction == Codec(
    <<Sub("source", InventorySource), UVarInt("slot"),
      Sub("from_item", NetworkItemStackDescriptor),
      Sub("to_item", NetworkItemStackDescriptor)>>,
    <<Sub("source", InventorySource), UVarInt("slot"),
      Sub("from_item", NetworkItemStackDescriptor),
      Sub("to_item", NetworkItemStackDescriptor)>>)

ScoreboardId == Codec(<<VarInt64("raw_id")>>, <<VarInt64("raw_id")>>)

SubChunkPos == Codec(
    <<VarInt("x"), VarInt("y"), VarInt("z")>>,
    <<VarInt("x"), VarInt("y"), VarInt("z")>>)

SubChunkPosOffset == Codec(
    <<Byte("x"), Byte("y"), Byte("z")>>,
    <<Byte("x"), Byte("y"), Byte("z")>>)

ItemStackRequestSlotInfo == Codec(
    <<Sub("container_name", FullContainerName), Byte("slot"),
      Sub("net_id_variant", ItemStackNetIdVariant)>>,
    <<Sub("container_name", FullContainerName), Byte("slot"),
      Sub("net_id_variant", ItemStackNetIdVariant)>>)

MapDecoration == Codec(
    <<Byte("type"), Byte("rotation"), Byte("x"), Byte("y"), String("label"),
      UVarInt("color")>>,
    <<Byte("type"), Byte("rotation"), Byte("x"), Byte("y"), String("label"),
      UVarInt("color")>>)

MovementAttributesComponent == Codec(
    <<Float("movement_speed"), Float("underwater_speed"), Float("lava_speed"),
      Float("jump_strength"), Float("health"), Float("hunger")>>,
    <<Float("movement_speed"), Float("underwater_speed"), Float("lava_speed"),
      Float("jump_strength"), Float("health"), Float("hunger")>>)
=============================================================================
