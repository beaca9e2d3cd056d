---------------------------- MODULE ItemPackets ----------------------------
(***************************************************************************)
(* Packets about items, inventories, containers and recipes.               *)
(* One definition per class: what write puts on the stream, in order, and  *)
(* what read takes off it.                                                 *)
(***************************************************************************)
EXTENDS PacketTypes

AddItemActor == Codec(
    <<ActorUniqueID("target_actor_id"), ActorRuntimeID("target_runtime_id"),
      Sub("item", NetworkItemStackDescriptor), Vec3("position"), Vec3("velocity"),
      DataItems("entity_data"), Bool("from_fishing")>>,
    <<ActorUniqueID("target_actor_id"), ActorRuntimeID("target_runtime_id"),
      Sub("item", NetworkItemStackDescriptor), Vec3("position"), Vec3("velocity"),
      DataItems("entity_data"), Bool("from_fishing")>>)

AnvilDamage == Codec(
    <<Byte("damage"), NetworkBlockPos("position")>>,
    <<Byte("damage"), NetworkBlockPos("position")>>)

CompletedUsingItem == Codec(
    <<Short("item_id"), Int32("use_method")>>,
    <<Short("item_id"), Int32("use_method")>>)

ContainerClose == Codec(
    <<Byte("window_id"), Byte("container_type"), Bool("server_initiated")>>,
    <<Byte("window_id"), Byte("container_type"), Bool("server_initiated")>>)

ContainerOpen == Codec(
    <<Byte("window_id"), Byte("type"), NetworkBlockPos("position"),
      ActorUniqueID("entity_unique_id")>>,
    <<Byte("window_id"), Byte("type"), NetworkBlockPos("position"),
      ActorUniqueID("entity_unique_id")>>)

ContainerRegistryCleanup == Codec(
    <<Count("removed_containers"), Each("removed_containers", <<Byte("it")>>)>>,
    <<Count("removed_containers"), Each("removed_containers", <<Byte("it")>>)>>)

ContainerSetData == Codec(
    <<Byte("window_id"), VarInt("property"), VarInt("value")>>,
    <<Byte("window_id"), VarInt("property"), VarInt("value")>>)

RecipeIngredient == Codec(
    <<Byte("internal_type"), VarInt("stack_size")>>,
    <<Byte("internal_type"), VarInt("stack_size")>>)

NetworkItemInstanceDescriptorSimple == Codec(
    <<VarInt("id"),
      If(IsNot("id", {0}),
        <<Short("stack_size"), UVarInt("aux_value"), VarInt("block_runtime_id"),
          String("user_data")>>)>>,
    <<VarInt("id"),
      If(IsNot("id", {0}),
        <<Short("stack_size"), UVarInt("aux_value"), VarInt("block_runtime_id"),
          String("user_data")>>)>>)

RecipeUnlockingRequirement == Codec(
    <<Byte("unlocking_context"),
      If(IsNot("unlocking_context", {0}),
        <<Count("ingredients"), EachOf("ingredients", RecipeIngredient)>>)>>,
    <<Byte("unlocking_context"),
      If(IsNot("unlocking_context", {0}),
        <<Count("ingredients"), EachOf("ingredients", RecipeIngredient)>>)>>)

ShapelessRecipe == Codec(
    <<String("recipe_unique_id"), Count("ingredients"),
      EachOf("ingredients", RecipeIngredient), Count("results"),
      EachOf("results", NetworkItemInstanceDescriptorSimple), UUID("recipe_id"),
      String("recipe_tag"), VarInt("priority"),
      Sub("unlocking_req", RecipeUnlockingRequirement)>>,
    <<String("recipe_unique_id"), Count("ingredients"),
      EachOf("ingredients", RecipeIngredient), Count("results"),
      EachOf("results", NetworkItemInstanceDescriptorSimple), UUID("recipe_id"),
      String("recipe_tag"), VarInt("priority"),
      Sub("unlocking_req", RecipeUnlockingRequirement)>>)

ShapedRecipe == Codec(
    <<String("recipe_unique_id"), VarInt("width"), VarInt("height"),
      ResizeBy("ingredients", "width", "height"), EachOf("ingredients", RecipeIngredient),
      Count("results"), EachOf("results", NetworkItemInstanceDescriptorSimple),
      UUID("recipe_id"), String("recipe_tag"), VarInt("priority"), Bool("assume_symmetry"),
      Sub("unlocking_req", RecipeUnlockingRequirement)>>,
    <<String("recipe_unique_id"), VarInt("width"), VarInt("height"),
      ResizeBy("ingredients", "width", "height"), EachOf("ingredients", RecipeIngredient),
      Count("results"), EachOf("results", NetworkItemInstanceDescriptorSimple),
      UUID("recipe_id"), String("recipe_tag"), VarInt("priority"), Bool("assume_symmetry"),
      Sub("unlocking_req", RecipeUnlockingRequirement)>>)

FurnaceRecipe == Codec(
    <<VarInt("item_data"), Sub("result", NetworkItemInstanceDescriptorSimple),
      String("recipe_tag")>>,
    <<VarInt("item_data"), Sub("result", NetworkItemInstanceDescriptorSimple),
      String("recipe_tag")>>)

FurnaceAuxRecipe == Codec(
    <<VarInt("item_data"), VarInt("aux_data"),
      Sub("result", NetworkItemInstanceDescriptorSimple), String("recipe_tag")>>,
    <<VarInt("item_data"), VarInt("aux_data"),
      Sub("result", NetworkItemInstanceDescriptorSimple), String("recipe_tag")>>)

MultiRecipe == Codec(
    <<UUID("uuid"), UVarInt("net_id")>>,
    <<UUID("uuid"), UVarInt("net_id")>>)

SmithingTransformRecipe == Codec(
    <<String("recipe_id"), Sub("template_ingredient", RecipeIngredient),
      Sub("base_ingredient", RecipeIngredient),
      Sub("addition_ingredient", RecipeIngredient),
      Sub("result", NetworkItemInstanceDescriptorSimple), String("tag")>>,
    <<String("recipe_id"), Sub("template_ingredient", RecipeIngredient),
      Sub("base_ingredient", RecipeIngredient),
      Sub("addition_ingredient", RecipeIngredient),
      Sub("result", NetworkItemInstanceDescriptorSimple), String("tag")>>)

SmithingTrimRecipe == Codec(
    <<String("recipe_id"), Sub("template_ingredient", RecipeIngredient),
      Sub("base_ingredient", RecipeIngredient),
      Sub("addition_ingredient", RecipeIngredient), String("tag")>>,
    <<String("recipe_id"), Sub("template_ingredient", RecipeIngredient),
      Sub("base_ingredient", RecipeIngredient),
      Sub("addition_ingredient", RecipeIngredient), String("tag")>>)

PotionMixDataEntry == Codec(
    <<VarInt("from_potion_id"), VarInt("from_item_aux"), VarInt("reagent_item_id"),
      VarInt("reagent_item_aux"), VarInt("to_potion_id"), VarInt("to_item_aux")>>,
    <<VarInt("from_potion_id"), VarInt("from_item_aux"), VarInt("reagent_item_id"),
      VarInt("reagent_item_aux"), VarInt("to_potion_id"), VarInt("to_item_aux")>>)

ContainerMixDataEntry == Codec(
    <<VarInt("from_item_id"), VarInt("reagent_item_id"), VarInt("to_item_id")>>,
    <<VarInt("from_item_id"), VarInt("reagent_item_id"), VarInt("to_item_id")>>)

MaterialReducerDataEntry == Codec(
    <<VarInt("from_item"), Count("outputs"),
      Each("outputs", <<VarInt("item_id"), VarInt("count")>>)>>,
    <<VarInt("from_item"), Count("outputs"),
      Each("outputs", <<VarInt("item_id"), VarInt("count")>>)>>)

CraftingDataEntry == Codec(
    <<VarInt("type"),
      If(Is("type", {0, 5, 6}), <<Sub("shapeless", ShapelessRecipe), UVarInt("net_id")>>),
      If(Is("type", {1, 7}), <<Sub("shaped", ShapedRecipe), UVarInt("net_id")>>),
      If(Is("type", {2}), <<Sub("furnace", FurnaceRecipe)>>),
      If(Is("type", {3}), <<Sub("furnace_aux", FurnaceAuxRecipe)>>),
      If(Is("type", {4}), <<Sub("multi", MultiRecipe)>>),
      If(Is("type", {8}),
        <<Sub("smithing_transform", SmithingTransformRecipe), UVarInt("net_id")>>),
      If(Is("type", {9}), <<Sub("smithing_trim", SmithingTrimRecipe), UVarInt("net_id")>>)>>,
    <<VarInt("type"),
      If(Is("type", {0, 5, 6}), <<Sub("shapeless", ShapelessRecipe), UVarInt("net_id")>>),
      If(Is("type", {1, 7}), <<Sub("shaped", ShapedRecipe), UVarInt("net_id")>>),
      If(Is("type", {2}), <<Sub("furnace", FurnaceRecipe)>>),
      If(Is("type", {3}), <<Sub("furnace_aux", FurnaceAuxRecipe)>>),
      If(Is("type", {4}), <<Sub("multi", MultiRecipe)>>),
      If(Is("type", {8}),
        <<Sub("smithing_transform", SmithingTransformRecipe), UVarInt("net_id")>>),
      If(Is("type", {9}), <<Sub("smithing_trim", SmithingTrimRecipe), UVarInt("net_id")>>)>>)

CraftingData == Codec(
    <<Count("entries"), EachOf("entries", CraftingDataEntry), Count("potion_mixes"),
      EachOf("potion_mixes", PotionMixDataEntry), Count("container_mixes"),
      EachOf("container_mixes", ContainerMixDataEntry), Count("material_reducers"),
      EachOf("material_reducers", MaterialReducerDataEntry), Bool("clear_recipes")>>,
    <<Count("entries"), EachOf("entries", CraftingDataEntry), Count("potion_mixes"),
      EachOf("potion_mixes", PotionMixDataEntry), Count("container_mixes"),
      EachOf("container_mixes", ContainerMixDataEntry), Count("material_reducers"),
      EachOf("material_reducers", MaterialReducerDataEntry), Bool("clear_recipes")>>)

CreativeContent == Codec(<<Rest("items_data")>>, <<Rest("items_data")>>)

GuiDataPickItem == Codec(
    <<String("item_description"), String("item_effects"), Int32("hotbar_slot")>>,
    <<String("item_description"), String("item_effects"), Int32("hotbar_slot")>>)

InventoryContent == Codec(
    <<UVarInt("inventory_id"), Count("slots"), EachOf("slots", NetworkItemStackDescriptor),
      Sub("full_container_name", FullContainerName),
      Sub("storage_item", NetworkItemStackDescriptor)>>,
    <<UVarInt("inventory_id"), Count("slots"), EachOf("slots", NetworkItemStackDescriptor),
      Sub("full_container_name", FullContainerName),
      Sub("storage_item", NetworkItemStackDescriptor)>>)

InventorySlot == Codec(
    <<UVarInt("container_id"), UVarInt("slot"),
      Sub("full_container_name", FullContainerName),
      Sub("storage_item", NetworkItemStackDescriptor),
      Sub("item", NetworkItemStackDescriptor)>>,
    <<UVarInt("container_id"), UVarInt("slot"),
      Sub("full_container_name", FullContainerName),
      Sub("storage_item", NetworkItemStackDescriptor),
      Sub("item", NetworkItemStackDescriptor)>>)

InventoryTransaction == Codec(
    <<VarInt("legacy_request_id"),
      If(IsNot("legacy_request_id", {0}),
        <<Count("legacy_slots"),
          Each("legacy_slots",
            <<Byte("container_id"), Count("slots"), Each("slots", <<Byte("it")>>)>>)>>),
      UVarInt("transaction_type"), Count("actions"), EachOf("actions", InventoryAction),
      If(Is("transaction_type", {2}),
        <<UVarInt("item_use_data.action_type"), UVarInt("item_use_data.trigger_type"),
          BlockPos("item_use_data.block_pos"), VarInt("item_use_data.face"),
          VarInt("item_use_data.hotbar_slot"),
          Sub("item_use_data.item", NetworkItemStackDescriptor),
          Vec3("item_use_data.player_pos"), Vec3("item_use_data.click_pos"),
          UVarInt("item_use_data.block_runtime_id"),
          Byte("item_use_data.client_interact_prediction"),
          Byte("item_use_data.client_cooldown_state")>>),
      If(Is("transaction_type", {3}),
        <<ActorRuntimeID("item_use_on_entity_data.entity_runtime_id"),
          UVarInt("item_use_on_entity_data.action_type"),
          VarInt("item_use_on_entity_data.hotbar_slot"),
          Sub("item_use_on_entity_data.item", NetworkItemStackDescriptor),
          Vec3("item_use_on_entity_data.player_pos"),
          Vec3("item_use_on_entity_data.click_pos")>>),
      If(Is("transaction_type", {4}),
        <<UVarInt("item_release_data.action_type"), VarInt("item_release_data.hotbar_slot"),
          Sub("item_release_data.item", NetworkItemStackDescriptor),
          Vec3("item_release_data.head_pos")>>)>>,
    <<VarInt("legacy_request_id"),
      If(IsNot("legacy_request_id", {0}),
        <<Count("legacy_slots"),
          Each("legacy_slots",
            <<Byte("container_id"), Count("slots"), Each("slots", <<Byte("it")>>)>>)>>),
      UVarInt("transaction_type"), Count("actions"), EachOf("actions", InventoryAction),
      If(Is("transaction_type", {2}),
        <<UVarInt("item_use_data.action_type"), UVarInt("item_use_data.trigger_type"),
          BlockPos("item_use_data.block_pos"), VarInt("item_use_data.face"),
          VarInt("item_use_data.hotbar_slot"),
          Sub("item_use_data.item", NetworkItemStackDescriptor),
          Vec3("item_use_data.player_pos"), Vec3("item_use_data.click_pos"),
          UVarInt("item_use_data.block_runtime_id"),
          Byte("item_use_data.client_interact_prediction"),
          Byte("item_use_data.client_cooldown_state")>>),
      If(Is("transaction_type", {3}),
        <<ActorRuntimeID("item_use_on_entity_data.entity_runtime_id"),
          UVarInt("item_use_on_entity_data.action_type"),
          VarInt("item_use_on_entity_data.hotbar_slot"),
          Sub("item_use_on_entity_data.item", NetworkItemStackDescriptor),
          Vec3("item_use_on_entity_data.player_pos"),
          Vec3("item_use_on_entity_data.click_pos")>>),
      If(Is("transaction_type", {4}),
        <<UVarInt("item_release_data.action_type"), VarInt("item_release_data.hotbar_slot"),
          Sub("item_release_data.item", NetworkItemStackDescriptor),
          Vec3("item_release_data.head_pos")>>)>>)

ItemRegistry == Codec(<<Rest("items_data")>>, <<Rest("items_data")>>)

StackRequestAction == Codec(
    <<Byte("action_type"), Byte("amount"), Sub("source", ItemStackRequestSlotInfo),
      Sub("destination", ItemStackRequestSlotInfo)>>,
    <<Byte("action_type"), Byte("amount"), Sub("source", ItemStackRequestSlotInfo),
      Sub("destination", ItemStackRequestSlotInfo)>>)

StackRequest == Codec(
    <<VarInt("client_request_id"), Count("actions"), EachOf("actions", StackRequestAction),
      Count("strings_to_filter"), Each("strings_to_filter", <<String("it")>>),
      Int32("strings_to_filter_origin")>>,
    <<VarInt("client_request_id"), Count("actions"), EachOf("actions", StackRequestAction),
      Count("strings_to_filter"), Each("strings_to_filter", <<String("it")>>),
      Int32("strings_to_filter_origin")>>)

ItemStackRequest == Codec(
    <<Count("requests"), EachOf("requests", StackRequest)>>,
    <<Count("requests"), EachOf("requests", StackRequest)>>)

ResponseSlotInfo == Codec(
    <<Byte("requested_slot"), Byte("slot"), Byte("amount"), VarInt("stack_net_id"),
      String("custom_name"), String("filtered_custom_name"),
      VarInt("durability_correction")>>,
    <<Byte("requested_slot"), Byte("slot"), Byte("amount"), VarInt("stack_net_id"),
      String("custom_name"), String("filtered_custom_name"),
      VarInt("durability_correction")>>)

ResponseContainerInfo == Codec(
    <<Sub("container_name", FullContainerName), Count("slots"),
      EachOf("slots", ResponseSlotInfo)>>,
    <<Sub("container_name", FullContainerName), Count("slots"),
      EachOf("slots", ResponseSlotInfo)>>)

ResponseInfo == Codec(
    <<Byte("result"), VarInt("client_request_id"),
      If(Is("result", {0}),
        <<Count("containers"), EachOf("containers", ResponseContainerInfo)>>)>>,
    <<Byte("result"), VarInt("client_request_id"),
      If(Is("result", {0}),
        <<Count("containers"), EachOf("containers", ResponseContainerInfo)>>)>>)

ItemStackResponse == Codec(
    <<Count("responses"), EachOf("responses", ResponseInfo)>>,
    <<Count("responses"), EachOf("responses", ResponseInfo)>>)

LabTable == Codec(
    <<Byte("action_type"), NetworkBlockPos("position"), Byte("reaction_type")>>,
    <<Byte("action_type"), NetworkBlockPos("position"), Byte("reaction_type")>>)

MobArmorEquipment == Codec(
    <<ActorRuntimeID("target_runtime_id"), Sub("head", NetworkItemStackDescriptor),
      Sub("torso", NetworkItemStackDescriptor), Sub("legs", NetworkItemStackDescriptor),
      Sub("feet", NetworkItemStackDescriptor), Sub("body", NetworkItemStackDescriptor)>>,
    <<ActorRuntimeID("target_runtime_id"), Sub("head", NetworkItemStackDescriptor),
      Sub("torso", NetworkItemStackDescriptor), Sub("legs", NetworkItemStackDescriptor),
      Sub("feet", NetworkItemStackDescriptor), Sub("body", NetworkItemStackDescriptor)>>)

MobEquipment == Codec(
    <<ActorRuntimeID("target_runtime_id"), Sub("item", NetworkItemStackDescriptor),
      Byte("slot"), Byte("selected_slot"), Byte("container_id")>>,
    <<ActorRuntimeID("target_runtime_id"), Sub("item", NetworkItemStackDescriptor),
      Byte("slot"), Byte("selected_slot"), Byte("container_id")>>)

PlayerEnchantOptions == Codec(
    <<Count("options"),
      Each("options",
        <<UVarInt("cost"), String("enchants_raw"), String("enchant_name"),
          UVarInt("enchant_net_id")>>)>>,
    <<Count("options"),
      Each("options",
        <<UVarInt("cost"), String("enchants_raw"), String("enchant_name"),
          UVarInt("enchant_net_id")>>)>>)

PlayerHotbar == Codec(
    <<UVarInt("selected_hotbar_slot"), Byte("window_id"), Bool("select_hotbar_slot")>>,
    <<UVarInt("selected_hotbar_slot"), Byte("window_id"), Bool("select_hotbar_slot")>>)

PlayerStartItemCooldown == Codec(
    <<String("item_category"), VarInt("cooldown_ticks")>>,
    <<String("item_category"), VarInt("cooldown_ticks")>>)

PlayerToggleCrafterSlotRequest == Codec(
    <<VarInt("x"), VarInt("y"), VarInt("z"), Byte("slot"), Bool("disabled")>>,
    <<VarInt("x"), VarInt("y"), VarInt("z"), Byte("slot"), Bool("disabled")>>)

SetPlayerInventoryOptions == Codec(
    <<VarInt("left_tab"), VarInt("right_tab"), Bool("filtering"), VarInt("layout"),
      VarInt("crafting_layout")>>,
    <<VarInt("left_tab"), VarInt("right_tab"), Bool("filtering"), VarInt("layout"),
      VarInt("crafting_layout")>>)

TakeItemActor == Codec(
    <<ActorRuntimeID("item_runtime_id"), ActorRuntimeID("player_runtime_id")>>,
    <<ActorRuntimeID("item_runtime_id"), ActorRuntimeID("player_runtime_id")>>)

TrimData == Codec(
    <<Count("patterns"), Each("patterns", <<String("item_name"), String("pattern_id")>>),
      Count("materials"),
      Each("materials", <<String("material_id"), String("color"), String("item_name")>>)>>,
    <<Count("patterns"), Each("patterns", <<String("item_name"), String("pattern_id")>>),
      Count("materials"),
      Each("materials", <<String("material_id"), String("color"), String("item_name")>>)>>)

UnlockedRecipes == Codec(
    <<Int32("unlock_type"), Count("recipes"), Each("recipes", <<String("it")>>)>>,
    <<Int32("unlock_type"), Count("recipes"), Each("recipes", <<String("it")>>)>>)

UpdateEquip == Codec(
    <<Byte("container_id"), Byte("type"), VarInt("size"), ActorUniqueID("entity_unique_id"),
      Rest("nbt_data")>>,
    <<Byte("container_id"), Byte("type"), VarInt("size"), ActorUniqueID("entity_unique_id"),
      Rest("nbt_data")>>)

UpdateTrade == Codec(
    <<Byte("container_id"), Byte("type"), VarInt("size"), VarInt("trader_tier"),
      ActorUniqueID("entity_unique_id"), ActorUniqueID("last_trading_player"),
      String("display_name"), Bool("use_new_trade_screen"), Bool("using_economy_trade"),
      Rest("nbt_data")>>,
    <<Byte("container_id"), Byte("type"), VarInt("size"), VarInt("trader_tier"),
      ActorUniqueID("entity_unique_id"), ActorUniqueID("last_trading_player"),
      String("display_name"), Bool("use_new_trade_screen"), Bool("using_economy_trade"),
      Rest("nbt_data")>>)
=============================================================================
