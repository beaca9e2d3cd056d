-------------------------- MODULE PacketCatalogue --------------------------
(***************************************************************************)
(* The packet classes and the ids of their getId() (packet_ids.hpp).       *)
(***************************************************************************)
EXTENDS SessionPackets, WorldPackets, ActorPackets, ItemPackets, InterfacePackets

Class(id, codec) == [id |-> id, codec |-> codec]

PacketClasses == [
    KeepAlive |-> Class(0, KeepAlive),
    Login |-> Class(1, Login),
    PlayStatus |-> Class(2, PlayStatus),
    ServerToClientHandshake |-> Class(3, ServerToClientHandshake),
    ClientToServerHandshake |-> Class(4, ClientToServerHandshake),
    Disconnect |-> Class(5, Disconnect),
    ResourcePacksInfo |-> Class(6, ResourcePacksInfo),
    ResourcePackStack |-> Class(7, ResourcePackStack),
    ResourcePackClientResponse |-> Class(8, ResourcePackClientResponse),
    Text |-> Class(9, Text),
    SetTime |-> Class(10, SetTime),
    StartGame |-> Class(11, StartGame),
    AddPlayer |-> Class(12, AddPlayer),
    AddActor |-> Class(13, AddActor),
    RemoveActor |-> Class(14, RemoveActor),
    AddItemActor |-> Class(15, AddItemActor),
    ServerPlayerPostMovePosition |-> Class(16, ServerPlayerPostMovePosition),
    TakeItemActor |-> Class(17, TakeItemActor),
    MoveActorAbsolute |-> Class(18, MoveActorAbsolute),
    MovePlayer |-> Class(19, MovePlayer),
    UpdateBlock |-> Class(21, UpdateBlock),
    AddPainting |-> Class(22, AddPainting),
    LevelEvent |-> Class(25, LevelEvent),
    BlockEvent |-> Class(26, BlockEvent),
    ActorEvent |-> Class(27, ActorEvent),
    MobEffect |-> Class(28, MobEffect),
    UpdateAttributes |-> Class(29, UpdateAttributes),
    InventoryTransaction |-> Class(30, InventoryTransaction),
    MobEquipment |-> Class(31, MobEquipment),
    MobArmorEquipment |-> Class(32, MobArmorEquipment),
    Interact |-> Class(33, Interact),
    BlockPickRequest |-> Class(34, BlockPickRequest),
    ActorPickRequest |-> Class(35, ActorPickRequest),
    PlayerAction |-> Class(36, PlayerAction),
    HurtArmor |-> Class(38, HurtArmor),
    SetActorData |-> Class(39, SetActorData),
    SetActorMotion |-> Class(40, SetActorMotion),
    SetActorLink |-> Class(41, SetActorLink),
    SetHealth |-> Class(42, SetHealth),
    SetSpawnPosition |-> Class(43, SetSpawnPosition),
    Animate |-> Class(44, Animate),
    Respawn |-> Class(45, Respawn),
    ContainerOpen |-> Class(46, ContainerOpen),
    ContainerClose |-> Class(47, ContainerClose),
    PlayerHotbar |-> Class(48, PlayerHotbar),
    InventoryContent |-> Class(49, InventoryContent),
    InventorySlot |-> Class(50, InventorySlot),
    ContainerSetData |-> Class(51, ContainerSetData),
    CraftingData |-> Class(52, CraftingData),
    GuiDataPickItem |-> Class(54, GuiDataPickItem),
    BlockActorData |-> Class(56, BlockActorData),
    LevelChunk |-> Class(58, LevelChunk),
    SetCommandsEnabled |-> Class(59, SetCommandsEnabled),
    SetDifficulty |-> Class(60, SetDifficulty),
    ChangeDimension |-> Class(61, ChangeDimension),
    SetPlayerGameType |-> Class(62, SetPlayerGameType),
    PlayerList |-> Class(63, PlayerList),
    SimpleEvent |-> Class(64, SimpleEvent),
    LegacyTelemetryEvent |-> Class(65, LegacyTelemetryEvent),
    SpawnExperienceOrb |-> Class(66, SpawnExperienceOrb),
    MapData |-> Class(67, MapData),
    MapInfoRequest |-> Class(68, MapInfoRequest),
    RequestChunkRadius |-> Class(69, RequestChunkRadius),
    ChunkRadiusUpdated |-> Class(70, ChunkRadiusUpdated),
    GameRulesChanged |-> Class(72, GameRulesChanged),
    Camera |-> Class(73, Camera),
    BossEvent |-> Class(74, BossEvent),
    ShowCredits |-> Class(75, ShowCredits),
    AvailableCommands |-> Class(76, AvailableCommands),
    CommandRequest |-> Class(77, CommandRequest),
    CommandBlockUpdate |-> Class(78, CommandBlockUpdate),
    CommandOutput |-> Class(79, CommandOutput),
    UpdateTrade |-> Class(80, UpdateTrade),
    UpdateEquip |-> Class(81, UpdateEquip),
    ResourcePackDataInfo |-> Class(82, ResourcePackDataInfo),
    ResourcePackChunkData |-> Class(83, ResourcePackChunkData),
    ResourcePackChunkRequest |-> Class(84, ResourcePackChunkRequest),
    Transfer |-> Class(85, Transfer),
    PlaySound |-> Class(86, PlaySound),
    StopSound |-> Class(87, StopSound),
    SetTitle |-> Class(88, SetTitle),
    AddBehaviorTree |-> Class(89, AddBehaviorTree),
    StructureBlockUpdate |-> Class(90, StructureBlockUpdate),
    ShowStoreOffer |-> Class(91, ShowStoreOffer),
    PurchaseReceipt |-> Class(92, PurchaseReceipt),
    PlayerSkin |-> Class(93, PlayerSkin),
    SubClientLogin |-> Class(94, SubClientLogin),
    AutomationClientConnect |-> Class(95, AutomationClientConnect),
    SetLastHurtBy |-> Class(96, SetLastHurtBy),
    BookEdit |-> Class(97, BookEdit),
    NpcRequest |-> Class(98, NpcRequest),
    PhotoTransfer |-> Class(99, PhotoTransfer),
    ModalFormRequest |-> Class(100, ModalFormRequest),
    ModalFormResponse |-> Class(101, ModalFormResponse),
    ServerSettingsRequest |-> Class(102, ServerSettingsRequest),
    ServerSettingsResponse |-> Class(103, ServerSettingsResponse),
    ShowProfile |-> Class(104, ShowProfile),
    SetDefaultGameType |-> Class(105, SetDefaultGameType),
    RemoveObjective |-> Class(106, RemoveObjective),
    SetDisplayObjective |-> Class(107, SetDisplayObjective),
    SetScore |-> Class(108, SetScore),
    LabTable |-> Class(109, LabTable),
    UpdateBlockSynced |-> Class(110, UpdateBlockSynced),
    MoveActorDelta |-> Class(111, MoveActorDelta),
    SetScoreboardIdentity |-> Class(112, SetScoreboardIdentity),
    SetLocalPlayerAsInitialized |-> Class(113, SetLocalPlayerAsInitialized),
    UpdateSoftEnum |-> Class(114, UpdateSoftEnum),
    NetworkStackLatency |-> Class(115, NetworkStackLatency),
    Ping |-> Class(115, Ping),
    ScriptCustomEvent |-> Class(117, ScriptCustomEvent),
    SpawnParticleEffect |-> Class(118, SpawnParticleEffect),
    AvailableActorIdentifiers |-> Class(119, AvailableActorIdentifiers),
    NetworkChunkPublisherUpdate |-> Class(121, NetworkChunkPublisherUpdate),
    BiomeDefinitionList |-> Class(122, BiomeDefinitionList),
    LevelSoundEvent |-> Class(123, LevelSoundEvent),
    LevelEventGeneric |-> Class(124, LevelEventGeneric),
    LecternUpdate |-> Class(125, LecternUpdate),
    ClientCacheStatus |-> Class(129, ClientCacheStatus),
    OnScreenTextureAnimation |-> Class(130, OnScreenTextureAnimation),
    MapCreateLockedCopy |-> Class(131, MapCreateLockedCopy),
    StructureTemplateDataRequest |-> Class(132, StructureTemplateDataRequest),
    StructureTemplateDataResponse |-> Class(133, StructureTemplateDataResponse),
    ClientCacheBlobStatus |-> Class(135, ClientCacheBlobStatus),
    ClientCacheMissResponse |-> Class(136, ClientCacheMissResponse),
    EducationSettings |-> Class(137, EducationSettings),
    Emote |-> Class(138, Emote),
    MultiplayerSettings |-> Class(139, MultiplayerSettings),
    SettingsCommand |-> Class(140, SettingsCommand),
    AnvilDamage |-> Class(141, AnvilDamage),
    CompletedUsingItem |-> Class(142, CompletedUsingItem),
    NetworkSettings |-> Class(143, NetworkSettings),
    PlayerAuthInput |-> Class(144, PlayerAuthInput),
    CreativeContent |-> Class(145, CreativeContent),
    PlayerEnchantOptions |-> Class(146, PlayerEnchantOptions),
    ItemStackRequest |-> Class(147, ItemStackRequest),
    ItemStackResponse |-> Class(148, ItemStackResponse),
    PlayerArmorDamage |-> Class(149, PlayerArmorDamage),
    CodeBuilder |-> Class(150, CodeBuilder),
    UpdatePlayerGameType |-> Class(151, UpdatePlayerGameType),
    EmoteList |-> Class(152, EmoteList),
    PositionTrackingDBServerBroadcast |-> Class(153, PositionTrackingDBServerBroadcast),
    PositionTrackingDBClientRequest |-> Class(154, PositionTrackingDBClientRequest),
    DebugInfo |-> Class(155, DebugInfo),
    PacketViolationWarning |-> Class(156, PacketViolationWarning),
    MotionPredictionHints |-> Class(157, MotionPredictionHints),
    AnimateEntity |-> Class(158, AnimateEntity),
    CameraShake |-> Class(159, CameraShake),
    PlayerFog |-> Class(160, PlayerFog),
    CorrectPlayerMovePrediction |-> Class(161, CorrectPlayerMovePrediction),
    ItemRegistry |-> Class(162, ItemRegistry),
    ClientboundDebugRenderer |-> Class(164, ClientboundDebugRenderer),
    SyncActorProperty |-> Class(165, SyncActorProperty),
    AddVolumeEntity |-> Class(166, AddVolumeEntity),
    RemoveVolumeEntity |-> Class(167, RemoveVolumeEntity),
    SimulationType |-> Class(168, SimulationType),
    NpcDialogue |-> Class(169, NpcDialogue),
    EduUriResource |-> Class(170, EduUriResource),
    CreatePhoto |-> Class(171, CreatePhoto),
    UpdateSubChunkBlocks |-> Class(172, UpdateSubChunkBlocks),
    SubChunk |-> Class(174, SubChunk),
    SubChunkRequest |-> Class(175, SubChunkRequest),
    PlayerStartItemCooldown |-> Class(176, PlayerStartItemCooldown),
    ScriptMessage |-> Class(177, ScriptMessage),
    CodeBuilderSource |-> Class(178, CodeBuilderSource),
    TickingAreasLoadStatus |-> Class(179, TickingAreasLoadStatus),
    DimensionData |-> Class(180, DimensionData),
    AgentActionEvent |-> Class(181, AgentActionEvent),
    ChangeMobProperty |-> Class(182, ChangeMobProperty),
    LessonProgress |-> Class(183, LessonProgress),
    RequestAbility |-> Class(184, RequestAbility),
    RequestPermissions |-> Class(185, RequestPermissions),
    ToastRequest |-> Class(186, ToastRequest),
    UpdateAbilities |-> Class(187, UpdateAbilities),
    UpdateAdventureSettings |-> Class(188, UpdateAdventureSettings),
    DeathInfo |-> Class(189, DeathInfo),
    EditorNetwork |-> Class(190, EditorNetwork),
    FeatureRegistry |-> Class(191, FeatureRegistry),
    ServerStats |-> Class(192, ServerStats),
    RequestNetworkSettings |-> Class(193, RequestNetworkSettings),
    GameTestRequest |-> Class(194, GameTestRequest),
    GameTestResults |-> Class(195, GameTestResults),
    PlayerClientInputPermissions |-> Class(196, PlayerClientInputPermissions),
    UpdateClientInputLocks |-> Class(196, UpdateClientInputLocks),
    CameraPresets |-> Class(198, CameraPresets),
    UnlockedRecipes |-> Class(199, UnlockedRecipes),
    CameraInstruction |-> Class(300, CameraInstruction),
    CompressedBiomeDefinitionList |-> Class(301, CompressedBiomeDefinitionList),
    TrimData |-> Class(302, TrimData),
    OpenSign |-> Class(303, OpenSign),
    AgentAnimation |-> Class(304, AgentAnimation),
    RefreshEntitlements |-> Class(305, RefreshEntitlements),
    PlayerToggleCrafterSlotRequest |-> Class(306, PlayerToggleCrafterSlotRequest),
    SetPlayerInventoryOptions |-> Class(307, SetPlayerInventoryOptions),
    SetHud |-> Class(308, SetHud),
    AwardAchievement |-> Class(309, AwardAchievement),
    ClientboundCloseForm |-> Class(310, ClientboundCloseForm),
    ServerboundLoadingScreen |-> Class(312, ServerboundLoadingScreen),
    JigsawStructureData |-> Class(313, JigsawStructureData),
    CurrentStructureFeature |-> Class(314, CurrentStructureFeature),
    ServerboundDiagnostics |-> Class(315, ServerboundDiagnostics),
    CameraAimAssist |-> Class(316, CameraAimAssist),
    ContainerRegistryCleanup |-> Class(317, ContainerRegistryCleanup),
    MovementEffect |-> Class(318, MovementEffect),
    CameraAimAssistPresets |-> Class(320, CameraAimAssistPresets),
    ClientCameraAimAssist |-> Class(321, ClientCameraAimAssist),
    ClientMovementPredictionSync |-> Class(322, ClientMovementPredictionSync),
    UpdateClientOptions |-> Class(323, UpdateClientOptions),
    PlayerVideoCapture |-> Class(324, PlayerVideoCapture),
    PlayerUpdateEntityOverrides |-> Class(325, PlayerUpdateEntityOverrides),
    PlayerLocation |-> Class(326, PlayerLocation),
    ClientboundControlSchemeSet |-> Class(327, ClientboundControlSchemeSet),
    DebugDrawer |-> Class(328, DebugDrawer),
    ServerScriptDebugDrawer |-> Class(328, ServerScriptDebugDrawer),
    ServerboundPackSettingChange |-> Class(329, ServerboundPackSettingChange),
    ClientboundDataStore |-> Class(330, ClientboundDataStore),
    GraphicsOverrideParameter |-> Class(331, GraphicsOverrideParameter),
    ServerboundDataStore |-> Class(332, ServerboundDataStore),
    ClientboundDataDrivenUIShowScreen |-> Class(333, ClientboundDataDrivenUIShowScreen),
    ClientboundDataDrivenUICloseScreen |-> Class(334, ClientboundDataDrivenUICloseScreen),
    ClientboundDataDrivenUIReload |-> Class(335, ClientboundDataDrivenUIReload),
    ClientboundTextureShift |-> Class(336, ClientboundTextureShift),
    VoxelShapes |-> Class(337, VoxelShapes),
    CameraSpline |-> Class(338, CameraSpline),
    CameraAimAssistActorPriority |-> Class(339, CameraAimAssistActorPriority),
    ResourcePacksReadyForValidation |-> Class(340, ResourcePacksReadyForValidation),
    LocatorBar |-> Class(341, LocatorBar),
    PartyChanged |-> Class(342, PartyChanged),
    ServerboundDataDrivenScreenClosed |-> Class(343, ServerboundDataDrivenScreenClosed),
    SyncWorldClocks |-> Class(344, SyncWorldClocks),
    ClientboundAttributeLayerSync |-> Class(345, ClientboundAttributeLayerSync)]

ClassNames == DOMAIN PacketClasses
=============================================================================
