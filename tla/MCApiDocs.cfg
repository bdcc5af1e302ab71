CONSTANTS
  ExportMenu <- MCExportMenu
  FolderPaths = {"p"}
  FileNames = {"f"}
  MaxFiles = 2
  MaxExports = 2
  MetadataCases <- MCMetadataCases
SPECIFICATION Spec
INVARIANTS TypeOK RenderedDocVerifies HeadingLevelsContiguous ExportSectionsLabelled SlugifyMatchesReference
CHECK_DEADLOCK FALSE
